-------------------------- MODULE ChatTurns_proofs --------------------------
(***************************************************************************)
(* Safety of the requests of one chat, for any number of turns, callbacks   *)
(* and replacements, however many of them are under way at once.            *)
(***************************************************************************)
EXTENDS ChatTurns, FiniteSetTheorems, SequenceTheorems, TLAPS

Places == Ended \union {"idle", "sent", "open", "confirming", "editing", "asking",
                        "agent", "answered", "flushed"}

\* The flush of a message takes the chat's row, and only the holder of that row
\* gets on to what needs its messages to stay.
LockInv ==
    /\ pc \in [Requests -> Places]
    /\ DOMAIN loaded = Requests
    /\ \A r \in Requests : pc[r] \in {"agent", "flushed"} => lock = r /\ loaded[r] = rows

\* A step of a request that neither holds nor takes the row.
LEMMA LockFree ==
    ASSUME LockInv, NEW r \in Requests, NEW next \in Places,
           pc' = [pc EXCEPT ![r] = next],
           next \in {"agent", "flushed"} => pc[r] \in {"agent", "flushed"},
           UNCHANGED <<rows, lock, loaded>>
    PROVE  LockInv'
BY DEF LockInv

LEMMA LockInit == Init => LockInv
BY DEF Init, LockInv, Places, Ended

LEMMA LockStep == LockInv /\ [Next]_vars => LockInv'
<1>. SUFFICES ASSUME LockInv, [Next]_vars PROVE LockInv'
    OBVIOUS
<1>0. /\ \A t \in Turns : t \in Requests
      /\ \A c \in Callbacks : c \in Requests
      /\ \A p \in Puts : p \in Requests
      /\ None \notin Requests
    BY ChatAssumption DEF Requests
<1>1. ASSUME NEW t \in Turns, Send(t)
      PROVE  LockInv'
    BY <1>0, <1>1, LockFree DEF Send, Places
<1>2. ASSUME NEW t \in Turns, BeginTurn(t)
      PROVE  LockInv'
    BY <1>0, <1>2, LockFree DEF BeginTurn, Begins, Places
<1>3. ASSUME NEW t \in Turns, ReadPending(t)
      PROVE  LockInv'
    <2>1. \A act : Way(t, act) \in {"asking", "confirming", "editing"}
        BY DEF Way
    <2>2. PICK act : pc' = [pc EXCEPT ![t] = Way(t, act)] /\ UNCHANGED <<rows, lock, loaded>>
        BY <1>3 DEF ReadPending
    <2>. QED BY <1>0, <2>1, <2>2, LockFree DEF Places, Ended
<1>4. ASSUME NEW t \in Turns, ExecutePending(t) \/ EditPending(t) \/ RunAgent(t)
      PROVE  LockInv'
    <2>1. \/ pc' = [pc EXCEPT ![t] = "answered"]
          \/ pc[t] = "agent" /\ pc' = [pc EXCEPT ![t] = "flushed"]
        BY <1>4 DEF ExecutePending, EditPending, RunAgent, Replies
    <2>2. UNCHANGED <<rows, lock, loaded>>
        BY <1>4 DEF ExecutePending, EditPending, RunAgent, Replies
    <2>. QED BY <1>0, <2>1, <2>2, LockFree DEF Places, Ended
<1>5. ASSUME NEW c \in Callbacks, BeginCallback(c) \/ ReadEvent(c)
      PROVE  LockInv'
    <2>1. \E next \in {"open", "deduplicated", "answered"} : pc' = [pc EXCEPT ![c] = next]
        BY <1>5 DEF BeginCallback, ReadEvent, Begins
    <2>2. UNCHANGED <<rows, lock, loaded>>
        BY <1>5 DEF BeginCallback, ReadEvent
    <2>. QED BY <1>0, <2>1, <2>2, LockFree DEF Places, Ended
<1>6. ASSUME NEW p \in Puts, BeginPut(p) \/ DeleteMessages(p)
      PROVE  LockInv'
    <2>1. \E next \in {"open", "answered"} : pc' = [pc EXCEPT ![p] = next]
        BY <1>6 DEF BeginPut, DeleteMessages, Begins
    <2>2. UNCHANGED <<rows, lock, loaded>>
        BY <1>6 DEF BeginPut, DeleteMessages
    <2>. QED BY <1>0, <2>1, <2>2, LockFree DEF Places, Ended
\* The row is free when it is taken, so nobody relies on its messages.
<1>7. ASSUME NEW r \in Requests, Flush(r)
      PROVE  LockInv'
    BY <1>0, <1>7 DEF Flush, LockInv, Places, Ended
\* Whoever gives the row back is the one that relied on it.
<1>8. ASSUME NEW r \in Requests, Commit(r)
      PROVE  LockInv'
    BY <1>8 DEF Commit, LockInv, Places, Ended
<1>9. ASSUME NEW r \in Requests, Abort(r)
      PROVE  LockInv'
    BY <1>9 DEF Abort, LockInv, Places, Ended
<1>10. CASE UNCHANGED vars
    BY <1>10 DEF vars, LockInv
<1>. QED BY <1>1, <1>2, <1>3, <1>4, <1>5, <1>6, <1>7, <1>8, <1>9, <1>10 DEF Next

\* From the flush of the question to the commit of the answer the chat is as the
\* agent was told: the row lock of append_message keeps every other writer out,
\* however many turns, callbacks and replacements overlap.
THEOREM LoadedStaysCurrent == Spec => []LoadedIsCurrent
<1>1. LockInv => LoadedIsCurrent
    BY DEF LockInv, LoadedIsCurrent
<1>. QED BY <1>1, LockInit, LockStep, PTL DEF Spec

-----------------------------------------------------------------------------
(* A confirmation that names its proposal *)

\* The proposal a turn confirms is the one it named, and nothing was carried out for
\* a turn that has yet to name one.
NameInv ==
    /\ pc \in [Requests -> Places]
    /\ DOMAIN named = Turns /\ DOMAIN offer = Turns
    /\ \A t \in Turns : pc[t] = "confirming" /\ named[t] # None => offer[t] = named[t]
    /\ \A x \in execs : x.by \in Turns /\ pc[x.by] \notin {"idle", "sent", "open"}
    /\ ConfirmsWhatWasNamed

\* A step of a request that leaves the confirmations alone.
LEMMA NameFree ==
    ASSUME NameInv, NEW r \in Requests, NEW next \in Places \ {"confirming"},
           pc' = [pc EXCEPT ![r] = next],
           next \in {"idle", "sent", "open"} /\ r \in Turns =>
               pc[r] \in {"idle", "sent", "open"},
           UNCHANGED <<named, offer, execs>>
    PROVE  NameInv'
BY DEF NameInv, ConfirmsWhatWasNamed

LEMMA NameInit == Init => NameInv
BY DEF Init, NameInv, ConfirmsWhatWasNamed, Places, Ended

LEMMA NameStep == NameInv /\ [Next]_vars => NameInv'
<1>. SUFFICES ASSUME NameInv, [Next]_vars PROVE NameInv'
    OBVIOUS
<1>0. /\ \A t \in Turns : t \in Requests /\ t \notin Callbacks \union Puts
      /\ \A c \in Callbacks : c \in Requests
      /\ \A p \in Puts : p \in Requests
    BY ChatAssumption DEF Requests
<1>1. ASSUME NEW t \in Turns, Send(t)
      PROVE  NameInv'
    <2>1. /\ pc[t] = "idle" /\ pc' = [pc EXCEPT ![t] = "sent"]
          /\ UNCHANGED <<offer, execs>>
        BY <1>1 DEF Send, Arrives, crmVars
    <2>2. PICK given : named' = [named EXCEPT ![t] = given]
        BY <1>1 DEF Send
    <2>. QED BY <1>0, <2>1, <2>2 DEF NameInv, ConfirmsWhatWasNamed, Places
<1>2. ASSUME NEW t \in Turns, BeginTurn(t)
      PROVE  NameInv'
    BY <1>0, <1>2, NameFree DEF BeginTurn, Begins, Places, turnVars, crmVars
<1>3. ASSUME NEW t \in Turns, ReadPending(t)
      PROVE  NameInv'
    <2> DEFINE act == IF named[t] # None THEN named[t] ELSE LatestPending(rows)
    <2>1. /\ pc[t] = "open" /\ pc' = [pc EXCEPT ![t] = Way(t, act)]
          /\ offer' = [offer EXCEPT ![t] = act] /\ UNCHANGED <<named, execs>>
        BY <1>3 DEF ReadPending, crmVars
    <2>2. Way(t, act) \in {"asking", "confirming", "editing"}
        BY DEF Way
    <2>3. named[t] # None => act = named[t]
        OBVIOUS
    <2>. HIDE DEF act
    <2>. QED BY <1>0, <2>1, <2>2, <2>3 DEF NameInv, ConfirmsWhatWasNamed, Places
\* The call that is carried out is the one that was read, so the one named.
<1>4. ASSUME NEW t \in Turns, ExecutePending(t)
      PROVE  NameInv'
    <2>1. /\ pc[t] = "confirming" /\ pc' = [pc EXCEPT ![t] = "answered"]
          /\ UNCHANGED <<named, offer>>
        BY <1>4 DEF ExecutePending, Replies
    <2>2. \/ execs' = execs \union {[by |-> t, token |-> offer[t].token,
                                    args |-> offer[t].args]}
          \/ execs' = execs
        BY <1>4 DEF ExecutePending
    <2>. QED BY <1>0, <2>1, <2>2 DEF NameInv, ConfirmsWhatWasNamed, Places
<1>5. ASSUME NEW t \in Turns, EditPending(t) \/ RunAgent(t)
      PROVE  NameInv'
    <2>1. /\ \E next \in {"answered", "flushed"} : pc' = [pc EXCEPT ![t] = next]
          /\ UNCHANGED <<named, offer, execs>>
        BY <1>5 DEF EditPending, RunAgent, Replies, crmVars
    <2>. QED BY <1>0, <2>1, NameFree DEF Places
<1>6. ASSUME NEW c \in Callbacks, BeginCallback(c) \/ ReadEvent(c)
      PROVE  NameInv'
    <2>1. /\ \E next \in {"open", "deduplicated", "answered"} : pc' = [pc EXCEPT ![c] = next]
          /\ UNCHANGED <<named, offer, execs>>
        BY <1>6 DEF BeginCallback, ReadEvent, Begins, turnVars, crmVars
    <2>. QED BY <1>0, <2>1, NameFree DEF Places, Ended
<1>7. ASSUME NEW p \in Puts, BeginPut(p) \/ DeleteMessages(p)
      PROVE  NameInv'
    <2>1. /\ \E next \in {"open", "answered"} : pc' = [pc EXCEPT ![p] = next]
          /\ UNCHANGED <<named, offer, execs>>
        BY <1>7 DEF BeginPut, DeleteMessages, Begins, turnVars, crmVars
    <2>. QED BY <1>0, <2>1, NameFree DEF Places
<1>8. ASSUME NEW r \in Requests, Flush(r) \/ Commit(r) \/ Abort(r)
      PROVE  NameInv'
    <2>1. /\ \E next \in {"agent", "flushed", "committed", "aborted"} :
                pc' = [pc EXCEPT ![r] = next]
          /\ UNCHANGED <<named, offer, execs>>
        BY <1>8 DEF Flush, Commit, Abort, turnVars, crmVars
    <2>. QED BY <1>0, <2>1, NameFree DEF Places, Ended
<1>9. CASE UNCHANGED vars
    BY <1>9 DEF vars, turnVars, crmVars, NameInv, ConfirmsWhatWasNamed
<1>. QED BY <1>1, <1>2, <1>3, <1>4, <1>5, <1>6, <1>7, <1>8, <1>9 DEF Next

\* A confirmation that names its proposal has that one carried out or none, whatever
\* other turns do to the chat between the request and the call of the CRM.
THEOREM NamedIsConfirmed == Spec => []ConfirmsWhatWasNamed
<1>1. NameInv => ConfirmsWhatWasNamed
    BY DEF NameInv
<1>. QED BY <1>1, NameInit, NameStep, PTL DEF Spec

-----------------------------------------------------------------------------
(* The order of the messages *)

\* Every transaction has a time of its own.
Times ==
    /\ clock \in Nat
    /\ began \in [Requests -> Nat]
    /\ \A r \in Requests : began[r] <= clock
    /\ \A r, s \in Requests : began[r] = began[s] /\ began[r] # 0 => r = s
    /\ \A r \in Requests : pc[r] \notin {"idle", "sent", "aborted"} => began[r] # 0

\* Messages that were committed: a turn's are there both or not at all.
Kept(S) ==
    /\ \A m \in S :
          /\ m.by \in Requests /\ pc[m.by] = "committed" /\ m.ts = began[m.by]
          /\ m.tie \in 0..Len(Body) /\ m.act \in {None, answer[m.by].act}
          /\ m.by \in Turns => m \in Exchange(m.by) /\ Exchange(m.by) \subseteq S
    /\ \A m, n \in S : m.by = n.by /\ m.role = n.role /\ m.tie = n.tie => m = n

HistoryInv ==
    /\ pc \in [Requests -> Places]
    /\ DOMAIN answer = Requests /\ DOMAIN gone = Puts
    /\ Times
    /\ Kept(rows)
    /\ \A p \in Puts : Kept(gone[p])

\* What was committed stays as it was while other requests go on.
LEMMA KeptStays ==
    ASSUME \A q \in Requests : pc[q] = "committed" =>
               /\ pc'[q] = "committed" /\ began'[q] = began[q] /\ answer'[q] = answer[q],
           NEW S, Kept(S)
    PROVE  Kept(S)'
<1>1. \A t \in Turns : t \in Requests
    BY DEF Requests
<1>2. ASSUME NEW m \in S, m.by \in Turns
      PROVE  m \in Exchange(m.by)' /\ Exchange(m.by)' \subseteq S
    <2>1. began'[m.by] = began[m.by] /\ answer'[m.by] = answer[m.by]
        BY <1>1, <1>2 DEF Kept
    <2>2. Exchange(m.by)' = Exchange(m.by)
        BY <2>1 DEF Exchange, Row
    <2>. QED BY <1>2, <2>2 DEF Kept
<1>. QED BY <1>2 DEF Kept

\* A request that commits nothing moves on.
LEMMA HistoryFree ==
    ASSUME HistoryInv, NEW r \in Requests, NEW next \in Places \ {"committed"},
           pc' = [pc EXCEPT ![r] = next], pc[r] # "committed",
           next \notin {"idle", "sent", "aborted"} => pc[r] \notin {"idle", "sent", "aborted"},
           DOMAIN answer' = Requests,
           \A q \in Requests \ {r} : answer'[q] = answer[q],
           UNCHANGED <<clock, rows, began, gone>>
    PROVE  HistoryInv'
<1>1. \A q \in Requests : pc[q] = "committed" =>
          /\ pc'[q] = "committed" /\ began'[q] = began[q] /\ answer'[q] = answer[q]
    BY DEF HistoryInv
<1>2. pc' \in [Requests -> Places] /\ Times'
    BY DEF HistoryInv, Times
<1>3. \A S : Kept(S) => Kept(S)'
    BY <1>1, KeptStays
<1>4. ASSUME NEW S, S = rows
      PROVE  Kept(rows)'
    <2>1. S = rows' /\ Kept(S)'
        BY <1>3, <1>4 DEF HistoryInv
    <2>. QED BY <2>1
<1>5. ASSUME NEW p \in Puts, NEW S, S = gone[p]
      PROVE  Kept(gone[p])'
    <2>1. S = gone'[p] /\ Kept(S)'
        BY <1>3, <1>5 DEF HistoryInv
    <2>. QED BY <2>1
<1>. QED BY <1>2, <1>4, <1>5 DEF HistoryInv

LEMMA HistoryBegins ==
    ASSUME HistoryInv, NEW r \in Requests, Begins(r, "open"),
           pc[r] \in {"idle", "sent"}, DOMAIN answer' = Requests,
           \A q \in Requests \ {r} : answer'[q] = answer[q], UNCHANGED <<rows, gone>>
    PROVE  HistoryInv'
<1>1. \A q \in Requests : pc[q] = "committed" =>
          /\ pc'[q] = "committed" /\ began'[q] = began[q] /\ answer'[q] = answer[q]
    BY DEF HistoryInv, Begins, Times
<1>2. pc' \in [Requests -> Places]
    BY DEF HistoryInv, Begins, Places
<1>3. Times'
    <2>1. /\ clock \in Nat /\ clock' = clock + 1 /\ began' = [began EXCEPT ![r] = clock + 1]
          /\ began \in [Requests -> Nat] /\ \A q \in Requests : began[q] <= clock
          /\ pc' = [pc EXCEPT ![r] = "open"] /\ pc \in [Requests -> Places]
        BY DEF Begins, HistoryInv, Times
    <2>2. /\ began' \in [Requests -> Nat] /\ began'[r] = clock + 1
          /\ \A q \in Requests \ {r} : began'[q] = began[q]
        BY <2>1
    <2>3. \A q \in Requests : began'[q] <= clock'
        BY <2>1, <2>2
    <2>4. ASSUME NEW q \in Requests, NEW s \in Requests, began'[q] = began'[s], began'[q] # 0
          PROVE  q = s
        <3>1. began[q] \in Nat /\ began[s] \in Nat /\ began[q] <= clock /\ began[s] <= clock
            BY <2>1
        <3>. QED BY <2>1, <2>2, <2>4, <3>1 DEF HistoryInv, Times
    <2>5. \A q \in Requests : pc'[q] \notin {"idle", "sent", "aborted"} => began'[q] # 0
        BY <2>1, <2>2 DEF HistoryInv, Times
    <2>. QED BY <2>1, <2>2, <2>3, <2>4, <2>5 DEF Times
<1>4. \A S : Kept(S) => Kept(S)'
    BY <1>1, KeptStays
<1>5. ASSUME NEW S, S = rows
      PROVE  Kept(rows)'
    <2>1. S = rows' /\ Kept(S)'
        BY <1>4, <1>5 DEF HistoryInv
    <2>. QED BY <2>1
<1>6. ASSUME NEW p \in Puts, NEW S, S = gone[p]
      PROVE  Kept(gone[p])'
    <2>1. S = gone'[p] /\ Kept(S)'
        BY <1>4, <1>6 DEF HistoryInv
    <2>. QED BY <2>1
<1>. QED BY <1>2, <1>3, <1>5, <1>6 DEF HistoryInv

\* A replacement deletes what it finds.
LEMMA HistoryDeletes ==
    ASSUME HistoryInv, NEW p \in Puts, DeleteMessages(p)
    PROVE  HistoryInv'
<1>0. p \in Requests
    BY DEF Requests
<1>1. /\ pc[p] = "open" /\ pc' = [pc EXCEPT ![p] = "answered"]
      /\ gone' = [gone EXCEPT ![p] = rows] /\ UNCHANGED <<clock, rows, began, answer>>
    BY DEF DeleteMessages, turnVars
<1>2. \A q \in Requests : pc[q] = "committed" =>
          /\ pc'[q] = "committed" /\ began'[q] = began[q] /\ answer'[q] = answer[q]
    BY <1>0, <1>1 DEF HistoryInv
<1>3. pc' \in [Requests -> Places] /\ Times' /\ DOMAIN gone' = Puts
    BY <1>0, <1>1 DEF HistoryInv, Times, Places
<1>4. \A S : Kept(S) => Kept(S)'
    BY <1>2, KeptStays
<1>5. ASSUME NEW S, S = rows
      PROVE  Kept(rows)'
    <2>1. S = rows' /\ Kept(S)'
        BY <1>1, <1>4, <1>5 DEF HistoryInv
    <2>. QED BY <2>1
<1>6. ASSUME NEW q \in Puts, NEW S, S = gone'[q]
      PROVE  Kept(gone[q])'
    <2>1. S = rows \/ S = gone[q]
        BY <1>1, <1>6 DEF HistoryInv
    <2>2. Kept(S)'
        BY <1>4, <2>1 DEF HistoryInv
    <2>. QED BY <1>6, <2>2
<1>. QED BY <1>1, <1>3, <1>5, <1>6 DEF HistoryInv

\* What a request leaves of the messages, and what it adds.
Batch(r, old, new) ==
    /\ old \subseteq rows
    /\ \A t \in Turns, m \in old : m.by = t => Exchange(t) \subseteq old
    /\ \A m \in new : /\ m.by = r /\ m.ts = began[r] /\ m.tie \in 0..Len(Body)
                      /\ m.act \in {None, answer[r].act}
                      /\ r \in Turns => m \in Exchange(r) /\ Exchange(r) \subseteq new
    /\ \A m, n \in new : m.role = n.role /\ m.tie = n.tie => m = n

\* A request's messages are stored, all of them at once.
LEMMA HistoryCommits ==
    ASSUME HistoryInv, NEW r \in Requests, Commit(r)
    PROVE  HistoryInv'
<1>1. /\ pc[r] = "flushed" /\ pc' = [pc EXCEPT ![r] = "committed"]
      /\ UNCHANGED <<clock, began, answer, gone>>
    BY DEF Commit, turnVars
<1>2. \A q \in Requests : pc[q] = "committed" =>
          /\ pc'[q] = "committed" /\ began'[q] = began[q] /\ answer'[q] = answer[q]
    BY <1>1 DEF HistoryInv
<1>3. pc' \in [Requests -> Places] /\ Times' /\ pc'[r] = "committed"
    BY <1>1 DEF HistoryInv, Times, Places, Ended
<1>4. \A S : Kept(S) => Kept(S)'
    BY <1>2, KeptStays
<1>5. ASSUME NEW q \in Puts, NEW S, S = gone[q]
      PROVE  Kept(gone[q])'
    <2>1. S = gone'[q] /\ Kept(S)'
        BY <1>1, <1>4, <1>5 DEF HistoryInv
    <2>. QED BY <2>1
<1>6. \A m \in rows : m.by # r /\ m.by \in Requests
    BY <1>1 DEF HistoryInv, Kept
<1>7. Kept(rows)'
    <2>1. PICK old, new : rows' = old \union new /\ Batch(r, old, new)
        <3>1. CASE r \in Turns /\ rows' = rows \union Exchange(r)
            <4>1. \A m \in Exchange(r) :
                      /\ m.by = r /\ m.ts = began[r] /\ m.tie = 0
                      /\ m.act \in {None, answer[r].act}
                BY DEF Exchange, Row, Answer
            <4>2. \A m, n \in Exchange(r) : m.role = n.role => m = n
                BY DEF Exchange, Row
            <4>3. 0 \in 0..Len(Body)
                BY ChatAssumption, LenProperties
            <4>4. \A t \in Turns, m \in rows : m.by = t => Exchange(t) \subseteq rows
                BY DEF HistoryInv, Kept
            <4>5. Batch(r, rows, Exchange(r))
                BY <4>1, <4>2, <4>3, <4>4 DEF Batch
            <4>. QED BY <3>1, <4>5
        <3>2. CASE r \in Callbacks /\ rows' = rows \union Event(r)
            <4>1. \A m \in Event(r) : /\ m.by = r /\ m.ts = began[r] /\ m.tie = 0
                                      /\ m.act = answer[r].act
                BY DEF Event, Row
            <4>2. \A m, n \in Event(r) : m = n
                BY DEF Event
            <4>3. 0 \in 0..Len(Body) /\ r \notin Turns
                BY <3>2, ChatAssumption, LenProperties
            <4>4. \A t \in Turns, m \in rows : m.by = t => Exchange(t) \subseteq rows
                BY DEF HistoryInv, Kept
            <4>5. Batch(r, rows, Event(r))
                BY <4>1, <4>2, <4>3, <4>4 DEF Batch
            <4>. QED BY <3>2, <4>5
        <3>3. CASE r \in Puts /\ \E new \in Replacements(r) : rows' = (rows \ gone[r]) \union new
            <4>1. PICK new \in Replacements(r) : rows' = (rows \ gone[r]) \union new
                BY <3>3
            <4>2. PICK tie \in [1..Len(Body) -> 1..Len(Body)] :
                      /\ \A i, j \in 1..Len(Body) : tie[i] = tie[j] => i = j
                      /\ new = {Row(r, Body[i], tie[i], i,
                                    IF Body[i] = "assistant" THEN answer[r] ELSE NoAnswer) :
                                i \in 1..Len(Body)}
                BY <4>1 DEF Replacements
            <4>3. \A m \in new : /\ m.by = r /\ m.ts = began[r] /\ m.tie \in 0..Len(Body)
                                 /\ m.act \in {None, answer[r].act}
                <5>1. Len(Body) \in Nat
                    BY ChatAssumption, LenProperties
                <5>. QED BY <4>2, <5>1 DEF Row, NoAnswer, Answer
            <4>4. \A m, n \in new : m.tie = n.tie => m = n
                BY <4>2 DEF Row
            <4>5. r \notin Turns
                BY <3>3, ChatAssumption
            <4>6. ASSUME NEW t \in Turns, NEW m \in rows \ gone[r], m.by = t
                  PROVE  Exchange(t) \subseteq rows \ gone[r]
                <5>1. Exchange(t) \subseteq rows /\ m \in Exchange(t)
                    BY <4>6 DEF HistoryInv, Kept
                <5>2. ASSUME NEW n \in Exchange(t), n \in gone[r]
                      PROVE  FALSE
                    <6>1. n.by = t
                        BY <5>2 DEF Exchange, Row
                    <6>2. Exchange(t) \subseteq gone[r]
                        BY <3>3, <5>2, <6>1 DEF HistoryInv, Kept
                    <6>. QED BY <4>6, <5>1, <6>2
                <5>. QED BY <5>1, <5>2
            <4>7. Batch(r, rows \ gone[r], new)
                BY <4>3, <4>4, <4>5, <4>6 DEF Batch
            <4>. QED BY <4>1, <4>7
        <3>. QED BY <3>1, <3>2, <3>3 DEF Commit
    <2>2. \A q \in Requests : Exchange(q)' = Exchange(q)
        BY <1>1 DEF Exchange, Row
    <2>3. ASSUME NEW m \in rows'
          PROVE  /\ m.by \in Requests /\ pc'[m.by] = "committed" /\ m.ts = began'[m.by]
                 /\ m.tie \in 0..Len(Body) /\ m.act \in {None, answer'[m.by].act}
                 /\ m.by \in Turns => m \in Exchange(m.by)' /\ Exchange(m.by)' \subseteq rows'
        <3>1. CASE m \in old
            <4>1. m \in rows
                BY <2>1, <3>1 DEF Batch
            <4>2. /\ m.by \in Requests /\ pc[m.by] = "committed" /\ m.ts = began[m.by]
                  /\ m.tie \in 0..Len(Body) /\ m.act \in {None, answer[m.by].act}
                  /\ m.by \in Turns => m \in Exchange(m.by)
                BY <4>1 DEF HistoryInv, Kept
            <4>3. m.by \in Turns => Exchange(m.by) \subseteq old
                BY <2>1, <3>1 DEF Batch
            <4>. QED BY <1>1, <1>2, <2>1, <2>2, <4>2, <4>3
        <3>2. CASE m \in new
            BY <1>1, <1>3, <2>1, <2>2, <3>2 DEF Batch
        <3>. QED BY <2>1, <3>1, <3>2
    <2>4. ASSUME NEW m \in rows', NEW n \in rows',
                 m.by = n.by, m.role = n.role, m.tie = n.tie
          PROVE  m = n
        <3>1. CASE m \in old /\ n \in old
            BY <2>1, <2>4, <3>1 DEF HistoryInv, Kept, Batch
        <3>2. CASE m \in new /\ n \in new
            BY <2>1, <2>4, <3>2 DEF Batch
        <3>3. CASE (m \in old /\ n \in new) \/ (m \in new /\ n \in old)
            BY <1>6, <2>1, <2>4, <3>3 DEF Batch
        <3>. QED BY <2>1, <3>1, <3>2, <3>3
    <2>. QED BY <2>3, <2>4 DEF Kept
<1>. QED BY <1>1, <1>3, <1>5, <1>7 DEF HistoryInv

LEMMA HistoryInit == Init => HistoryInv
BY DEF Init, HistoryInv, Times, Kept, Places, Ended

LEMMA HistoryStep == HistoryInv /\ [Next]_vars => HistoryInv'
<1>. SUFFICES ASSUME HistoryInv, [Next]_vars PROVE HistoryInv'
    OBVIOUS
<1>0. /\ \A t \in Turns : t \in Requests
      /\ \A c \in Callbacks : c \in Requests
      /\ \A p \in Puts : p \in Requests
    BY DEF Requests
<1>1. ASSUME NEW t \in Turns, Send(t)
      PROVE  HistoryInv'
    BY <1>0, <1>1, HistoryFree DEF Send, Arrives, Places, HistoryInv
<1>2. ASSUME NEW t \in Turns, BeginTurn(t)
      PROVE  HistoryInv'
    BY <1>0, <1>2, HistoryBegins DEF BeginTurn, turnVars, HistoryInv
<1>3. ASSUME NEW t \in Turns, ReadPending(t)
      PROVE  HistoryInv'
    <2>1. \A act : Way(t, act) \in {"asking", "confirming", "editing"}
        BY DEF Way
    <2>2. PICK next \in {"asking", "confirming", "editing"} :
              /\ pc' = [pc EXCEPT ![t] = next] /\ pc[t] = "open"
              /\ UNCHANGED <<clock, rows, began, answer, gone>>
        BY <1>3, <2>1 DEF ReadPending
    <2>. QED BY <1>0, <2>2, HistoryFree DEF Places, Ended, HistoryInv
<1>4. ASSUME NEW t \in Turns, ExecutePending(t) \/ EditPending(t) \/ RunAgent(t)
      PROVE  HistoryInv'
    <2>1. PICK next \in {"answered", "flushed"} :
              /\ pc' = [pc EXCEPT ![t] = next] /\ pc[t] \in {"confirming", "editing", "agent"}
              /\ \E reply : answer' = [answer EXCEPT ![t] = reply]
              /\ UNCHANGED <<clock, rows, began, gone>>
        BY <1>4 DEF ExecutePending, EditPending, RunAgent, Replies
    <2>2. PICK reply : answer' = [answer EXCEPT ![t] = reply]
        BY <2>1
    <2>. QED BY <1>0, <2>1, <2>2, HistoryFree DEF Places, Ended, HistoryInv
<1>5. ASSUME NEW c \in Callbacks, BeginCallback(c)
      PROVE  HistoryInv'
    BY <1>0, <1>5, HistoryBegins DEF BeginCallback, Arrives, turnVars, HistoryInv
<1>6. ASSUME NEW c \in Callbacks, ReadEvent(c)
      PROVE  HistoryInv'
    <2>1. /\ \E next \in {"deduplicated", "answered"} : pc' = [pc EXCEPT ![c] = next]
          /\ pc[c] = "open" /\ \E reply : answer' \in {answer, [answer EXCEPT ![c] = reply]}
          /\ UNCHANGED <<clock, rows, began, gone>>
        BY <1>6 DEF ReadEvent
    <2>. QED BY <1>0, <2>1, HistoryFree DEF Places, Ended, HistoryInv
<1>7. ASSUME NEW p \in Puts, BeginPut(p)
      PROVE  HistoryInv'
    <2>1. PICK reply : answer' = [answer EXCEPT ![p] = reply]
        BY <1>7 DEF BeginPut
    <2>. QED BY <1>0, <1>7, <2>1, HistoryBegins DEF BeginPut, Arrives, HistoryInv
<1>8. ASSUME NEW p \in Puts, DeleteMessages(p)
      PROVE  HistoryInv'
    BY <1>8, HistoryDeletes
<1>9. ASSUME NEW r \in Requests, Flush(r) \/ Abort(r)
      PROVE  HistoryInv'
    <2>1. /\ \/ /\ pc[r] \in {"asking", "answered"}
                /\ \E next \in {"agent", "flushed"} : pc' = [pc EXCEPT ![r] = next]
             \/ pc[r] # "committed" /\ pc' = [pc EXCEPT ![r] = "aborted"]
          /\ \E reply : answer' \in {answer, [answer EXCEPT ![r] = reply]}
          /\ UNCHANGED <<clock, rows, began, gone>>
        BY <1>9 DEF Flush, Abort, UnderWay, Ended, turnVars
    <2>2. DOMAIN answer' = Requests /\ \A q \in Requests \ {r} : answer'[q] = answer[q]
        BY <2>1 DEF HistoryInv
    <2>. QED BY <2>1, <2>2, HistoryFree DEF Places, Ended, HistoryInv
<1>10. ASSUME NEW r \in Requests, Commit(r)
       PROVE  HistoryInv'
    BY <1>10, HistoryCommits
<1>11. CASE UNCHANGED vars
    <2>1. UNCHANGED <<pc, clock, rows, began, answer, gone>>
        BY <1>11 DEF vars, turnVars
    <2>2. \A S : Kept(S) => Kept(S)'
        BY <2>1, KeptStays
    <2>3. ASSUME NEW S, S = rows
          PROVE  Kept(rows)'
        <3>1. S = rows' /\ Kept(S)'
            BY <2>1, <2>2, <2>3 DEF HistoryInv
        <3>. QED BY <3>1
    <2>4. ASSUME NEW p \in Puts, NEW S, S = gone[p]
          PROVE  Kept(gone[p])'
        <3>1. S = gone'[p] /\ Kept(S)'
            BY <2>1, <2>2, <2>4 DEF HistoryInv
        <3>. QED BY <3>1
    <2>. QED BY <2>1, <2>3, <2>4 DEF HistoryInv, Times
<1>. QED BY <1>1, <1>2, <1>3, <1>4, <1>5, <1>6, <1>7, <1>8, <1>9, <1>10, <1>11 DEF Next

LEMMA HistorySafe == Spec => []HistoryInv
BY HistoryInit, HistoryStep, PTL DEF Spec

\* Nothing lies between a question and its answer: what has their time is of their
\* request.
LEMMA TogetherInOrder == HistoryInv => QuestionThenAnswer
<1>. SUFFICES ASSUME HistoryInv, NEW q \in rows, q.role = "user", q.by \in Turns
     PROVE  \E a \in rows : /\ a.role = "assistant" /\ a.by = q.by /\ Before(q, a)
                            /\ ~\E m \in rows : Before(q, m) /\ Before(m, a)
    BY DEF QuestionThenAnswer
<1> DEFINE t == q.by
           user == Row(t, "user", 0, 1, Answer(None, None))
           a == Row(t, "assistant", 0, 2, answer[t])
<1>1. t \in Requests /\ q \in Exchange(t) /\ Exchange(t) \subseteq rows
    BY DEF HistoryInv, Kept
<1>2. Exchange(t) = {user, a}
    BY DEF Exchange
<1>3. /\ user.role = "user" /\ user.tie = 0 /\ user.ts = began[t]
      /\ a.role = "assistant" /\ a.tie = 0 /\ a.ts = began[t] /\ a.by = t
    BY DEF Row
<1>. HIDE DEF user, a
<1>4. q = user /\ a \in rows /\ began[t] \in Nat
    BY <1>1, <1>2, <1>3 DEF HistoryInv, Times
<1>5. Before(q, a)
    BY <1>3, <1>4 DEF Before, RoleOrder
<1>6. ASSUME NEW m \in rows, Before(q, m), Before(m, a)
      PROVE  FALSE
    <2>1. m.by \in Requests /\ pc[m.by] = "committed" /\ m.ts = began[m.by]
        BY DEF HistoryInv, Kept
    <2>2. m.ts \in Nat /\ m.ts # 0
        BY <2>1 DEF HistoryInv, Times
    <2>3. m.ts = began[t]
        BY <1>3, <1>4, <1>6, <2>2 DEF Before
    <2>4. m.by = t
        BY <1>1, <2>1, <2>2, <2>3 DEF HistoryInv, Times
    <2>5. m \in {user, a}
        BY <1>2, <2>4 DEF HistoryInv, Kept
    <2>. QED BY <1>3, <1>4, <1>6, <2>5 DEF Before, RoleOrder
<1>. QED BY <1>3, <1>4, <1>5, <1>6

\* A question is followed at once by its answer, however turns, callbacks and
\* replacements of the history overlap, and whichever of them are rolled back.
THEOREM AnswersFollowQuestions == Spec => []QuestionThenAnswer
BY HistorySafe, TogetherInOrder, PTL

-----------------------------------------------------------------------------
(* Numbers *)

\* Induction over the naturals, for a set: were n not reached, counting on from 0
\* would map the elements of S up to n one to one to those but 0.
LEMMA NatSetInduction ==
    ASSUME NEW S, 0 \in S, \A n \in Nat : n \in S => n + 1 \in S
    PROVE  Nat \subseteq S
<1>. SUFFICES ASSUME NEW n \in Nat, n \notin S PROVE FALSE
    OBVIOUS
<1> DEFINE A == S \intersect (0..n)
           B == A \ {0}
           f == [i \in A |-> i + 1]
<1>1. IsFiniteSet(A)
    <2>1. IsFiniteSet(0..n)
        BY FS_Interval
    <2>. QED BY <2>1, FS_Subset
<1>2. IsFiniteSet(B) /\ Cardinality(B) < Cardinality(A)
    <2>1. 0 \in A
        OBVIOUS
    <2>2. IsFiniteSet(B) /\ Cardinality(B) = Cardinality(A) - 1
        BY <1>1, <2>1, FS_RemoveElement
    <2>. QED BY <1>1, <2>2, FS_CardinalityType
<1>3. f \in [A -> B]
    OBVIOUS
<1>4. \E x, y \in A : x # y /\ f[x] = f[y]
    <2>. HIDE DEF A, B, f
    <2>. QED BY <1>1, <1>2, <1>3, FS_PigeonHole
<1>. QED BY <1>4

\* A set of numbers up to n has a largest one.
LEMMA LargestExists ==
    ASSUME NEW n \in Nat, NEW S \in SUBSET (0..n), S # {}
    PROVE  \E m \in S : \A k \in S : k <= m
<1> DEFINE T == {i \in Nat : \A A \in SUBSET (0..i) :
                                A # {} => \E m \in A : \A k \in A : k <= m}
<1>1. 0 \in T
    <2>1. ASSUME NEW A \in SUBSET (0..0), A # {}
          PROVE  \E m \in A : \A k \in A : k <= m
        <3>1. \A x : x \in 0..0 <=> x = 0
            OBVIOUS
        <3>2. 0 \in A /\ \A k \in A : k = 0
            BY <2>1, <3>1
        <3>. QED BY <3>2
    <2>. QED BY <2>1
<1>2. ASSUME NEW i \in Nat, i \in T
      PROVE  i + 1 \in T
    <2>1. ASSUME NEW A \in SUBSET (0..(i + 1)), A # {}
          PROVE  \E m \in A : \A k \in A : k <= m
        <3>1. CASE i + 1 \in A
            BY <2>1, <3>1
        <3>2. CASE i + 1 \notin A
            <4>1. A \in SUBSET (0..i)
                BY <2>1, <3>2
            <4>. QED BY <1>2, <2>1, <4>1
        <3>. QED BY <3>1, <3>2
    <2>. QED BY <2>1
<1>. HIDE DEF T
<1>3. n \in T
    BY <1>1, <1>2, NatSetInduction
<1>. QED BY <1>3 DEF T

-----------------------------------------------------------------------------
(* The proposal that stands *)

\* Some answer is the newest one.
LEMMA NewestIsOne ==
    ASSUME HistoryInv, NEW S \in SUBSET rows, S # {}, \A m \in S : m.role = "assistant"
    PROVE  /\ Newest(S) \in S
           /\ \A n \in S \ {Newest(S)} : Before(n, Newest(S))
<1>1. \A m \in S : m.ts \in 0..clock /\ m.tie \in 0..Len(Body)
    BY DEF HistoryInv, Kept, Times
<1>2. clock \in Nat /\ Len(Body) \in Nat
    BY ChatAssumption, LenProperties DEF HistoryInv, Times
<1>3. PICK last \in S : \A m \in S : m.ts <= last.ts
    <2> DEFINE times == {m.ts : m \in S}
    <2>1. times \in SUBSET (0..clock) /\ times # {}
        BY <1>1
    <2>. HIDE DEF times
    <2>2. \E x \in times : \A y \in times : y <= x
        BY <1>2, <2>1, LargestExists
    <2>. QED BY <2>2 DEF times
<1> DEFINE late == {m \in S : m.ts = last.ts}
<1>4. PICK m \in late : \A n \in late : n.tie <= m.tie
    <2> DEFINE ties == {n.tie : n \in late}
    <2>1. ties \in SUBSET (0..Len(Body)) /\ ties # {}
        BY <1>1, <1>3
    <2>. HIDE DEF ties
    <2>2. \E x \in ties : \A y \in ties : y <= x
        BY <1>2, <2>1, LargestExists
    <2>. QED BY <2>2 DEF ties
<1>5. ASSUME NEW n \in S \ {m}
      PROVE  Before(n, m)
    <2>1. /\ n.ts \in Nat /\ m.ts \in Nat /\ n.tie \in Nat /\ m.tie \in Nat
          /\ n.role = m.role /\ n \in rows /\ m \in rows /\ m.ts = last.ts
        BY <1>1, <1>2, <1>4
    <2>2. CASE n.ts < m.ts
        BY <2>2 DEF Before
    <2>3. CASE ~(n.ts < m.ts)
        <3>1. n.ts = m.ts
            BY <1>3, <2>1, <2>3
        <3>2. n.by = m.by
            <4>1. /\ n.by \in Requests /\ m.by \in Requests
                  /\ began[n.by] = began[m.by] /\ began[m.by] # 0
                BY <2>1, <3>1 DEF HistoryInv, Kept, Times
            <4>. QED BY <4>1 DEF HistoryInv, Times
        <3>3. n.tie # m.tie
            BY <2>1, <3>2 DEF HistoryInv, Kept
        <3>4. n.tie <= m.tie
            BY <1>4, <2>1, <3>1
        <3>. QED BY <2>1, <3>1, <3>3, <3>4 DEF Before
    <2>. QED BY <2>2, <2>3
<1>6. m \in S /\ \A n \in S \ {m} : Before(n, m)
    BY <1>5
<1>. HIDE DEF late
<1>. QED BY <1>6 DEF Newest

\* A proposal that may be confirmed.
Sound(act) == act # None => act \in Act /\ Stood(act)

\* A turn's answer proposes what was previewed for it, a callback's nothing, and a
\* replacement brings what the client has.
ProposalInv ==
    /\ DOMAIN intent = Turns /\ DOMAIN named = Turns /\ DOMAIN offer = Turns
    /\ previews \subseteq [token : Turns, args : Turns]
    /\ \A t \in Turns : answer[t].act # None =>
          answer[t].act = [token |-> t, args |-> t] /\ answer[t].act \in previews
    /\ \A c \in Callbacks : answer[c].act = None
    /\ \A p \in Puts : answer[p].act \in Act \union {None}
    /\ \A t \in Turns :
          /\ Sound(named[t]) /\ Sound(offer[t])
          /\ pc[t] \in {"confirming", "editing"} => offer[t] # None
          /\ pc[t] = "confirming" => intent[t] = "confirm"
    /\ \A x \in execs : x.by \in Turns /\ pc[x.by] # "idle"
    /\ ExecutedAsOffered

LEMMA StandingIsSound ==
    ASSUME HistoryInv, ProposalInv
    PROVE  Sound(LatestPending(rows))
<1>1. ASSUME NEW m \in rows
      PROVE  Sound(m.act)
    <2>1. m.by \in Requests /\ pc[m.by] = "committed" /\ m.act \in {None, answer[m.by].act}
        BY DEF HistoryInv, Kept
    <2>2. CASE m.act = None
        BY <2>2 DEF Sound
    <2>3. CASE m.act # None
        <3> DEFINE r == m.by
        <3>1. /\ r \in Requests /\ pc[r] = "committed" /\ m.act = answer[r].act
              /\ answer[r].act # None
            BY <2>1, <2>3
        <3>. HIDE DEF r
        <3>2. CASE r \in Turns
            <4>1. m.act = [token |-> r, args |-> r] /\ m.act \in previews
                BY <3>1, <3>2 DEF ProposalInv
            <4>2. m.act \in Act /\ m.act.token = r
                BY <3>2, <4>1 DEF Act
            <4>. QED BY <3>1, <4>1, <4>2 DEF Sound, Stood
        <3>3. CASE r \in Puts
            <4>1. m.act \in Act /\ r \in Restored
                BY <3>1, <3>3 DEF ProposalInv, Restored
            <4>. QED BY <3>1, <4>1 DEF Sound, Stood
        <3>. QED BY <3>1, <3>2, <3>3 DEF ProposalInv, Requests
    <2>. QED BY <2>2, <2>3
<1>2. CASE Assistant(rows) = {}
    BY <1>2 DEF LatestPending, Sound
<1>3. CASE Assistant(rows) # {}
    <2>1. Newest(Assistant(rows)) \in rows
        BY <1>3, NewestIsOne DEF Assistant
    <2>2. LatestPending(rows) = Newest(Assistant(rows)).act
        BY <1>3 DEF LatestPending
    <2>. QED BY <1>1, <2>1, <2>2
<1>. QED BY <1>2, <1>3

\* What is committed stays committed, and what was previewed stays so.
Lasting ==
    /\ \A q \in Requests : pc[q] = "committed" =>
           pc'[q] = "committed" /\ answer'[q] = answer[q]
    /\ previews \subseteq previews'

LEMMA StoodStays ==
    ASSUME ProposalInv, Lasting
    PROVE  \A act : Stood(act) => Stood(act)'
<1>. SUFFICES ASSUME NEW act, Stood(act) PROVE Stood(act)'
    OBVIOUS
<1>1. CASE act \in previews /\ pc[act.token] = "committed"
    <2>1. act.token \in Turns
        BY <1>1 DEF ProposalInv
    <2>2. act \in previews' /\ pc'[act.token] = "committed"
        BY <1>1, <2>1 DEF Lasting, Requests
    <2>. QED BY <2>2 DEF Stood
<1>2. CASE \E p \in Restored : answer[p].act = act
    <2>1. PICK p \in Puts : pc[p] = "committed" /\ answer[p].act = act
        BY <1>2 DEF Restored
    <2>2. pc'[p] = "committed" /\ answer'[p].act = act
        BY <2>1 DEF Lasting, Requests
    <2>. QED BY <2>2 DEF Stood, Restored
<1>. QED BY <1>1, <1>2 DEF Stood

LEMMA SoundStays ==
    ASSUME ProposalInv, Lasting
    PROVE  \A act : Sound(act) => Sound(act)'
BY StoodStays DEF Sound

LEMMA OffersStaySound ==
    ASSUME ProposalInv, Lasting, UNCHANGED <<named, offer>>
    PROVE  \A u \in Turns : Sound(named[u])' /\ Sound(offer[u])'
<1>. SUFFICES ASSUME NEW u \in Turns PROVE Sound(named[u])' /\ Sound(offer[u])'
    OBVIOUS
<1>1. PICK n, o : n = named'[u] /\ o = offer'[u]
    OBVIOUS
<1>2. Sound(n)' /\ Sound(o)'
    BY <1>1, SoundStays DEF ProposalInv
<1>. QED BY <1>1, <1>2

LEMMA ExecutedStay ==
    ASSUME ProposalInv, Lasting, execs' = execs,
           \A x \in execs : intent'[x.by] = intent[x.by]
    PROVE  ExecutedAsOffered'
<1>1. ASSUME NEW x \in execs
      PROVE  intent'[x.by] = "confirm" /\ Stood([token |-> x.token, args |-> x.args])'
    <2>1. intent[x.by] = "confirm" /\ Stood([token |-> x.token, args |-> x.args])
        BY DEF ProposalInv, ExecutedAsOffered
    <2>. QED BY <2>1, StoodStays
<1>. QED BY <1>1 DEF ExecutedAsOffered

\* A request that previews and confirms nothing.
LEMMA ProposalFree ==
    ASSUME HistoryInv, ProposalInv, NEW r \in Requests,
           NEW next \in Places \ {"confirming", "editing", "idle"},
           pc' = [pc EXCEPT ![r] = next], pc[r] # "committed",
           \/ answer' = answer
           \/ \E reply : /\ answer' = [answer EXCEPT ![r] = reply]
                         /\ reply.act = None \/ (r \in Puts /\ reply.act \in Act),
           UNCHANGED <<intent, named, offer, previews, execs>>
    PROVE  ProposalInv'
<1>1. /\ pc'[r] = next /\ \A q \in Requests \ {r} : pc'[q] = pc[q]
      /\ \A q \in Requests :
            answer'[q] = answer[q] \/ (q = r /\ (answer'[q].act = None
                                           \/ (q \in Puts /\ answer'[q].act \in Act)))
    BY DEF HistoryInv
<1>2. /\ \A t \in Turns : t \in Requests /\ t \notin Puts
      /\ \A c \in Callbacks : c \in Requests /\ c \notin Puts
      /\ \A p \in Puts : p \in Requests
    BY ChatAssumption DEF Requests
<1>3. Lasting
    BY <1>1 DEF Lasting
<1>4. \A t \in Turns : Sound(named[t])' /\ Sound(offer[t])'
    BY <1>3, OffersStaySound
<1>5. ExecutedAsOffered'
    BY <1>3, ExecutedStay
<1>6. /\ \A t \in Turns : answer'[t].act # None =>
            answer'[t].act = [token |-> t, args |-> t] /\ answer'[t].act \in previews'
      /\ \A c \in Callbacks : answer'[c].act = None
      /\ \A p \in Puts : answer'[p].act \in Act \union {None}
    BY <1>1, <1>2 DEF ProposalInv
<1>. QED BY <1>1, <1>2, <1>4, <1>5, <1>6 DEF ProposalInv

\* A turn's answer proposes what was just previewed for it.
LEMMA ProposalPreviewed ==
    ASSUME HistoryInv, ProposalInv, NEW t \in Turns, NEW next \in {"answered", "flushed"},
           Replies(t, pc[t], next, Answer([token |-> t, args |-> t], None)),
           pc[t] \in {"editing", "agent"},
           previews' = previews \union {[token |-> t, args |-> t]}, execs' = execs
    PROVE  ProposalInv'
<1>1. /\ \A u \in Turns : u \in Requests /\ u \notin Callbacks /\ u \notin Puts
      /\ \A c \in Callbacks : c \in Requests
      /\ \A p \in Puts : p \in Requests
    BY ChatAssumption DEF Requests
<1>2. /\ pc'[t] = next /\ \A q \in Requests \ {t} : pc'[q] = pc[q]
      /\ answer'[t].act = [token |-> t, args |-> t]
      /\ \A q \in Requests \ {t} : answer'[q] = answer[q]
      /\ UNCHANGED <<intent, named, offer>>
    BY <1>1 DEF Replies, Answer, HistoryInv
<1>3. Lasting
    BY <1>1, <1>2 DEF Lasting
<1>4. \A u \in Turns : Sound(named[u])' /\ Sound(offer[u])'
    BY <1>2, <1>3, OffersStaySound
<1>5. ExecutedAsOffered'
    BY <1>2, <1>3, ExecutedStay
<1>6. previews' \subseteq [token : Turns, args : Turns]
    BY DEF ProposalInv
<1>. QED BY <1>1, <1>2, <1>4, <1>5, <1>6 DEF ProposalInv

LEMMA AnswerParts == \A act, note : Answer(act, note).act = act
BY DEF Answer

LEMMA Ways ==
    ASSUME NEW t, NEW act
    PROVE  /\ Way(t, act) \in {"asking", "confirming", "editing"}
           /\ Way(t, act) # "asking" => act # None
           /\ Way(t, act) = "confirming" => intent[t] = "confirm"
BY DEF Way

LEMMA ProposalSent ==
    ASSUME HistoryInv, ProposalInv, NEW t \in Turns, Send(t)
    PROVE  ProposalInv'
<1>1. /\ \A u \in Turns : u \in Requests
      /\ pc[t] = "idle" /\ pc' = [pc EXCEPT ![t] = "sent"]
      /\ UNCHANGED <<offer, answer, previews, execs>>
    BY DEF Requests, Send, Arrives, crmVars
<1>2. PICK given \in {None, LatestPending(rows)} : named' = [named EXCEPT ![t] = given]
    BY DEF Send
<1>3. PICK wish : intent' = [intent EXCEPT ![t] = wish]
    BY DEF Send
<1>4. Sound(given)
    BY <1>2, StandingIsSound DEF Sound
<1>5. /\ pc'[t] = "sent" /\ \A q \in Requests \ {t} : pc'[q] = pc[q]
      /\ Lasting
    BY <1>1 DEF HistoryInv, Lasting
<1>6. \A act : Sound(act) => Sound(act)'
    BY <1>5, SoundStays
<1>7. ASSUME NEW u \in Turns
      PROVE  Sound(named[u])' /\ Sound(offer[u])'
    <2>1. PICK n, o : n = named'[u] /\ o = offer'[u]
        OBVIOUS
    <2>2. Sound(n) /\ Sound(o)
        BY <1>1, <1>2, <1>4, <2>1 DEF ProposalInv
    <2>3. Sound(n)' /\ Sound(o)'
        BY <1>6, <2>2
    <2>. QED BY <2>1, <2>3
<1>8. ASSUME NEW x \in execs
      PROVE  x.by \in Turns /\ x.by # t
    BY <1>1 DEF ProposalInv
<1>9. ExecutedAsOffered'
    <2>1. \A x \in execs : intent'[x.by] = intent[x.by]
        BY <1>3, <1>8 DEF ProposalInv
    <2>. QED BY <1>1, <1>5, <2>1, ExecutedStay
<1>10. /\ DOMAIN intent' = Turns /\ DOMAIN named' = Turns
       /\ \A u \in Turns \ {t} : intent'[u] = intent[u]
    BY <1>2, <1>3 DEF ProposalInv
<1>. QED BY <1>1, <1>5, <1>7, <1>8, <1>9, <1>10 DEF ProposalInv

LEMMA ProposalRead ==
    ASSUME HistoryInv, ProposalInv, NEW t \in Turns, ReadPending(t)
    PROVE  ProposalInv'
<1> DEFINE act == IF named[t] # None THEN named[t] ELSE LatestPending(rows)
<1>1. /\ \A u \in Turns : u \in Requests
      /\ pc[t] = "open" /\ pc' = [pc EXCEPT ![t] = Way(t, act)]
      /\ offer' = [offer EXCEPT ![t] = act]
      /\ UNCHANGED <<named, intent, answer, previews, execs>>
    BY DEF Requests, ReadPending, crmVars
<1>2. Sound(act)
    BY StandingIsSound DEF ProposalInv
<1>3. PICK way, what : way = Way(t, act) /\ what = act
    OBVIOUS
<1>4. /\ way \in {"asking", "confirming", "editing"}
      /\ way # "asking" => what # None
      /\ way = "confirming" => intent[t] = "confirm"
    BY <1>3, Ways
<1>5. /\ pc' = [pc EXCEPT ![t] = way] /\ offer' = [offer EXCEPT ![t] = what]
      /\ Sound(what)
    BY <1>1, <1>2, <1>3
<1>. HIDE DEF act
<1>6. /\ pc'[t] = way /\ \A q \in Requests \ {t} : pc'[q] = pc[q]
      /\ Lasting
    BY <1>1, <1>5 DEF HistoryInv, Lasting
<1>7. \A a : Sound(a) => Sound(a)'
    BY <1>6, SoundStays
<1>8. ASSUME NEW u \in Turns
      PROVE  Sound(named[u])' /\ Sound(offer[u])'
    <2>1. PICK n, o : n = named'[u] /\ o = offer'[u]
        OBVIOUS
    <2>2. Sound(n) /\ Sound(o)
        BY <1>1, <1>5, <2>1 DEF ProposalInv
    <2>3. Sound(n)' /\ Sound(o)'
        BY <1>7, <2>2
    <2>. QED BY <2>1, <2>3
<1>9. ExecutedAsOffered'
    BY <1>1, <1>6, ExecutedStay
<1>10. /\ DOMAIN offer' = Turns /\ offer'[t] = what
       /\ \A u \in Turns \ {t} : offer'[u] = offer[u]
    BY <1>5 DEF ProposalInv
<1>11. /\ \A u \in Turns : /\ pc'[u] \in {"confirming", "editing"} => offer'[u] # None
                           /\ pc'[u] = "confirming" => intent'[u] = "confirm"
       /\ \A x \in execs' : x.by \in Turns /\ pc'[x.by] # "idle"
    BY <1>1, <1>4, <1>6, <1>10 DEF ProposalInv
<1>. QED BY <1>1, <1>8, <1>9, <1>10, <1>11 DEF ProposalInv

\* What the CRM carries out is a sound proposal, for a turn whose user confirms it.
LEMMA ProposalExecuted ==
    ASSUME HistoryInv, ProposalInv, NEW t \in Turns, ExecutePending(t)
    PROVE  ProposalInv'
<1>1. /\ \A u \in Turns : u \in Requests /\ u \notin Callbacks /\ u \notin Puts
      /\ \A c \in Callbacks : c \in Requests
      /\ \A p \in Puts : p \in Requests
      /\ pc[t] = "confirming" /\ pc' = [pc EXCEPT ![t] = "answered"]
      /\ answer' = [answer EXCEPT ![t] = Answer(None, None)]
      /\ UNCHANGED <<named, offer, intent, previews>>
    BY ChatAssumption DEF Requests, ExecutePending, Replies
<1>2. PICK call \in [by : {t}, token : {offer[t].token}, args : {offer[t].args}] :
          execs' \subseteq execs \union {call}
    <2> DEFINE call == [by |-> t, token |-> offer[t].token, args |-> offer[t].args]
    <2>1. execs' = execs \union {call} \/ execs' = execs
        BY DEF ExecutePending
    <2>2. call \in [by : {t}, token : {offer[t].token}, args : {offer[t].args}]
        OBVIOUS
    <2>. QED BY <2>1, <2>2
<1>3. offer[t] \in Act /\ Stood(offer[t]) /\ intent[t] = "confirm"
    BY <1>1 DEF ProposalInv, Sound
<1>4. /\ pc'[t] = "answered" /\ \A q \in Requests \ {t} : pc'[q] = pc[q]
      /\ answer'[t].act = None /\ \A q \in Requests \ {t} : answer'[q] = answer[q]
      /\ Lasting
    BY <1>1 DEF HistoryInv, Answer, Lasting
<1>5. \A u \in Turns : Sound(named[u])' /\ Sound(offer[u])'
    BY <1>1, <1>4, OffersStaySound
<1>6. [token |-> call.token, args |-> call.args] = offer[t]
    BY <1>2, <1>3 DEF Act
<1>7. ExecutedAsOffered'
    <2>1. ASSUME NEW x \in execs
          PROVE  /\ intent'[x.by] = "confirm"
                 /\ Stood([token |-> x.token, args |-> x.args])'
        <3>1. intent[x.by] = "confirm" /\ Stood([token |-> x.token, args |-> x.args])
            BY DEF ProposalInv, ExecutedAsOffered
        <3>. QED BY <1>1, <1>4, <3>1, StoodStays
    <2>2. PICK act : act = [token |-> call.token, args |-> call.args]
        OBVIOUS
    <2>3. Stood(act)'
        BY <1>3, <1>4, <1>6, <2>2, StoodStays
    <2>4. intent'[call.by] = "confirm" /\ Stood([token |-> call.token, args |-> call.args])'
        BY <1>1, <1>2, <1>3, <2>2, <2>3
    <2>. QED BY <1>2, <2>1, <2>4 DEF ExecutedAsOffered
<1>8. \A x \in execs' : x.by \in Turns /\ pc'[x.by] # "idle"
    BY <1>1, <1>2, <1>4 DEF ProposalInv
<1>. QED BY <1>1, <1>4, <1>5, <1>7, <1>8 DEF ProposalInv

LEMMA ProposalInit == Init => ProposalInv
<1>. SUFFICES ASSUME Init PROVE ProposalInv
    OBVIOUS
<1>1. /\ DOMAIN intent = Turns /\ DOMAIN named = Turns /\ DOMAIN offer = Turns
      /\ previews = {} /\ execs = {}
    BY DEF Init
<1>2. \A r \in Requests : answer[r].act = None
    BY AnswerParts DEF Init, NoAnswer
<1>3. \A t \in Turns : named[t] = None /\ offer[t] = None /\ pc[t] = "idle"
    BY DEF Init, Requests
<1>. QED BY <1>1, <1>2, <1>3 DEF ProposalInv, Sound, ExecutedAsOffered, Requests

LEMMA ProposalStep == HistoryInv /\ ProposalInv /\ [Next]_vars => ProposalInv'
<1>. SUFFICES ASSUME HistoryInv, ProposalInv, [Next]_vars PROVE ProposalInv'
    OBVIOUS
<1>0. /\ \A t \in Turns : t \in Requests
      /\ \A c \in Callbacks : c \in Requests
      /\ \A p \in Puts : p \in Requests
    BY DEF Requests
<1>1. ASSUME NEW t \in Turns, Send(t) \/ ReadPending(t) \/ ExecutePending(t)
      PROVE  ProposalInv'
    BY <1>1, ProposalSent, ProposalRead, ProposalExecuted
<1>2. ASSUME NEW t \in Turns, BeginTurn(t)
      PROVE  ProposalInv'
    BY <1>0, <1>2, ProposalFree DEF BeginTurn, Begins, Places, turnVars, crmVars
<1>3. ASSUME NEW t \in Turns, EditPending(t)
      PROVE  ProposalInv'
    <2> DEFINE edited == [offer[t] EXCEPT !.token = t, !.args = t]
    <2>1. pc[t] = "editing" /\ offer[t] \in Act
        BY <1>3 DEF EditPending, Replies, ProposalInv, Sound
    <2>2. edited = [token |-> t, args |-> t]
        <3>1. edited \in Act /\ edited.token = t /\ edited.args = t
            BY <2>1 DEF Act
        <3>2. \A x \in Act : x = [token |-> x.token, args |-> x.args]
            BY DEF Act
        <3>. HIDE DEF edited
        <3>. QED BY <3>1, <3>2
    <2>3. CASE /\ Replies(t, "editing", "answered", Answer(edited, None))
               /\ previews' = previews \union {[token |-> t, args |-> t]}
               /\ UNCHANGED execs
        BY <2>1, <2>2, <2>3, ProposalPreviewed
    <2>4. CASE Replies(t, "editing", "answered", Answer(None, None)) /\ UNCHANGED crmVars
        <3>1. PICK reply : reply.act = None /\ answer' = [answer EXCEPT ![t] = reply]
            BY <2>4, AnswerParts DEF Replies
        <3>. QED BY <1>0, <2>1, <2>4, <3>1, ProposalFree DEF Replies, Places, crmVars
    <2>. QED BY <1>3, <2>3, <2>4 DEF EditPending
<1>4. ASSUME NEW t \in Turns, RunAgent(t)
      PROVE  ProposalInv'
    <2>1. CASE /\ Replies(t, "agent", "flushed", Answer([token |-> t, args |-> t], None))
               /\ previews' = previews \union {[token |-> t, args |-> t]}
               /\ UNCHANGED execs
        <3>1. pc[t] = "agent"
            BY <2>1 DEF Replies
        <3>. QED BY <2>1, <3>1, ProposalPreviewed
    <2>2. CASE /\ \E note \in {None, "agent_error"} :
                      Replies(t, "agent", "flushed", Answer(None, note))
               /\ UNCHANGED crmVars
        <3>1. PICK reply : reply.act = None /\ answer' = [answer EXCEPT ![t] = reply]
            BY <2>2, AnswerParts DEF Replies
        <3>. QED BY <1>0, <2>2, <3>1, ProposalFree DEF Replies, Places, crmVars
    <2>. QED BY <1>4, <2>1, <2>2 DEF RunAgent
<1>5. ASSUME NEW c \in Callbacks, BeginCallback(c) \/ ReadEvent(c)
      PROVE  ProposalInv'
    <2>1. /\ \E next \in {"open", "deduplicated", "answered"} : pc' = [pc EXCEPT ![c] = next]
          /\ pc[c] \in {"idle", "open"}
          /\ \/ answer' = answer
             \/ \E reply : answer' = [answer EXCEPT ![c] = reply] /\ reply.act = None
          /\ UNCHANGED <<intent, named, offer, previews, execs>>
        <3>1. CASE BeginCallback(c)
            BY <3>1 DEF BeginCallback, Begins, Arrives, turnVars, crmVars
        <3>2. CASE ReadEvent(c)
            BY <3>2, AnswerParts DEF ReadEvent, crmVars
        <3>. QED BY <1>5, <3>1, <3>2
    <2>. QED BY <1>0, <2>1, ProposalFree DEF Places, Ended
<1>6. ASSUME NEW p \in Puts, BeginPut(p) \/ DeleteMessages(p)
      PROVE  ProposalInv'
    <2>1. CASE BeginPut(p)
        <3>1. PICK act \in Brought : \E note : answer' = [answer EXCEPT ![p] = Answer(act, note)]
            BY <2>1 DEF BeginPut
        <3>2. act \in Act \union {None}
            <4>1. ASSUME NEW t \in Turns, answer[t].act # None
                  PROVE  answer[t].act \in Act
                BY <4>1 DEF ProposalInv, Act
            <4>2. ASSUME NEW e \in Elsewhere
                  PROVE  [token |-> e, args |-> e] \in Act
                BY DEF Act
            <4>. QED BY <4>1, <4>2 DEF Brought
        <3>3. PICK note : answer' = [answer EXCEPT ![p] = Answer(act, note)]
            BY <3>1
        <3>4. PICK reply : reply = Answer(act, note)
            OBVIOUS
        <3>5. answer' = [answer EXCEPT ![p] = reply] /\ reply.act = act
            BY <3>3, <3>4, AnswerParts
        <3>6. /\ pc[p] = "idle" /\ pc' = [pc EXCEPT ![p] = "open"]
              /\ UNCHANGED <<intent, named, offer, previews, execs>>
            BY <2>1 DEF BeginPut, Begins, Arrives, crmVars
        <3>. QED BY <1>0, <3>2, <3>5, <3>6, ProposalFree DEF Places
    <2>2. CASE DeleteMessages(p)
        BY <1>0, <2>2, ProposalFree DEF DeleteMessages, Places, turnVars, crmVars
    <2>. QED BY <1>6, <2>1, <2>2
<1>7. ASSUME NEW r \in Requests, Flush(r) \/ Commit(r) \/ Abort(r)
      PROVE  ProposalInv'
    <2>1. /\ \E next \in {"agent", "flushed", "committed", "aborted"} :
                pc' = [pc EXCEPT ![r] = next]
          /\ pc[r] # "committed"
          /\ answer' = answer \/ answer' = [answer EXCEPT ![r] = NoAnswer]
          /\ UNCHANGED <<intent, named, offer, previews, execs>>
        BY <1>7 DEF Flush, Commit, Abort, UnderWay, Ended, turnVars, crmVars
    <2>2. NoAnswer.act = None
        BY AnswerParts DEF NoAnswer
    <2>. QED BY <2>1, <2>2, ProposalFree DEF Places, Ended
<1>8. CASE UNCHANGED vars
    BY <1>8 DEF vars, turnVars, crmVars, ProposalInv, ExecutedAsOffered, Sound, Stood, Restored
<1>. QED BY <1>1, <1>2, <1>3, <1>4, <1>5, <1>6, <1>7, <1>8 DEF Next

\* The CRM is asked to carry out only what a user confirmed, and what a committed
\* answer of the chat proposed with the very arguments it previewed, or a history
\* stored over the chat's brought along.
THEOREM OffersExecuted == Spec => []ExecutedAsOffered
<1>1. HistoryInv /\ ProposalInv => ExecutedAsOffered
    BY DEF ProposalInv
<1>. QED BY <1>1, HistoryInit, HistoryStep, ProposalInit, ProposalStep, PTL DEF Spec

-----------------------------------------------------------------------------
(* Requests that come one after the other keep PendingSlot's promise *)

Slot == INSTANCE PendingSlot WITH
    Proposals <- Turns, Foreign <- Elsewhere, Histories <- Puts,
    slot <- Shown, offered <- Proposed, restored <- Restored, executed <- CarriedOut

\* The request under way, if there is one, finds the messages as it left them, and
\* what it adds comes last.
AloneInv ==
    /\ \A r, s \in Requests : UnderWay(r) /\ UnderWay(s) => r = s
    /\ \A r \in Requests : UnderWay(r) /\ pc[r] # "sent" => \A m \in rows : m.ts < began[r]
    /\ \A t \in Turns :
          /\ pc[t] \in {"sent", "open"} => named[t] \in {None, LatestPending(rows)}
          /\ pc[t] = "confirming" => offer[t] = LatestPending(rows)
    /\ \A p \in Puts : pc[p] \in {"answered", "flushed"} => gone[p] = rows

\* With one request at a time, none is under way when another arrives.
LEMMA NobodyUnderWay ==
    ASSUME MaxOpen = 1, IsFiniteSet(Requests), NEW r \in Requests, Arrives(r)
    PROVE  \A q \in Requests : ~UnderWay(q)
<1> DEFINE open == {q \in Requests : UnderWay(q)}
<1>1. IsFiniteSet(open) /\ Cardinality(open) < 1
    <2>1. open \subseteq Requests
        OBVIOUS
    <2>. QED BY <2>1, FS_Subset DEF Arrives
<1>2. open = {}
    <2>. HIDE DEF open
    <2>. QED BY <1>1, FS_CardinalityType, FS_EmptySet
<1>. QED BY <1>2

\* Someone moves on and changes no message.
LEMMA AloneFree ==
    ASSUME HistoryInv, AloneInv, NEW r \in Requests, NEW next \in Places, UnderWay(r),
           pc' = [pc EXCEPT ![r] = next], next # "idle",
           next = "sent" => pc[r] = "sent",
           next \in Ended \/ (pc[r] # "sent" /\ began' = began),
           r \in Turns => /\ next \notin {"sent", "open"}
                          /\ next = "confirming" => offer'[r] = LatestPending(rows),
           r \in Puts /\ next \in {"answered", "flushed"} => gone'[r] = rows,
           UNCHANGED <<rows, began, named>>,
           \A t \in Turns \ {r} : offer'[t] = offer[t],
           \A p \in Puts \ {r} : gone'[p] = gone[p]
    PROVE  AloneInv'
<1>1. /\ pc'[r] = next /\ \A q \in Requests \ {r} : pc'[q] = pc[q]
      /\ \A q \in Requests : UnderWay(q)' => UnderWay(q)
    BY DEF HistoryInv, UnderWay
<1>2. \A q \in Requests \ {r} : ~UnderWay(q)
    BY DEF AloneInv
<1>3. \A q \in Requests \ {r} : pc'[q] \in Ended \union {"idle"}
    BY <1>1, <1>2 DEF UnderWay
<1>4. LatestPending(rows') = LatestPending(rows)
    OBVIOUS
<1>5. \A t \in Turns : t \in Requests
    BY DEF Requests
<1>6. \A p \in Puts : p \in Requests
    BY DEF Requests
<1>7. \A q, s \in Requests : UnderWay(q)' /\ UnderWay(s)' => q = s
    BY <1>1 DEF AloneInv
<1>8. \A q \in Requests : UnderWay(q)' /\ pc'[q] # "sent" => \A m \in rows' : m.ts < began'[q]
    BY <1>1, <1>2 DEF AloneInv, UnderWay
<1>9. ASSUME NEW t \in Turns
      PROVE  /\ pc'[t] \in {"sent", "open"} => named'[t] \in {None, LatestPending(rows')}
             /\ pc'[t] = "confirming" => offer'[t] = LatestPending(rows')
    BY <1>1, <1>3, <1>4, <1>5 DEF Ended
<1>10. \A p \in Puts : pc'[p] \in {"answered", "flushed"} => gone'[p] = rows'
    BY <1>1, <1>3, <1>6 DEF Ended
<1>. QED BY <1>7, <1>8, <1>9, <1>10 DEF AloneInv

\* A request arrives where none is under way.
LEMMA AloneArrives ==
    ASSUME HistoryInv, AloneInv, MaxOpen = 1, IsFiniteSet(Requests),
           NEW r \in Requests, Arrives(r),
           \/ Begins(r, "open") /\ r \notin Turns
           \/ /\ pc' = [pc EXCEPT ![r] = "sent"] /\ began' = began
              /\ r \in Turns => named'[r] \in {None, LatestPending(rows)},
           UNCHANGED rows
    PROVE  AloneInv'
<1>1. \A q \in Requests : pc[q] \in Ended \union {"idle"}
    BY NobodyUnderWay DEF UnderWay
<1>2. /\ pc'[r] \in {"open", "sent"}
      /\ pc'[r] = "open" => r \notin Turns
      /\ \A q \in Requests \ {r} : pc'[q] = pc[q]
    BY DEF HistoryInv, Begins
<1>3. \A q \in Requests \ {r} : ~UnderWay(q)'
    BY <1>1, <1>2 DEF UnderWay
<1>4. ASSUME pc'[r] = "open", NEW m \in rows
      PROVE  m.ts < began'[r]
    <2>1. Begins(r, "open")
        BY <1>4 DEF HistoryInv
    <2>2. /\ m.by \in Requests /\ m.ts = began[m.by] /\ m.ts \in Nat /\ m.ts <= clock
          /\ clock \in Nat
        BY DEF HistoryInv, Kept, Times
    <2>3. began'[r] = clock + 1
        BY <2>1 DEF Begins, HistoryInv, Times
    <2>. QED BY <2>2, <2>3
<1>5. /\ \A t \in Turns : t \in Requests
      /\ \A p \in Puts : p \in Requests
    BY DEF Requests
<1>6. \A t \in Turns : /\ pc'[t] \in {"sent", "open"} =>
                              named'[t] \in {None, LatestPending(rows')}
                       /\ pc'[t] # "confirming"
    BY <1>1, <1>2, <1>5 DEF Ended, Begins, HistoryInv
<1>7. ASSUME NEW p \in Puts
      PROVE  pc'[p] \notin {"answered", "flushed"}
    <2>1. CASE p = r
        BY <1>2, <2>1
    <2>2. CASE p # r
        BY <1>1, <1>2, <1>5, <2>2 DEF Ended
    <2>. QED BY <2>1, <2>2
<1>8. ASSUME NEW q \in Requests, UnderWay(q)', pc'[q] # "sent", NEW m \in rows'
      PROVE  m.ts < began'[q]
    <2>1. q = r
        BY <1>3, <1>8
    <2>2. pc'[r] = "open" /\ m \in rows
        BY <1>2, <1>8, <2>1
    <2>. QED BY <1>4, <2>1, <2>2
<1>. QED BY <1>3, <1>6, <1>7, <1>8 DEF AloneInv

LEMMA AloneInit == Init => AloneInv
<1>. SUFFICES ASSUME Init PROVE AloneInv
    OBVIOUS
<1>1. \A r \in Requests : pc[r] = "idle"
    BY DEF Init
<1>2. /\ \A t \in Turns : t \in Requests
      /\ \A p \in Puts : p \in Requests
    BY DEF Requests
<1>. QED BY <1>1, <1>2 DEF AloneInv, UnderWay


\* A turn's transaction begins after those of all messages there are.
LEMMA AloneBegins ==
    ASSUME HistoryInv, AloneInv, NEW t \in Turns, BeginTurn(t)
    PROVE  AloneInv'
<1>1. /\ t \in Requests /\ pc[t] = "sent" /\ pc' = [pc EXCEPT ![t] = "open"]
      /\ began' = [began EXCEPT ![t] = clock + 1] /\ UNCHANGED <<rows, named>>
    BY DEF BeginTurn, Begins, Requests, turnVars
<1>2. UnderWay(t) /\ \A q \in Requests \ {t} : ~UnderWay(q)
    BY <1>1 DEF AloneInv, UnderWay, Ended
<1>3. /\ pc'[t] = "open" /\ \A q \in Requests \ {t} : pc'[q] = pc[q]
      /\ \A q \in Requests \ {t} : ~UnderWay(q)'
    BY <1>1, <1>2 DEF HistoryInv, UnderWay
<1>4. ASSUME NEW q \in Requests, UnderWay(q)', NEW m \in rows'
      PROVE  m.ts < began'[q]
    <2>1. q = t /\ m \in rows
        BY <1>1, <1>3, <1>4
    <2>2. /\ m.by \in Requests /\ m.ts = began[m.by] /\ m.ts \in Nat /\ m.ts <= clock
          /\ clock \in Nat
        BY <2>1 DEF HistoryInv, Kept, Times
    <2>3. began'[t] = clock + 1
        BY <1>1 DEF HistoryInv, Times
    <2>. QED BY <2>1, <2>2, <2>3
<1>5. ASSUME NEW u \in Turns
      PROVE  /\ pc'[u] \in {"sent", "open"} => named'[u] \in {None, LatestPending(rows')}
             /\ pc'[u] # "confirming"
    <2>1. CASE u = t
        BY <1>1, <1>3, <2>1 DEF AloneInv
    <2>2. CASE u # t
        BY <1>3, <2>2 DEF UnderWay, Ended, Requests
    <2>. QED BY <2>1, <2>2
<1>6. ASSUME NEW p \in Puts
      PROVE  pc'[p] \notin {"answered", "flushed"}
    <2>1. p # t /\ p \in Requests
        BY ChatAssumption DEF Requests
    <2>. QED BY <1>3, <2>1 DEF UnderWay, Ended
<1>. QED BY <1>3, <1>4, <1>5, <1>6 DEF AloneInv

LEMMA AloneStep ==
    ASSUME MaxOpen = 1, IsFiniteSet(Requests), HistoryInv, ProposalInv, AloneInv,
           [Next]_vars
    PROVE  AloneInv'
<1>0. /\ \A t \in Turns : t \in Requests /\ t \notin Callbacks \union Puts
      /\ \A c \in Callbacks : c \in Requests /\ c \notin Puts /\ c \notin Turns
      /\ \A p \in Puts : p \in Requests /\ p \notin Turns
    BY ChatAssumption DEF Requests
<1>1. ASSUME NEW t \in Turns, Send(t)
      PROVE  AloneInv'
    <2>1. /\ Arrives(t) /\ pc' = [pc EXCEPT ![t] = "sent"] /\ UNCHANGED <<began, rows>>
          /\ \E given \in {None, LatestPending(rows)} : named' = [named EXCEPT ![t] = given]
        BY <1>1 DEF Send
    <2>2. PICK given \in {None, LatestPending(rows)} : named' = [named EXCEPT ![t] = given]
        BY <2>1
    <2>3. named'[t] = given
        BY <2>2 DEF ProposalInv
    <2>. QED BY <1>0, <2>1, <2>2, <2>3, AloneArrives
<1>2. ASSUME NEW t \in Turns, BeginTurn(t)
      PROVE  AloneInv'
    BY <1>2, AloneBegins
<1>3. ASSUME NEW t \in Turns, ReadPending(t)
      PROVE  AloneInv'
    <2> DEFINE act == IF named[t] # None THEN named[t] ELSE LatestPending(rows)
    <2>1. /\ pc[t] = "open" /\ pc' = [pc EXCEPT ![t] = Way(t, act)]
          /\ offer' = [offer EXCEPT ![t] = act] /\ UNCHANGED <<named, rows, began, gone>>
        BY <1>3 DEF ReadPending
    <2>2. act = LatestPending(rows)
        BY <2>1 DEF AloneInv
    <2>. HIDE DEF act
    <2>3. PICK way \in {"asking", "confirming", "editing"} : pc' = [pc EXCEPT ![t] = way]
        BY <2>1, Ways
    <2>4. UnderWay(t)
        BY <2>1 DEF UnderWay, Ended
    <2>5. offer'[t] = LatestPending(rows) /\ \A u \in Turns \ {t} : offer'[u] = offer[u]
        BY <2>1, <2>2 DEF ProposalInv
    <2>. QED BY <1>0, <2>1, <2>3, <2>4, <2>5, AloneFree DEF Places
<1>4. ASSUME NEW t \in Turns, ExecutePending(t) \/ EditPending(t) \/ RunAgent(t)
      PROVE  AloneInv'
    <2>1. /\ pc[t] \in {"confirming", "editing", "agent"}
          /\ \E next \in {"answered", "flushed"} : pc' = [pc EXCEPT ![t] = next]
          /\ UNCHANGED <<rows, began, named, offer, gone>>
        BY <1>4 DEF ExecutePending, EditPending, RunAgent, Replies
    <2>2. UnderWay(t)
        BY <2>1 DEF UnderWay, Ended
    <2>. QED BY <1>0, <2>1, <2>2, AloneFree DEF Places
<1>5. ASSUME NEW c \in Callbacks, ReadEvent(c)
      PROVE  AloneInv'
    <2>1. /\ pc[c] = "open" /\ \E next \in {"deduplicated", "answered"} :
                                    pc' = [pc EXCEPT ![c] = next]
          /\ UNCHANGED <<rows, began, named, offer, gone>>
        BY <1>5 DEF ReadEvent
    <2>2. UnderWay(c)
        BY <2>1 DEF UnderWay, Ended
    <2>. QED BY <1>0, <2>1, <2>2, AloneFree DEF Places, Ended
<1>6. ASSUME NEW r \in Callbacks \union Puts, BeginCallback(r) \/ BeginPut(r)
      PROVE  AloneInv'
    <2>1. Arrives(r) /\ Begins(r, "open") /\ rows' = rows
        BY <1>6 DEF BeginCallback, BeginPut
    <2>. QED BY <1>0, <2>1, AloneArrives
<1>7. ASSUME NEW p \in Puts, DeleteMessages(p)
      PROVE  AloneInv'
    <2>1. /\ pc[p] = "open" /\ pc' = [pc EXCEPT ![p] = "answered"]
          /\ gone' = [gone EXCEPT ![p] = rows] /\ UNCHANGED <<rows, began, named, offer>>
        BY <1>7 DEF DeleteMessages, turnVars
    <2>2. UnderWay(p)
        BY <2>1 DEF UnderWay, Ended
    <2>3. gone'[p] = rows /\ \A q \in Puts \ {p} : gone'[q] = gone[q]
        BY <2>1 DEF HistoryInv
    <2>. QED BY <1>0, <2>1, <2>2, <2>3, AloneFree DEF Places
<1>8. ASSUME NEW r \in Requests, Flush(r) \/ Abort(r)
      PROVE  AloneInv'
    <2>1. /\ \/ pc[r] = "asking" /\ pc' = [pc EXCEPT ![r] = "agent"]
             \/ pc[r] = "answered" /\ pc' = [pc EXCEPT ![r] = "flushed"]
             \/ pc' = [pc EXCEPT ![r] = "aborted"]
          /\ UnderWay(r) /\ UNCHANGED <<rows, began, named, offer, gone>>
        BY <1>8 DEF Flush, Abort, UnderWay, Ended, turnVars
    <2>2. r \in Puts /\ pc[r] = "answered" => gone[r] = rows
        BY DEF AloneInv
    <2>. QED BY <1>0, <2>1, <2>2, AloneFree DEF Places, Ended
<1>9. ASSUME NEW r \in Requests, Commit(r)
      PROVE  AloneInv'
    <2>1. pc[r] = "flushed" /\ pc' = [pc EXCEPT ![r] = "committed"]
        BY <1>9 DEF Commit
    <2>2. \A q \in Requests \ {r} : ~UnderWay(q)
        BY <2>1 DEF AloneInv, UnderWay, Ended
    <2>3. \A q \in Requests : pc'[q] \in Ended \union {"idle"}
        BY <2>1, <2>2 DEF HistoryInv, UnderWay, Ended
    <2>. QED BY <1>0, <2>3 DEF AloneInv, UnderWay, Ended
<1>10. CASE UNCHANGED vars
    BY <1>10 DEF vars, turnVars, AloneInv, UnderWay
<1>. QED BY <1>1, <1>2, <1>3, <1>4, <1>5, <1>6, <1>7, <1>8, <1>9, <1>10 DEF Next

-----------------------------------------------------------------------------
(* Every step is one of PendingSlot's, or none *)

\* Where one message comes after all others, it is the newest.
LEMMA LastIsNewest ==
    ASSUME NEW S, NEW m \in S, m.ts \in Nat,
           \A n \in S \ {m} : n.ts \in Nat /\ n.ts < m.ts
    PROVE  Newest(S) = m
<1>1. \A n \in S \ {m} : Before(n, m)
    BY DEF Before
<1>2. /\ Newest(S) \in S
      /\ \A n \in S \ {Newest(S)} : Before(n, Newest(S))
    BY <1>1 DEF Newest
<1>3. ASSUME Newest(S) # m
      PROVE  FALSE
    <2>1. PICK n \in S : n = Newest(S)
        BY <1>2
    <2>2. Before(m, n) /\ n.ts \in Nat /\ n.ts < m.ts
        BY <1>2, <1>3, <2>1
    <2>. QED BY <2>2 DEF Before
<1>. QED BY <1>3

\* What is stored was stored with an answer of its own: the newest is one of them.
LEMMA NewestIsKept == HistoryInv => (Assistant(rows) # {} => Newest(Assistant(rows)) \in rows)
BY NewestIsOne DEF Assistant

LEMMA NewestIsKeptNext ==
    HistoryInv' => (Assistant(rows) # {} => Newest(Assistant(rows)) \in rows)'
BY NewestIsKept, PTL

\* Steps that store and carry out nothing.
LEMMA SlotStutter ==
    ASSUME UNCHANGED <<rows, execs>>,
           \A r \in Requests : /\ pc'[r] = "committed" <=> pc[r] = "committed"
                               /\ pc[r] = "committed" => answer'[r] = answer[r]
    PROVE  UNCHANGED <<Shown, Proposed, Restored, CarriedOut>>
<1>1. Shown' = Shown
    BY DEF Shown
<1>2. Proposed' = Proposed
    BY DEF Proposed, Requests
<1>3. CarriedOut' = CarriedOut
    BY DEF CarriedOut
<1>4. Restored' = Restored
    BY DEF Restored, Requests
<1>. QED BY <1>1, <1>2, <1>3, <1>4

\* The CRM carries out what the screen shows.
LEMMA SlotRun ==
    ASSUME HistoryInv, ProposalInv, AloneInv, NEW t \in Turns, ExecutePending(t)
    PROVE  UNCHANGED <<Shown, Proposed, Restored>> /\ (CarriedOut' = CarriedOut \/
               (Shown # None /\ CarriedOut' = CarriedOut \union {Shown}))
<1>1. /\ t \in Requests /\ pc[t] = "confirming" /\ pc' = [pc EXCEPT ![t] = "answered"]
      /\ answer' = [answer EXCEPT ![t] = Answer(None, None)] /\ rows' = rows
    BY DEF ExecutePending, Replies, Requests
<1>2. UNCHANGED <<Shown, Proposed, Restored>>
    <2>1. Shown' = Shown
        BY <1>1 DEF Shown
    <2>2. Proposed' = Proposed
        BY <1>1 DEF Proposed, HistoryInv, Requests
    <2>3. Restored' = Restored
        BY <1>1 DEF Restored, HistoryInv, Requests
    <2>. QED BY <2>1, <2>2, <2>3
<1>3. offer[t] = LatestPending(rows) /\ offer[t] # None /\ offer[t] \in Act
    BY <1>1 DEF AloneInv, ProposalInv, Sound
<1>4. Shown = offer[t].token /\ offer[t].token # None
    BY <1>3, ChatAssumption DEF Shown, LatestPending, Act, Requests
<1>5. CASE execs' = execs
    BY <1>2, <1>5 DEF CarriedOut
<1>6. CASE execs' = execs \union {[by |-> t, token |-> offer[t].token, args |-> offer[t].args]}
    <2>1. CarriedOut' = CarriedOut \union {offer[t].token}
        <3>1. PICK call : /\ call.token = offer[t].token
                          /\ execs' = execs \union {call}
            BY <1>6
        <3>. QED BY <3>1 DEF CarriedOut
    <2>. QED BY <1>2, <1>4, <2>1
<1>. QED BY <1>5, <1>6 DEF ExecutePending

\* A turn's answer takes the place of the proposal there was, with its own or none.
LEMMA SlotCommit ==
    ASSUME HistoryInv, ProposalInv, AloneInv, HistoryInv', NEW r \in Requests, Commit(r)
    PROVE  /\ CarriedOut' = CarriedOut
           /\ \/ Shown' = None /\ UNCHANGED <<Proposed, Restored>>
              \/ /\ r \in Turns /\ r \notin Proposed
                 /\ Shown' = r /\ Proposed' = Proposed \union {r} /\ Restored' = Restored
              \/ /\ r \in Puts /\ r \notin Restored
                 /\ Shown' \in Turns \union Elsewhere \union {None}
                 /\ Restored' = Restored \union {r} /\ Proposed' = Proposed
<1>1. /\ pc[r] = "flushed" /\ pc' = [pc EXCEPT ![r] = "committed"]
      /\ UNCHANGED <<answer, execs, began>>
    BY DEF Commit, turnVars, crmVars
<1>2. /\ CarriedOut' = CarriedOut /\ r \notin Proposed
      /\ Proposed' = IF r \in Turns /\ answer[r].act # None THEN Proposed \union {r}
                     ELSE Proposed
      /\ r \notin Restored
      /\ Restored' = IF r \in Puts THEN Restored \union {r} ELSE Restored
    BY <1>1 DEF CarriedOut, Proposed, Restored, HistoryInv, Requests
<1>3. /\ \A m \in rows : m.ts \in Nat /\ m.ts < began[r]
      /\ began[r] \in Nat
    BY <1>1 DEF HistoryInv, Kept, Times, AloneInv, UnderWay, Ended
<1>4. /\ r \in Turns /\ answer[r].act # None => answer[r].act = [token |-> r, args |-> r]
      /\ r \in Callbacks => answer[r].act = None
    BY DEF ProposalInv
<1>5. ASSUME r \notin Puts,
             NEW m, m.role = "assistant", m.ts = began[r], m.act = answer[r].act,
             NEW new, m \in new, \A n \in new : n.role = "assistant" => n = m,
             rows' = rows \union new
      PROVE  Shown' = IF answer[r].act = None THEN None ELSE r
    <2>1. /\ m \in Assistant(rows')
          /\ \A n \in Assistant(rows') \ {m} : n.ts \in Nat /\ n.ts < m.ts
        BY <1>3, <1>5 DEF Assistant
    <2>2. m.ts \in Nat
        BY <1>3, <1>5
    <2>3. Newest(Assistant(rows')) = m
        BY <2>1, <2>2, LastIsNewest
    <2>4. answer[r].act # None => m.act.token = r
        BY <1>4, <1>5 DEF Requests
    <2>. QED BY <1>5, <2>1, <2>3, <2>4 DEF Shown
<1>6. CASE r \in Turns /\ rows' = rows \union Exchange(r)
    <2> DEFINE m == Row(r, "assistant", 0, 2, answer[r])
    <2>1. /\ m.role = "assistant" /\ m.ts = began[r] /\ m.act = answer[r].act
          /\ m \in Exchange(r) /\ \A n \in Exchange(r) : n.role = "assistant" => n = m
        BY DEF Exchange, Row
    <2>. HIDE DEF m
    <2>2. r \notin Puts
        BY <1>6, ChatAssumption
    <2>3. Shown' = IF answer[r].act = None THEN None ELSE r
        BY <1>5, <1>6, <2>1, <2>2
    <2>. QED BY <1>2, <1>6, <2>2, <2>3
<1>7. CASE r \in Callbacks /\ rows' = rows \union Event(r)
    <2> DEFINE m == Row(r, "assistant", 0, 1, answer[r])
    <2>1. /\ m.role = "assistant" /\ m.ts = began[r] /\ m.act = answer[r].act
          /\ m \in Event(r) /\ \A n \in Event(r) : n.role = "assistant" => n = m
        BY DEF Event, Row
    <2>. HIDE DEF m
    <2>2. r \notin Turns /\ r \notin Puts
        BY <1>7, ChatAssumption
    <2>3. Shown' = IF answer[r].act = None THEN None ELSE r
        BY <1>5, <1>7, <2>1, <2>2
    <2>. QED BY <1>2, <1>4, <1>7, <2>2, <2>3
<1>8. CASE r \in Puts /\ \E new \in Replacements(r) : rows' = (rows \ gone[r]) \union new
    <2>1. r \notin Turns /\ gone[r] = rows /\ answer[r].act \in Act \union {None}
        BY <1>1, <1>8, ChatAssumption DEF AloneInv, ProposalInv
    <2>2. PICK new \in Replacements(r) : rows' = (rows \ gone[r]) \union new
        BY <1>8
    <2>3. ASSUME NEW m \in rows', m.act # None
          PROVE  m.act.token \in Turns \union Elsewhere
        <3>1. m.act \in {None, answer[r].act}
            BY <2>1, <2>2, AnswerParts DEF Replacements, Row, NoAnswer
        <3>. QED BY <2>1, <2>3, <3>1 DEF Act
    <2>4. Assistant(rows') # {} => Newest(Assistant(rows')) \in rows'
        BY NewestIsKeptNext
    <2>5. Shown' \in Turns \union Elsewhere \union {None}
        BY <2>3, <2>4 DEF Shown
    <2>. QED BY <1>2, <1>8, <2>1, <2>5
<1>. QED BY <1>6, <1>7, <1>8 DEF Commit

LEMMA SlotStep ==
    ASSUME HistoryInv, ProposalInv, AloneInv, HistoryInv', [Next]_vars
    PROVE  [Slot!SlotNext]_(Slot!slotVars)
<1>0. \A t \in Turns : t \in Requests /\ t \notin Callbacks \union Puts
    BY ChatAssumption DEF Requests
<1>1. ASSUME UNCHANGED <<Shown, Proposed, Restored, CarriedOut>>
      PROVE  [Slot!SlotNext]_(Slot!slotVars)
    BY <1>1 DEF Slot!slotVars
<1>2. ASSUME NEW r \in Requests, NEW next \in Places \ {"committed"}, pc[r] # "committed",
             pc' = [pc EXCEPT ![r] = next],
             \A q \in Requests \ {r} : answer'[q] = answer[q], UNCHANGED <<rows, execs>>
      PROVE  [Slot!SlotNext]_(Slot!slotVars)
    <2>1. \A q \in Requests : /\ pc'[q] = "committed" <=> pc[q] = "committed"
                              /\ pc[q] = "committed" => answer'[q] = answer[q]
        BY <1>0, <1>2 DEF HistoryInv, Places, Ended
    <2>. QED BY <1>1, <1>2, <2>1, SlotStutter
<1>3. ASSUME NEW t \in Turns, Send(t) \/ BeginTurn(t) \/ ReadPending(t)
      PROVE  [Slot!SlotNext]_(Slot!slotVars)
    <2>1. /\ \E next \in {"sent", "open", "asking", "confirming", "editing"} :
                pc' = [pc EXCEPT ![t] = next]
          /\ pc[t] \in {"idle", "sent", "open"} /\ UNCHANGED <<answer, rows, execs>>
        BY <1>3, Ways DEF Send, Arrives, BeginTurn, Begins, ReadPending, turnVars, crmVars
    <2>. QED BY <1>0, <1>2, <2>1 DEF Places
<1>4. ASSUME NEW t \in Turns, EditPending(t) \/ RunAgent(t)
      PROVE  [Slot!SlotNext]_(Slot!slotVars)
    <2>1. /\ \E next \in {"answered", "flushed"} : pc' = [pc EXCEPT ![t] = next]
          /\ pc[t] \in {"editing", "agent"} /\ UNCHANGED <<rows, execs>>
          /\ \E reply : answer' = [answer EXCEPT ![t] = reply]
        BY <1>4 DEF EditPending, RunAgent, Replies, crmVars
    <2>2. \A q \in Requests \ {t} : answer'[q] = answer[q]
        BY <1>0, <2>1 DEF HistoryInv
    <2>. QED BY <1>0, <1>2, <2>1, <2>2 DEF Places
<1>5. ASSUME NEW t \in Turns, ExecutePending(t)
      PROVE  [Slot!SlotNext]_(Slot!slotVars)
    BY <1>5, SlotRun DEF Slot!SlotNext, Slot!Run, Slot!slotVars
<1>6. ASSUME NEW r \in Callbacks \union Puts,
             BeginCallback(r) \/ ReadEvent(r) \/ BeginPut(r) \/ DeleteMessages(r)
      PROVE  [Slot!SlotNext]_(Slot!slotVars)
    <2>1. /\ \E next \in {"open", "deduplicated", "answered"} : pc' = [pc EXCEPT ![r] = next]
          /\ pc[r] \in {"idle", "open"} /\ UNCHANGED <<rows, execs>>
          /\ \E reply : answer' \in {answer, [answer EXCEPT ![r] = reply]}
        BY <1>6 DEF BeginCallback, ReadEvent, BeginPut, DeleteMessages, Begins, Arrives,
           turnVars, crmVars
    <2>2. r \in Requests /\ \A q \in Requests \ {r} : answer'[q] = answer[q]
        BY <1>0, <2>1 DEF HistoryInv, Requests
    <2>. QED BY <1>2, <2>1, <2>2 DEF Places, Ended
<1>7. ASSUME NEW r \in Requests, Flush(r) \/ Abort(r)
      PROVE  [Slot!SlotNext]_(Slot!slotVars)
    <2>1. /\ \E next \in {"agent", "flushed", "aborted"} : pc' = [pc EXCEPT ![r] = next]
          /\ pc[r] # "committed" /\ UNCHANGED <<rows, execs>>
          /\ \E reply : answer' \in {answer, [answer EXCEPT ![r] = reply]}
        BY <1>7 DEF Flush, Abort, UnderWay, Ended, turnVars, crmVars
    <2>2. \A q \in Requests \ {r} : answer'[q] = answer[q]
        BY <2>1 DEF HistoryInv
    <2>. QED BY <1>2, <2>1, <2>2 DEF Places, Ended
<1>8. ASSUME NEW r \in Requests, Commit(r)
      PROVE  [Slot!SlotNext]_(Slot!slotVars)
    BY <1>8, SlotCommit
       DEF Slot!SlotNext, Slot!Withdraw, Slot!Offer, Slot!Restore, Slot!slotVars
<1>9. CASE UNCHANGED vars
    <2>1. UNCHANGED <<rows, execs, answer, pc>>
        BY <1>9 DEF vars, turnVars, crmVars
    <2>. QED BY <1>1, <2>1, SlotStutter
<1>. QED BY <1>3, <1>4, <1>5, <1>6, <1>7, <1>8, <1>9 DEF Next

LEMMA SlotInit == Init => Slot!SlotInit
<1>. SUFFICES ASSUME Init PROVE Slot!SlotInit
    OBVIOUS
<1>1. rows = {} /\ execs = {} /\ \A r \in Requests : pc[r] = "idle"
    BY DEF Init
<1>. QED BY <1>1
     DEF Slot!SlotInit, Shown, Proposed, Restored, CarriedOut, Assistant, Requests

\* One request after the other, each broken off anywhere or not: the chat keeps one
\* proposal at most, its turns propose each once, and only the one on the screen is
\* carried out, also where a stored history brought that one back.  Overlapping requests do not: ConfirmIdempotent is a run's counterexample.
THEOREM OneByOneKeepsSlot ==
    ASSUME MaxOpen = 1, IsFiniteSet(Requests)
    PROVE  Spec => Slot!SlotSpec
<1> DEFINE IInv == HistoryInv /\ ProposalInv /\ AloneInv
<1>1. Init => IInv
    BY HistoryInit, ProposalInit, AloneInit
<1>2. IInv /\ [Next]_vars => IInv'
    BY HistoryStep, ProposalStep, AloneStep
<1>3. IInv /\ IInv' /\ [Next]_vars => [Slot!SlotNext]_(Slot!slotVars)
    BY SlotStep
<1>. HIDE DEF IInv
<1>. QED BY <1>1, <1>2, <1>3, SlotInit, PTL DEF Spec, Slot!SlotSpec
=============================================================================
