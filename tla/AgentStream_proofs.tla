-------------------------- MODULE AgentStream_proofs --------------------------
(***************************************************************************)
(* Safety of one streamed turn, for any number of rounds and any length of   *)
(* its event queue.  The invariant says what the queue may hold while the    *)
(* pipeline has no answer yet, while it has one, and once it is over.        *)
(***************************************************************************)
EXTENDS AgentStream, SequenceTheorems, TLAPS

Events == [type : Types, seq : Nat, note : Notes]

\* The shape of the state, apart from the committed messages.
Shape ==
    /\ stage \in Stages
    /\ iteration \in 0..(MaxIterations - 1) /\ shown \in 0..MaxDeltas
    /\ seq \in Nat /\ steps \in Seq(Statuses) /\ answer \in Notes
    /\ events \in Seq(Events)
    /\ taken \in 0..Len(events)
    /\ cancelled \in BOOLEAN /\ here \in BOOLEAN
    /\ reader \in {"serving", "closing", "closed"}

\* What the transaction holds at each stage.
Stored ==
    /\ stage \in {"open", "prepare"} => draft = {} /\ chat = {}
    /\ stage \in Agent \union {"execute", "history", "compose"} =>
        draft = {"user"} /\ chat = {}
    /\ stage = "commit" => draft = {"user", "assistant"} /\ chat = {}
    /\ stage = "report" => draft = {"user", "assistant"} /\ chat = {"user", "assistant"}
    /\ draft \in SUBSET {"user", "assistant"}
    /\ chat \in {{}, {"user", "assistant"}}

Early == Agent \union {"open", "prepare", "execute", "history"}
Late == {"compose", "commit", "report"}

\* An event that neither settles the answer nor ends the stream.
Plain(e) ==
    /\ e.type \notin Verdicts \union {"end", "answer.done"}
    /\ e.type = "agent.tool_result" => e.note \notin Ending

\* An event after which no more rounds follow.
Quiet(e) == e.type \notin {"agent.tool_call", "answer.delta"}

\* An event that tells of a failed call.
Fault(e) == e.type = "agent.tool_result" /\ e.note \in Failing
Faulty(q) == \E j \in 1..Len(q) : Fault(q[j])
Broken(results) == \E k \in DOMAIN results : results[k] \in Failing

\* What an event says of the answer and of the events after it, where a call has or
\* has not failed before it.
Claims(q, text, k, failed) ==
    /\ q[k].type = "answer.done" =>
        text = q[k].note \/ q[k].note \in {"json", "noise"} \/ (text = "failure" /\ failed)
    /\ q[k].type = "agent.tool_result" /\ q[k].note \in Ending =>
        /\ text = "proposal" \/ (text = "failure" /\ q[k].note \notin Confirming /\ failed)
        /\ \A j \in (k + 1)..Len(q) : Quiet(q[j])

Holds(q, text, k) == Claims(q, text, k, \E j \in 1..(k - 1) : Fault(q[j]))

QueueInv ==
    /\ stage \in Early => \A k \in 1..Len(events) : Plain(events[k])
    /\ \A k \in 1..Len(events) : Holds(events, answer, k)
    /\ stage \in Late =>
        \A k \in 1..Len(events) : events[k].type \notin Verdicts \union {"end"}

Settled == ReportedAsStored /\ VerdictIsLast

\* While the agent goes on, no result has ended the turn, and a failed one was told of.
StepsInv ==
    stage \in Early => /\ \A k \in DOMAIN steps : steps[k] \notin Ending
                       /\ Broken(steps) => Faulty(events)

IInv == Shape /\ Stored /\ QueueInv /\ Settled /\ StepsInv

\* How the queue grows: what was on it stays, and the types and the notes of
\* what is new are those of es.
Grows(es) ==
    /\ events' \in Seq(Events)
    /\ Len(events') = Len(events) + Len(es)
    /\ \A k \in 1..Len(events) : events'[k] = events[k]
    /\ \A k \in 1..Len(es) :
        /\ events'[Len(events) + k].type = es[k].type
        /\ events'[Len(events) + k].note = es[k].note

\* The results grow by one at most, which does not end the turn and is among es.
Adds(es) ==
    \/ steps' = steps
    \/ \E s \in Statuses \ Ending :
          /\ steps' = Append(steps, s)
          /\ s \in Failing => \E i \in 1..Len(es) : Fault(es[i])

\* The last events of a stream: at most one verdict, right before the end.
Closing(es) ==
    /\ Len(es) > 0 /\ es[Len(es)].type = "end"
    /\ \A k \in 1..Len(es) :
        /\ Quiet(es[k]) /\ es[k].type \notin {"answer.done", "agent.tool_result"}
        /\ es[k].type \in Verdicts => k + 1 = Len(es)
        /\ es[k].type = "result" => es[k].note = answer /\ chat' = {"user", "assistant"}

-----------------------------------------------------------------------------
(* Growth of the queue *)

\* Numbering events changes neither their types nor their notes.
LEMMA EmitGrows ==
    ASSUME Shape, NEW es \in Seq(Events), Emit(es)
    PROVE  Grows(es) /\ seq' \in Nat
<1> DEFINE num == [k \in DOMAIN es |-> [es[k] EXCEPT !.seq = seq + k]]
<1>1. seq \in Nat /\ events \in Seq(Events) /\ Len(es) \in Nat /\ DOMAIN es = 1..Len(es)
    BY DEF Shape
<1>2. \A k \in 1..Len(es) : num[k] \in Events /\ num[k].type = es[k].type
                            /\ num[k].note = es[k].note
    <2>. TAKE k \in 1..Len(es)
    <2>1. es[k] \in Events BY <1>1
    <2>2. seq + k \in Nat BY <1>1
    <2>. QED BY <1>1, <2>1, <2>2 DEF Events
<1>3. num \in Seq(Events) /\ Len(num) = Len(es)
    BY <1>1, <1>2
<1>4. events' = events \o num
    BY DEF Emit
<1>. HIDE DEF num
<1>5. /\ events' \in Seq(Events)
      /\ Len(events') = Len(events) + Len(es)
      /\ \A k \in 1..Len(events) : events'[k] = events[k]
      /\ \A k \in 1..Len(es) : events'[Len(events) + k] = num[k]
    <2>1. /\ events \o num \in Seq(Events)
          /\ Len(events \o num) = Len(events) + Len(num)
          /\ \A k \in 1..Len(events) + Len(num) :
                (events \o num)[k] = IF k <= Len(events) THEN events[k]
                                     ELSE num[k - Len(events)]
        BY <1>1, <1>3, ConcatProperties
    <2>2. Len(events) \in Nat BY <1>1
    <2>. QED BY <1>1, <1>3, <1>4, <2>1, <2>2
<1>6. seq' \in Nat
    BY <1>1 DEF Emit
<1>. QED BY <1>2, <1>5, <1>6 DEF Grows

\* So does putting events on the queue as they are.
LEMMA PutGrows ==
    ASSUME Shape, NEW es \in Seq(Events), events' = events \o es
    PROVE  Grows(es)
<1>1. events \in Seq(Events) /\ Len(events) \in Nat /\ Len(es) \in Nat
    BY DEF Shape
<1>2. /\ events \o es \in Seq(Events)
      /\ Len(events \o es) = Len(events) + Len(es)
      /\ \A k \in 1..Len(events) + Len(es) :
            (events \o es)[k] = IF k <= Len(events) THEN events[k]
                                ELSE es[k - Len(events)]
    BY <1>1, ConcatProperties
<1>. QED BY <1>1, <1>2 DEF Grows

-----------------------------------------------------------------------------
(* What a growth of the queue preserves *)

\* Where an event of the longer queue comes from.
LEMMA Sources ==
    ASSUME Shape, NEW es \in Seq(Events), Grows(es), NEW k \in 1..Len(events')
    PROVE  \/ k \in 1..Len(events) /\ events'[k] = events[k]
           \/ \E i \in 1..Len(es) : /\ k = Len(events) + i
                                  /\ events'[k].type = es[i].type
                                  /\ events'[k].note = es[i].note
<1>1. Len(events) \in Nat /\ Len(es) \in Nat
    BY DEF Shape
<1>2. CASE k <= Len(events)
    BY <1>1, <1>2 DEF Grows
<1>3. CASE k > Len(events)
    <2>1. k - Len(events) \in 1..Len(es) /\ k = Len(events) + (k - Len(events))
        BY <1>1, <1>3 DEF Grows
    <2>. QED BY <2>1 DEF Grows
<1>. QED BY <1>1, <1>2, <1>3 DEF Grows

\* The agent's rounds only add plain events.
LEMMA StillEarly ==
    ASSUME Shape, QueueInv, Settled, stage \in Early, stage' \in Early,
           NEW es \in Seq(Events), Grows(es), \A k \in 1..Len(es) : Plain(es[k])
    PROVE  QueueInv' /\ Settled'
<1>1. \A k \in 1..Len(events') : Plain(events'[k])
    <2>. TAKE k \in 1..Len(events')
    <2>1. CASE k \in 1..Len(events) /\ events'[k] = events[k]
        BY <2>1 DEF QueueInv
    <2>2. CASE \E i \in 1..Len(es) : /\ k = Len(events) + i
                                     /\ events'[k].type = es[i].type
                                     /\ events'[k].note = es[i].note
        BY <2>2 DEF Plain
    <2>. QED BY <2>1, <2>2, Sources
<1>2. stage' \notin Late
    BY DEF Early, Late, Agent
<1>3. DOMAIN events' = 1..Len(events')
    BY DEF Grows
<1>. QED BY <1>1, <1>2, <1>3 DEF QueueInv, Settled, ReportedAsStored, VerdictIsLast,
                               Plain, Holds, Claims, Verdicts

\* A result is appended together with its event.
LEMMA StepsGrow ==
    ASSUME Shape, StepsInv, stage \in Early, NEW es \in Seq(Events), Grows(es), Adds(es)
    PROVE  StepsInv' /\ steps' \in Seq(Statuses)
<1>1. /\ Len(events) \in Nat /\ Len(es) \in Nat /\ steps \in Seq(Statuses)
      /\ Len(events') = Len(events) + Len(es)
    BY DEF Shape, Grows
<1>2. Faulty(events) => Faulty(events)'
    BY <1>1 DEF Faulty, Fault, Grows
<1>3. CASE steps' = steps
    BY <1>1, <1>2, <1>3 DEF StepsInv, Broken
<1>4. ASSUME NEW s \in Statuses \ Ending, steps' = Append(steps, s),
             s \in Failing => \E i \in 1..Len(es) : Fault(es[i])
      PROVE  StepsInv' /\ steps' \in Seq(Statuses)
    <2>1. /\ steps' \in Seq(Statuses) /\ DOMAIN steps' = 1..(Len(steps) + 1)
          /\ DOMAIN steps = 1..Len(steps) /\ Len(steps) \in Nat
          /\ \A k \in 1..Len(steps) : steps'[k] = steps[k]
          /\ steps'[Len(steps) + 1] = s
        BY <1>1, <1>4
    <2>2. s \in Failing => Faulty(events)'
        <3>1. ASSUME NEW i \in 1..Len(es), Fault(es[i])
              PROVE  Faulty(events)'
            <4>1. Len(events) + i \in 1..Len(events') /\ Fault(events'[Len(events) + i])
                BY <1>1, <3>1 DEF Grows, Fault
            <4>. QED BY <4>1 DEF Faulty
        <3>. QED BY <1>4, <3>1
    <2>3. ASSUME NEW k \in DOMAIN steps'
          PROVE  (k \in DOMAIN steps /\ steps'[k] = steps[k]) \/ steps'[k] = s
        BY <2>1
    <2>4. \A k \in DOMAIN steps' : steps'[k] \notin Ending
        BY <1>4, <2>3 DEF StepsInv
    <2>5. Broken(steps') => Broken(steps) \/ s \in Failing
        BY <2>3 DEF Broken
    <2>6. Broken(steps)' => Faulty(events)'
        BY <1>2, <2>2, <2>5 DEF StepsInv, Broken
    <2>. QED BY <2>1, <2>4, <2>6 DEF StepsInv
<1>. QED BY <1>3, <1>4 DEF Adds

\* When the agent comes to its answer, the last events may announce it or be the
\* proposal that it is.
LEMMA EarlyToLate ==
    ASSUME Shape, QueueInv, Settled, stage \in Early, stage' \in Late,
           NEW es \in Seq(Events), Grows(es),
           \A k \in 1..Len(es) : /\ es[k].type \notin Verdicts \union {"end"}
                                 /\ Claims(es, answer', k, Faulty(events))
    PROVE  QueueInv' /\ Settled'
<1>0. Len(events) \in Nat /\ Len(es) \in Nat /\ Len(events') = Len(events) + Len(es)
    BY DEF Shape, Grows
<1>1. \A k \in 1..Len(events') : events'[k].type \notin Verdicts \union {"end"}
    <2>. TAKE k \in 1..Len(events')
    <2>. QED BY Sources DEF QueueInv, Plain
<1>2. \A k \in 1..Len(events') : Holds(events', answer', k)
    <2>. TAKE k \in 1..Len(events')
    <2>1. CASE k \in 1..Len(events) /\ events'[k] = events[k]
        BY <2>1 DEF QueueInv, Plain, Holds, Claims
    <2>2. ASSUME NEW i \in 1..Len(es), k = Len(events) + i,
                 events'[k].type = es[i].type, events'[k].note = es[i].note
          PROVE  Holds(events', answer', k)
        <3>1. Claims(es, answer', i, Faulty(events))
            OBVIOUS
        <3>3. Faulty(events) => \E j \in 1..(k - 1) : Fault(events'[j])
            BY <1>0, <2>2 DEF Faulty, Fault, Grows
        <3>2. ASSUME NEW j \in (k + 1)..Len(events'),
                     \A l \in (i + 1)..Len(es) : Quiet(es[l])
              PROVE  Quiet(events'[j])
            <4>1. j - Len(events) \in (i + 1)..Len(es)
                  /\ j = Len(events) + (j - Len(events))
                  /\ j - Len(events) \in 1..Len(es)
                BY <1>0, <2>2
            <4>2. events'[j].type = es[j - Len(events)].type
                BY <4>1 DEF Grows
            <4>. QED BY <3>2, <4>1, <4>2 DEF Quiet
        <3>. QED BY <2>2, <3>1, <3>2, <3>3 DEF Holds, Claims
    <2>. QED BY <2>1, <2>2, Sources
<1>3. stage' \notin Early
    BY DEF Early, Late, Agent
<1>4. DOMAIN events' = 1..Len(events')
    BY DEF Grows
<1>. QED BY <1>1, <1>2, <1>3, <1>4 DEF QueueInv, Settled, ReportedAsStored,
                                       VerdictIsLast, Verdicts

\* The end of the stream, after at most one verdict.
LEMMA ToOver ==
    ASSUME Shape, QueueInv, Settled, stage # "over", stage' = "over", answer' = answer,
           NEW es \in Seq(Events), Grows(es), Closing(es)
    PROVE  QueueInv' /\ Settled'
<1>0. /\ Len(events) \in Nat /\ Len(es) \in Nat /\ Len(events') = Len(events) + Len(es)
      /\ Len(es) > 0 /\ es[Len(es)].type = "end"
    BY DEF Shape, Grows, Closing
<1>c. \A k \in 1..Len(es) :
        /\ Quiet(es[k]) /\ es[k].type \notin {"answer.done", "agent.tool_result"}
        /\ es[k].type \in Verdicts => k + 1 = Len(es)
        /\ es[k].type = "result" => es[k].note = answer /\ chat' = {"user", "assistant"}
    BY DEF Closing
<1>1. \A k \in 1..Len(events) : events[k].type \notin Verdicts
    <2>1. stage \in Early \union Late
        BY DEF Shape, Stages, Early, Late, Agent
    <2>. QED BY <2>1 DEF QueueInv, Plain
<1>2. \A i \in 1..Len(es) : Quiet(events'[Len(events) + i])
    BY <1>c DEF Grows, Quiet
<1>3. \A k \in 1..Len(events') : Holds(events', answer', k)
    <2>. TAKE k \in 1..Len(events')
    <2>1. CASE k \in 1..Len(events) /\ events'[k] = events[k]
        <3>1. Holds(events, answer, k)
            BY <2>1 DEF QueueInv
        <3>2. ASSUME NEW j \in (k + 1)..Len(events'),
                     \A l \in (k + 1)..Len(events) : Quiet(events[l])
              PROVE  Quiet(events'[j])
            <4>1. CASE j <= Len(events)
                BY <1>0, <2>1, <3>2, <4>1 DEF Grows
            <4>2. CASE j > Len(events)
                <5>1. j - Len(events) \in 1..Len(es)
                      /\ j = Len(events) + (j - Len(events))
                    BY <1>0, <4>2
                <5>. QED BY <1>2, <5>1
            <4>. QED BY <1>0, <2>1, <4>1, <4>2
        <3>3. (\E j \in 1..(k - 1) : Fault(events[j])) =>
                \E j \in 1..(k - 1) : Fault(events'[j])
            BY <1>0, <2>1 DEF Grows
        <3>. QED BY <2>1, <3>1, <3>2, <3>3 DEF Holds, Claims
    <2>2. CASE \E i \in 1..Len(es) : /\ k = Len(events) + i
                                     /\ events'[k].type = es[i].type
                                     /\ events'[k].note = es[i].note
        BY <1>c, <2>2 DEF Holds, Claims
    <2>. QED BY <2>1, <2>2, Sources
<1>4. \A k \in 1..Len(events') :
        /\ events'[k].type = "result" =>
            chat' = {"user", "assistant"} /\ events'[k].note = answer'
        /\ events'[k].type \in Verdicts =>
            k + 1 = Len(events') /\ events'[k + 1].type = "end"
    <2>. TAKE k \in 1..Len(events')
    <2>1. CASE k \in 1..Len(events) /\ events'[k] = events[k]
        BY <1>1, <2>1 DEF Verdicts
    <2>2. ASSUME NEW i \in 1..Len(es), k = Len(events) + i,
                 events'[k].type = es[i].type, events'[k].note = es[i].note
          PROVE  /\ events'[k].type = "result" =>
                      chat' = {"user", "assistant"} /\ events'[k].note = answer'
                 /\ events'[k].type \in Verdicts =>
                      k + 1 = Len(events') /\ events'[k + 1].type = "end"
        <3>1. events'[Len(events) + Len(es)].type = "end"
            BY <1>0 DEF Grows
        <3>2. ASSUME events'[k].type \in Verdicts
              PROVE  k + 1 = Len(events) + Len(es)
            <4>1. i + 1 = Len(es)
                BY <1>c, <2>2, <3>2
            <4>. QED BY <1>0, <2>2, <4>1
        <3>3. events'[k].type = "result" =>
                chat' = {"user", "assistant"} /\ events'[k].note = answer'
            BY <1>c, <2>2
        <3>. QED BY <1>0, <3>1, <3>2, <3>3
    <2>. QED BY <2>1, <2>2, Sources
<1>5. stage' \notin Early \union Late
    BY DEF Early, Late, Agent
<1>6. DOMAIN events' = 1..Len(events')
    BY DEF Grows
<1>. QED BY <1>3, <1>4, <1>5, <1>6 DEF QueueInv, Settled, ReportedAsStored, VerdictIsLast

-----------------------------------------------------------------------------
(* The steps of the agent *)

LEMMA InitIInv == Init => IInv
<1>. SUFFICES ASSUME Init PROVE IInv
    OBVIOUS
<1>1. Shape
    <2>1. 0 \in 0..(MaxIterations - 1) /\ 0 \in 0..MaxDeltas
        BY StreamAssumption
    <2>2. <<>> \in Seq(Events) /\ <<>> \in Seq(Statuses) /\ 0 \in 0..Len(<<>>)
        OBVIOUS
    <2>3. None \in Notes /\ "open" \in Stages
        BY DEF Notes, Stages
    <2>. QED BY <2>1, <2>2, <2>3 DEF Init, Shape
<1>2. Stored
    BY DEF Init, Stored, Agent
<1>3. QueueInv /\ Settled
    BY DEF Init, QueueInv, Settled, ReportedAsStored, VerdictIsLast
<1>4. StepsInv
    BY DEF Init, StepsInv, Broken
<1>. QED BY <1>1, <1>2, <1>3, <1>4 DEF IInv

LEMMA DeltaEvent == Delta \in Events /\ Plain(Delta)
BY DEF Delta, Event, Events, Types, Notes, Plain, Verdicts

\* What is left of a completion is a delta at most.
LEMMA TailPlain ==
    ASSUME NEW tail \in Tails
    PROVE  tail \in Seq(Events) /\ Len(tail) <= 1 /\ \A k \in 1..Len(tail) : Plain(tail[k])
<1>1. CASE tail = <<>>
    BY <1>1
<1>2. CASE tail = <<Delta>>
    <2>1. Len(tail) = 1 /\ tail[1] = Delta /\ tail \in Seq(Events)
        BY <1>2, DeltaEvent
    <2>. QED BY <2>1, DeltaEvent
<1>. QED BY <1>1, <1>2 DEF Tails

\* A step within the rounds of the agent, or into them.
LEMMA RoundStep ==
    ASSUME IInv, stage \in Agent \union {"history"}, stage' \in Agent,
           NEW es \in Seq(Events), Emit(es), \A k \in 1..Len(es) : Plain(es[k]),
           iteration' \in 0..(MaxIterations - 1), shown' \in 0..MaxDeltas,
           Adds(es), UNCHANGED <<answer, draft, chat, readerVars>>
    PROVE  IInv'
<1>1. Grows(es) /\ seq' \in Nat
    BY EmitGrows DEF IInv
<1>s. StepsInv' /\ steps' \in Seq(Statuses)
    BY <1>1, StepsGrow DEF IInv, Early
<1>2. taken' \in 0..Len(events')
    BY <1>1 DEF IInv, Shape, Grows, readerVars
<1>3. Shape'
    BY <1>1, <1>2, <1>s DEF IInv, Shape, Stages, Grows, readerVars
<1>4. Stored'
    BY DEF IInv, Stored, Agent
<1>5. QueueInv' /\ Settled'
    BY <1>1, StillEarly DEF IInv, Early
<1>. QED BY <1>3, <1>4, <1>5, <1>s DEF IInv

LEMMA NextRoundStays ==
    ASSUME Shape, NextRound
    PROVE  stage' \in {"llm", "forced"} /\ iteration' \in 0..(MaxIterations - 1)
           /\ shown' \in 0..MaxDeltas
BY StreamAssumption DEF Shape, NextRound

\* What becomes of a text: it stands, or a failure or a confirmation among the results
\* speaks instead of it, or it was machine output.
LEMMA WordedIs ==
    ASSUME NEW observed \in Seq(Statuses), NEW text \in Texts, NEW a \in Worded(text, observed)
    PROVE  /\ a \in Texts
           /\ \/ a = text \/ text \in {"json", "noise"}
              \/ a = "failure" /\ Broken(observed)
              \/ \E k \in DOMAIN observed : observed[k] \in Confirming
<1> DEFINE speaking == {k \in DOMAIN observed : observed[k] \in Confirming \union Failing}
           newest == {k \in speaking : \A j \in speaking : j <= k}
<1>1. CASE speaking # {}
    <2>1. a \in {IF observed[k] \in Confirming THEN "proposal" ELSE "failure" : k \in newest}
        BY <1>1 DEF Worded
    <2>2. PICK k \in newest : a = IF observed[k] \in Confirming THEN "proposal" ELSE "failure"
        BY <2>1
    <2>3. k \in DOMAIN observed /\ observed[k] \in Confirming \union Failing
        BY <2>2
    <2>. QED BY <2>2, <2>3 DEF Texts, Broken
<1>2. CASE speaking = {}
    <2>1. a \in CASE text = "json"  -> {"unwrapped"}
                  [] text = "noise" -> IF \E k \in DOMAIN observed : observed[k] \in Showing
                                       THEN {"observation", "noise"} ELSE {"apology"}
                  [] OTHER          -> {text}
        BY <1>2 DEF Worded
    <2>2. CASE text = "json"
        BY <2>1, <2>2 DEF Texts
    <2>3. CASE text = "noise"
        BY <2>1, <2>3 DEF Texts
    <2>4. CASE text \notin {"json", "noise"}
        BY <2>1, <2>4
    <2>. QED BY <2>2, <2>3, <2>4
<1>. QED BY <1>1, <1>2

\* What becomes of a proposal.
LEMMA ProposalWorded ==
    ASSUME steps \in Seq(Statuses), \A k \in DOMAIN steps : steps[k] \notin Ending,
           NEW s \in Ending, NEW a \in Worded("proposal", Append(steps, s))
    PROVE  a = "proposal" \/ (a = "failure" /\ s \notin Confirming /\ Broken(steps))
<1> DEFINE observed == Append(steps, s)
           last == Len(steps) + 1
           speaking == {k \in DOMAIN observed : observed[k] \in Confirming \union Failing}
           newest == {k \in speaking : \A j \in speaking : j <= k}
<1>1. /\ Len(steps) \in Nat /\ s \in Statuses /\ s \notin Failing
      /\ \A k \in DOMAIN steps : steps[k] \notin Confirming
    BY StreamAssumption
<1>2. /\ DOMAIN observed = 1..last /\ observed[last] = s
      /\ DOMAIN steps = 1..Len(steps) /\ \A k \in 1..Len(steps) : observed[k] = steps[k]
    BY <1>1
<1>. HIDE DEF observed
<1>3. CASE speaking # {}
    <2>1. a \in {IF observed[k] \in Confirming THEN "proposal" ELSE "failure" : k \in newest}
        BY <1>3 DEF Worded, observed
    <2>2. PICK k \in newest : a = IF observed[k] \in Confirming THEN "proposal" ELSE "failure"
        BY <2>1
    <2>3. CASE s \in Confirming
        <3>1. last \in speaking
            BY <1>1, <1>2, <2>3
        <3>2. k = last
            BY <1>1, <1>2, <2>2, <3>1
        <3>. QED BY <1>2, <2>2, <2>3, <3>2
    <2>4. CASE s \notin Confirming
        <3>1. k \in 1..last /\ k # last /\ observed[k] \in Confirming \union Failing
            BY <1>1, <1>2, <2>2, <2>4
        <3>2. k \in DOMAIN steps /\ steps[k] \in Failing
            BY <1>1, <1>2, <3>1
        <3>. QED BY <1>1, <1>2, <2>2, <2>4, <3>2 DEF Broken
    <2>. QED BY <2>3, <2>4
<1>4. CASE speaking = {}
    BY <1>4 DEF Worded, observed
<1>. QED BY <1>3, <1>4

\* The events with which the agent comes to its answer: its text is announced, after the
\* tail of a completion or the result that makes it a proposal.
Ends(before, given, observed) ==
    \/ /\ given \in Written /\ observed = steps
       /\ \A k \in 1..Len(before) : Plain(before[k])
    \/ \E s \in Ending : /\ given = "proposal" /\ observed = Append(steps, s)
                         /\ \A k \in 1..Len(before) : before[k].type = "agent.tool_result"
                                                      /\ before[k].note = s

LEMMA FinishStep ==
    ASSUME IInv, stage \in Agent, NEW before \in Seq(Events), Len(before) <= 1,
           NEW given, NEW observed, Ends(before, given, observed),
           Finish(before, given, observed)
    PROVE  IInv'
<1>1. PICK final \in Finals(given, observed) :
          LET done == IF final = None THEN <<>> ELSE <<Event("answer.done", 0, final)>>
          IN  /\ Emit(before \o done)
              /\ answer' \in Worded(IF final = None THEN "apology" ELSE final, observed)
              /\ stage' = "compose" /\ steps' = observed
              /\ UNCHANGED <<iteration, shown, draft, chat, readerVars>>
    BY DEF Finish
<1> DEFINE done == IF final = None THEN <<>> ELSE <<Event("answer.done", 0, final)>>
           text == IF final = None THEN "apology" ELSE final
           es == before \o done
<1>s. /\ steps \in Seq(Statuses) /\ \A k \in DOMAIN steps : steps[k] \notin Ending
      /\ \A k \in DOMAIN steps : steps[k] \notin Confirming
      /\ Broken(steps) => Faulty(events)
    BY StreamAssumption DEF IInv, Shape, StepsInv, Early
<1>g. given \in Written \union {"proposal"} /\ observed \in Seq(Statuses)
    <2>1. CASE given \in Written /\ observed = steps
        BY <1>s, <2>1
    <2>2. ASSUME NEW s \in Ending, given = "proposal", observed = Append(steps, s)
          PROVE  given \in Written \union {"proposal"} /\ observed \in Seq(Statuses)
        <3>1. s \in Statuses
            BY <2>2, StreamAssumption
        <3>. QED BY <1>s, <2>2, <3>1
    <2>. QED BY <2>1, <2>2 DEF Ends
<1>2. text \in Texts /\ final \in Notes /\ (given = "proposal" => final = "proposal")
    <2>1. None \notin Texts /\ None # "proposal"
        BY StreamAssumption DEF Texts
    <2>2. final \in {given, "observation", "noise", None} /\ (given # None => final = given)
        BY DEF Finals
    <2>. QED BY <1>g, <2>1, <2>2 DEF Texts, Notes, Written
<1>3. /\ answer' \in Texts
      /\ final # None => \/ answer' = final \/ final \in {"json", "noise"}
                         \/ answer' = "failure" /\ Faulty(events)
      /\ \A s \in Ending : given = "proposal" /\ observed = Append(steps, s) =>
            answer' = "proposal" \/ (answer' = "failure" /\ s \notin Confirming /\ Faulty(events))
    <2>1. PICK a : a = answer' /\ a \in Worded(text, observed)
        BY <1>1
    <2>. HIDE DEF text
    <2>2. /\ a \in Texts
          /\ \/ a = text \/ text \in {"json", "noise"}
             \/ (a = "failure" /\ Broken(observed))
             \/ \E k \in DOMAIN observed : observed[k] \in Confirming
        BY <1>g, <1>2, <2>1, WordedIs
    <2>3. ASSUME NEW s \in Ending, given = "proposal", observed = Append(steps, s)
          PROVE  a = "proposal" \/ (a = "failure" /\ s \notin Confirming /\ Faulty(events))
        <3>1. text = "proposal"
            BY <1>2, <2>3, StreamAssumption DEF text, Texts
        <3>. QED BY <1>s, <2>1, <2>3, <3>1, ProposalWorded
    <2>4. CASE given \in Written /\ observed = steps
        <3>1. given # "proposal"
            BY <2>4, StreamAssumption DEF Written, Texts
        <3>. QED BY <1>s, <2>1, <2>2, <2>4, <3>1 DEF text
    <2>5. CASE \E s \in Ending : given = "proposal" /\ observed = Append(steps, s)
        BY <1>2, <2>1, <2>2, <2>3, <2>5
    <2>. QED BY <2>4, <2>5 DEF Ends
<1>4. done \in Seq(Events) /\ Len(done) \in {0, 1}
      /\ \A k \in 1..Len(done) : /\ done[k].type = "answer.done" /\ done[k].note = final
                                 /\ final # None
    <2>1. CASE final = None
        BY <2>1
    <2>2. CASE final # None
        <3>1. Event("answer.done", 0, final) \in Events
            BY <1>2 DEF Event, Events, Types
        <3>2. done = <<Event("answer.done", 0, final)>>
            BY <2>2
        <3>. QED BY <2>2, <3>1, <3>2 DEF Event
    <2>. QED BY <2>1, <2>2
<1>5. Emit(es)
    BY <1>1
<1>. HIDE DEF done, text
<1>6. /\ es \in Seq(Events) /\ Len(es) = Len(before) + Len(done)
      /\ \A k \in 1..Len(before) : es[k] = before[k]
      /\ \A k \in 1..Len(done) : es[Len(before) + k] = done[k]
    BY <1>4
<1>. HIDE DEF es
<1>7. \A k \in 1..Len(es) :
        \/ k \in 1..Len(before) /\ es[k] = before[k]
        \/ /\ k = Len(es) /\ k \notin 1..Len(before) /\ final # None
           /\ es[k].type = "answer.done" /\ es[k].note = final
    <2>. TAKE k \in 1..Len(es)
    <2>1. Len(before) \in Nat /\ Len(done) \in {0, 1}
        BY <1>4
    <2>2. CASE k > Len(before)
        <3>1. Len(done) = 1 /\ k = Len(before) + 1 /\ k = Len(es)
            BY <1>6, <2>1, <2>2
        <3>. QED BY <1>4, <1>6, <2>1, <3>1
    <2>. QED BY <1>6, <2>1, <2>2
<1>8. \A k \in 1..Len(es) : /\ es[k].type \notin Verdicts \union {"end"}
                            /\ Claims(es, answer', k, Faulty(events))
    <2>. TAKE k \in 1..Len(es)
    <2>1. CASE k \in 1..Len(before) /\ es[k] = before[k] /\ Plain(before[k])
        BY <2>1 DEF Plain, Claims
    <2>2. ASSUME k \in 1..Len(before), es[k] = before[k], NEW s \in Ending,
                 given = "proposal", observed = Append(steps, s),
                 before[k].type = "agent.tool_result", before[k].note = s
          PROVE  /\ es[k].type \notin Verdicts \union {"end"}
                 /\ Claims(es, answer', k, Faulty(events))
        <3>1. \A j \in (k + 1)..Len(es) : Quiet(es[j])
            <4>. TAKE j \in (k + 1)..Len(es)
            <4>1. j \in 1..Len(es) /\ j \notin 1..Len(before)
                BY <1>4, <1>6, <2>2
            <4>2. es[j].type = "answer.done"
                BY <1>7, <4>1
            <4>. QED BY <4>2 DEF Quiet
        <3>. QED BY <1>3, <2>2, <3>1 DEF Claims, Verdicts
    <2>3. CASE final # None /\ es[k].type = "answer.done" /\ es[k].note = final
        BY <1>3, <2>3 DEF Claims, Verdicts
    <2>. QED BY <1>7, <2>1, <2>2, <2>3 DEF Ends
<1>9. Grows(es) /\ seq' \in Nat
    BY <1>5, <1>6, EmitGrows DEF IInv
<1>10. taken' \in 0..Len(events')
    BY <1>1, <1>4, <1>6, <1>9 DEF IInv, Shape, Grows, readerVars
<1>11. Shape'
    BY <1>1, <1>3, <1>g, <1>9, <1>10 DEF IInv, Shape, Stages, Grows, readerVars, Notes
<1>12. Stored'
    BY <1>1 DEF IInv, Stored, Agent
<1>13. QueueInv' /\ Settled'
    BY <1>1, <1>6, <1>8, <1>9, EarlyToLate DEF IInv, Early, Late
<1>14. StepsInv'
    BY <1>1 DEF StepsInv, Early, Agent
<1>. QED BY <1>11, <1>12, <1>13, <1>14 DEF IInv

\* It may come to it without another event.
LEMMA FinishAtOnce ==
    ASSUME IInv, stage \in Agent, NEW given \in Written, Finish(<<>>, given, steps)
    PROVE  IInv'
<1> DEFINE before == <<>>
<1>1. before \in Seq(Events) /\ Len(before) <= 1 /\ \A k \in 1..Len(before) : Plain(before[k])
    OBVIOUS
<1>2. Ends(before, given, steps) /\ Finish(before, given, steps)
    BY <1>1 DEF Ends
<1>. HIDE DEF before
<1>. QED BY <1>1, <1>2, FinishStep

\* The agent is given up, with the deadline or an error.
LEMMA GiveUpStep ==
    ASSUME IInv, stage \in Agent, NEW text \in Notes, GiveUp(text)
    PROVE  IInv'
<1>1. /\ answer' = text /\ steps' = <<>> /\ stage' = "compose" /\ events' = events
      /\ UNCHANGED <<iteration, shown, seq, draft, chat, readerVars>>
    BY DEF GiveUp
<1>2. Shape'
    BY <1>1 DEF IInv, Shape, Stages, readerVars
<1>3. Stored'
    BY <1>1 DEF IInv, Stored, Agent
<1>4. <<>> \in Seq(Events) /\ Grows(<<>>) /\ Len(<<>>) = 0
    BY <1>1 DEF IInv, Shape, Grows
<1>5. QueueInv' /\ Settled'
    <2>. \A k \in 1..Len(<<>>) : FALSE
        OBVIOUS
    <2>. QED BY <1>1, <1>4, EarlyToLate DEF IInv, Early, Late
<1>6. StepsInv'
    BY <1>1 DEF StepsInv, Early, Agent
<1>. QED BY <1>2, <1>3, <1>5, <1>6 DEF IInv

\* A tail of a completion and the one or two events after it.
LEMMA TailEvents ==
    ASSUME NEW tail \in Tails, NEW es \in Seq(Events), \A k \in 1..Len(es) : Plain(es[k])
    PROVE  tail \o es \in Seq(Events) /\ \A k \in 1..Len(tail \o es) : Plain((tail \o es)[k])
<1>1. tail \in Seq(Events) /\ \A k \in 1..Len(tail) : Plain(tail[k])
    BY TailPlain
<1>2. /\ tail \o es \in Seq(Events) /\ Len(tail \o es) = Len(tail) + Len(es)
      /\ \A k \in 1..Len(tail) + Len(es) :
            (tail \o es)[k] = IF k <= Len(tail) THEN tail[k] ELSE es[k - Len(tail)]
    BY <1>1, ConcatProperties
<1>3. ASSUME NEW k \in 1..Len(tail \o es)
      PROVE  Plain((tail \o es)[k])
    <2>1. Len(tail) \in Nat /\ Len(es) \in Nat
        BY <1>1
    <2>2. CASE k <= Len(tail)
        BY <1>1, <1>2, <2>1, <2>2
    <2>3. CASE k > Len(tail)
        <3>1. k - Len(tail) \in 1..Len(es)
            BY <1>2, <2>1, <2>3
        <3>2. (tail \o es)[k] = es[k - Len(tail)]
            BY <1>2, <2>1, <2>3
        <3>. QED BY <3>1, <3>2
    <2>. QED BY <2>1, <2>2, <2>3
<1>. QED BY <1>2, <1>3

LEMMA RoundsStep == IInv /\ Rounds => IInv'
<1>. SUFFICES ASSUME IInv, Rounds PROVE IInv'
    OBVIOUS
<1>0. stage \in Stages /\ iteration \in 0..(MaxIterations - 1) /\ shown \in 0..MaxDeltas
      /\ steps \in Seq(Statuses) /\ Shape
    BY DEF IInv, Shape
<1>e. <<>> \in Seq(Events) /\ \A k \in 1..Len(<<>>) : Plain(<<>>[k])
    OBVIOUS
<1>1. CASE StartAgent
    <2>1. stage = "starting" /\ stage' = "llm" /\ Emit(<<>>)
          /\ UNCHANGED <<iteration, shown, steps, answer, draft, chat, readerVars>>
        BY <1>1 DEF StartAgent, At, agentVars, Emit, IInv, Shape
    <2>. QED BY <1>0, <1>e, <2>1, RoundStep DEF Agent, Adds
<1>2. CASE Chunk
    <2>1. <<Delta>> \in Seq(Events) /\ \A k \in 1..Len(<<Delta>>) : Plain(<<Delta>>[k])
        BY DeltaEvent
    <2>2. shown' \in 0..MaxDeltas
        BY <1>0, <1>2, StreamAssumption DEF Chunk
    <2>. QED BY <1>0, <1>2, <2>1, <2>2, RoundStep DEF Chunk, At, Agent, Adds
<1>3. CASE CallTool
    <2>1. PICK tail \in Tails : Emit(tail \o <<Event("agent.tool_call", 0, None)>>)
        BY <1>3 DEF CallTool
    <2>2. /\ <<Event("agent.tool_call", 0, None)>> \in Seq(Events)
          /\ \A k \in 1..Len(<<Event("agent.tool_call", 0, None)>>) :
                Plain(<<Event("agent.tool_call", 0, None)>>[k])
        BY DEF Event, Events, Types, Notes, Plain, Verdicts
    <2>. QED BY <1>0, <1>3, <2>1, <2>2, TailEvents, RoundStep
         DEF CallTool, At, Agent, Adds
<1>4. CASE CallUnknown
    <2> DEFINE es == <<Event("agent.tool_call", 0, None),
                       Event("agent.tool_result", 0, "ok")>>
    <2>1. PICK tail \in Tails : Emit(tail \o es)
        BY <1>4 DEF CallUnknown
    <2>2. es \in Seq(Events) /\ \A k \in 1..Len(es) : Plain(es[k])
        BY StreamAssumption DEF Event, Events, Types, Notes, Plain, Verdicts
    <2>. HIDE DEF es
    <2>3. /\ NextRound /\ Adds(tail \o es)
          /\ UNCHANGED <<answer, draft, chat, readerVars>>
        BY <1>4, StreamAssumption DEF CallUnknown, Adds
    <2>4. stage = "llm"
        BY <1>4 DEF CallUnknown, At
    <2>. QED BY <1>0, <2>1, <2>2, <2>3, <2>4, TailEvents, NextRoundStays, RoundStep DEF Agent
<1>5. CASE CallGarbled
    <2>1. PICK tail \in Tails : Emit(tail)
        BY <1>5 DEF CallGarbled
    <2>2. tail \in Seq(Events) /\ \A k \in 1..Len(tail) : Plain(tail[k])
        BY TailPlain
    <2>. QED BY <1>0, <1>5, <2>1, <2>2, NextRoundStays, RoundStep
         DEF CallGarbled, At, Agent, Adds
<1>6. CASE EmptyCompletion
    <2>1. stage = "llm"
        BY <1>6 DEF EmptyCompletion, At
    <2>2. CASE Finish(<<>>, None, steps)
        BY <2>1, <2>2, FinishAtOnce DEF Agent, Written
    <2>3. CASE /\ NextRound
               /\ UNCHANGED <<seq, steps, answer, events, draft, chat, readerVars>>
        <3>1. Emit(<<>>)
            BY <2>3 DEF Emit, IInv, Shape
        <3>. QED BY <1>0, <1>e, <2>1, <2>3, <3>1, NextRoundStays, RoundStep DEF Agent, Adds
    <2>. QED BY <1>6, <2>2, <2>3 DEF EmptyCompletion
<1>7. CASE ModelFails
    BY <1>7, FinishAtOnce DEF ModelFails, At, Agent, Written
<1>8. CASE AnswerGiven
    <2>1. PICK tail \in Tails, given \in Written : Finish(tail, given, steps)
        BY <1>8 DEF AnswerGiven
    <2>2. tail \in Seq(Events) /\ Len(tail) <= 1 /\ \A k \in 1..Len(tail) : Plain(tail[k])
        BY TailPlain
    <2>3. stage = "llm"
        BY <1>8 DEF AnswerGiven, At
    <2>4. Ends(tail, given, steps)
        BY <2>1, <2>2 DEF Ends
    <2>. QED BY <2>1, <2>2, <2>3, <2>4, FinishStep DEF Agent
<1>9. CASE ToolReturns
    <2>1. stage = "tool"
        BY <1>9 DEF ToolReturns, At
    <2>2. PICK s \in Statuses :
            \/ s \in Ending /\ Finish(<<Event("agent.tool_result", 0, s)>>, "proposal",
                                      Append(steps, s))
            \/ /\ s \notin Ending /\ Emit(<<Event("agent.tool_result", 0, s)>>)
               /\ steps' = Append(steps, s) /\ NextRound
               /\ UNCHANGED <<answer, draft, chat, readerVars>>
        BY <1>9 DEF ToolReturns
    <2> DEFINE es == <<Event("agent.tool_result", 0, s)>>
    <2>3. /\ es \in Seq(Events) /\ Len(es) = 1 /\ es[1].type = "agent.tool_result"
          /\ es[1].note = s /\ (s \notin Ending => Plain(es[1]))
        BY DEF Event, Events, Types, Notes, Plain, Verdicts
    <2>5. CASE s \in Ending
        <3>1. Finish(es, "proposal", Append(steps, s))
            BY <2>2, <2>5
        <3>. HIDE DEF es
        <3>2. stage \in Agent
            BY <2>1 DEF Agent
        <3>3. /\ es \in Seq(Events) /\ Len(es) <= 1
              /\ \A k \in 1..Len(es) : es[k].type = "agent.tool_result" /\ es[k].note = s
            BY <2>3
        <3>4. Ends(es, "proposal", Append(steps, s))
            BY <2>5, <3>3 DEF Ends
        <3>. QED BY <3>1, <3>2, <3>3, <3>4, FinishStep
    <2>6. CASE s \notin Ending
        <3>1. /\ Emit(es) /\ steps' = Append(steps, s) /\ NextRound
              /\ UNCHANGED <<answer, draft, chat, readerVars>>
            BY <2>2, <2>6
        <3>. HIDE DEF es
        <3>2. Adds(es)
            BY <2>3, <2>6, <3>1 DEF Adds, Fault
        <3>. QED BY <1>0, <2>1, <2>3, <2>6, <3>1, <3>2, NextRoundStays, RoundStep DEF Agent
    <2>. QED BY <2>5, <2>6
<1>10. CASE ForcedAnswer
    BY <1>10, FinishAtOnce DEF ForcedAnswer, At, Agent
<1>11. CASE AgentFails
    BY <1>11, GiveUpStep DEF AgentFails, Agent, Notes, Texts
<1>. QED BY <1>1, <1>2, <1>3, <1>4, <1>5, <1>6, <1>7, <1>8, <1>9, <1>10, <1>11 DEF Rounds

-----------------------------------------------------------------------------
(* The steps around the agent *)

\* A step before the agent, which may put a plain event on the queue.
LEMMA OpeningStep ==
    ASSUME IInv, stage \in Early, stage' \in Early,
           NEW es \in Seq(Events), events' = events \o es,
           \A k \in 1..Len(es) : Plain(es[k]),
           Stored', UNCHANGED <<agentVars, answer, readerVars>>
    PROVE  IInv'
<1>1. Grows(es)
    BY PutGrows DEF IInv
<1>2. taken' \in 0..Len(events')
    BY <1>1 DEF IInv, Shape, Grows, readerVars
<1>3. Shape'
    BY <1>1, <1>2 DEF IInv, Shape, Stages, Early, Agent, Grows, readerVars, agentVars
<1>4. QueueInv' /\ Settled'
    BY <1>1, StillEarly DEF IInv
<1>5. StepsInv'
    BY <1>1, StepsGrow DEF IInv, Adds, agentVars
<1>. QED BY <1>3, <1>4, <1>5 DEF IInv

\* The answer is there without the agent.
LEMMA AnsweredStep ==
    ASSUME IInv, stage \in Early, stage' = "compose", answer' \in Notes, Stored',
           UNCHANGED <<agentVars, events, readerVars>>
    PROVE  IInv'
<1>1. Shape'
    BY DEF IInv, Shape, Stages, readerVars, agentVars
<1>2. <<>> \in Seq(Events) /\ Grows(<<>>) /\ \A k \in 1..Len(<<>>) : FALSE
    BY DEF IInv, Shape, Grows
<1>3. QueueInv' /\ Settled'
    BY <1>2, EarlyToLate DEF IInv, Late
<1>4. StepsInv'
    BY DEF StepsInv, Early, Agent
<1>. QED BY <1>1, <1>3, <1>4 DEF IInv

\* A step with the answer fixed, which says nothing.
LEMMA LateStep ==
    ASSUME IInv, stage \in Late, stage' \in Late, Stored',
           UNCHANGED <<agentVars, answer, events, readerVars>>
    PROVE  IInv'
<1>1. Shape'
    BY DEF IInv, Shape, Stages, Late, readerVars, agentVars
<1>2. stage' \notin Early /\ \A k \in 1..Len(events) : events[k].type \notin Verdicts
    BY DEF Early, Late, Agent, IInv, QueueInv
<1>3. DOMAIN events = 1..Len(events)
    BY DEF IInv, Shape
<1>4. QueueInv' /\ Settled'
    BY <1>2, <1>3 DEF IInv, QueueInv, Holds, Claims, Settled, ReportedAsStored,
                      VerdictIsLast, Verdicts
<1>5. StepsInv'
    BY <1>2 DEF StepsInv
<1>. QED BY <1>1, <1>4, <1>5 DEF IInv

\* The end of the pipeline task, whatever it still says.
LEMMA OverStep ==
    ASSUME IInv, stage # "over", stage' = "over",
           NEW es \in Seq(Events), events' = events \o es, Closing(es),
           Stored', UNCHANGED <<agentVars, answer, readerVars>>
    PROVE  IInv'
<1>1. Grows(es)
    BY PutGrows DEF IInv
<1>2. taken' \in 0..Len(events')
    BY <1>1 DEF IInv, Shape, Grows, readerVars
<1>3. Shape'
    BY <1>1, <1>2 DEF IInv, Shape, Stages, Grows, readerVars, agentVars
<1>4. QueueInv' /\ Settled'
    BY <1>1, ToOver DEF IInv
<1>5. StepsInv'
    BY DEF StepsInv, Early, Agent
<1>. QED BY <1>3, <1>4, <1>5 DEF IInv

\* A broken transaction leaves the chat with all of the turn or with nothing.
LEMMA BrokenOff ==
    ASSUME IInv, stage # "over", chat' \in Outcomes, draft' = {}, stage' = "over"
    PROVE  Stored'
<1>1. chat' \in {{}, {"user", "assistant"}}
    BY DEF IInv, Stored, Outcomes
<1>. QED BY <1>1 DEF Stored, Agent

LEMMA PipelineStep == IInv /\ Pipeline => IInv'
<1>. SUFFICES ASSUME IInv, Pipeline PROVE IInv'
    OBVIOUS
<1>0. answer \in Notes /\ events \in Seq(Events) /\ stage \in Stages
    BY DEF IInv, Shape
<1>1. CASE Accept
    <2> DEFINE es == <<Event("accepted", 0, None)>>
    <2>1. es \in Seq(Events) /\ \A k \in 1..Len(es) : Plain(es[k])
        BY DEF Event, Events, Types, Notes, Plain, Verdicts
    <2>2. events' = events \o es
        BY <1>0, <1>1 DEF Accept, Tell
    <2>3. stage \in Early /\ stage' \in Early /\ Stored'
        BY <1>1 DEF Accept, At, Early, Agent, IInv, Stored
    <2>. HIDE DEF es
    <2>. QED BY <1>1, <2>1, <2>2, <2>3, OpeningStep DEF Accept
<1>2. CASE Prepare
    <2>1. stage = "prepare" /\ draft' = {"user"} /\ chat' = chat /\ chat = {}
          /\ UNCHANGED <<agentVars, readerVars>>
        BY <1>2 DEF Prepare, At, IInv, Stored
    <2>2. CASE stage' = "execute" /\ UNCHANGED <<answer, events>>
        <3>1. events' = events \o <<>> /\ <<>> \in Seq(Events) /\ Len(<<>>) = 0
            BY <1>0, <2>2
        <3>2. stage \in Early /\ stage' \in Early /\ Stored'
            BY <2>1, <2>2 DEF Early, Agent, Stored
        <3>3. \A k \in 1..Len(<<>>) : Plain(<<>>[k])
            OBVIOUS
        <3>. QED BY <2>1, <2>2, <3>1, <3>2, <3>3, OpeningStep
    <2>3. CASE stage' = "compose" /\ answer' = "patched" /\ UNCHANGED events
        <3>1. stage \in Early /\ answer' \in Notes /\ Stored'
            BY <2>1, <2>3 DEF Early, Agent, Stored, Notes, Texts
        <3>. QED BY <2>1, <2>3, <3>1, AnsweredStep
    <2>4. CASE stage' = "history" /\ events' = Tell("pipeline.mode", None) /\ answer' = answer
        <3> DEFINE es == <<Event("pipeline.mode", 0, None)>>
        <3>1. es \in Seq(Events) /\ \A k \in 1..Len(es) : Plain(es[k])
            BY DEF Event, Events, Types, Notes, Plain, Verdicts
        <3>2. events' = events \o es
            BY <1>0, <2>4 DEF Tell
        <3>3. stage \in Early /\ stage' \in Early /\ Stored'
            BY <2>1, <2>4 DEF Early, Agent, Stored
        <3>. HIDE DEF es
        <3>. QED BY <2>1, <2>4, <3>1, <3>2, <3>3, OpeningStep
    <2>. QED BY <1>2, <2>2, <2>3, <2>4 DEF Prepare
<1>3. CASE Execute
    <2>1. stage \in Early /\ answer' \in Notes /\ Stored'
        BY <1>3 DEF Execute, At, Early, Agent, IInv, Stored, Notes, Texts
    <2>. QED BY <1>3, <2>1, AnsweredStep DEF Execute
<1>4. CASE LoadHistory
    <2> DEFINE es == <<Event("agent.started", 0, None)>>
    <2>1. es \in Seq(Events) /\ \A k \in 1..Len(es) : Plain(es[k])
        BY DEF Event, Events, Types, Notes, Plain, Verdicts
    <2>2. Emit(es) /\ stage = "history" /\ stage' = "starting"
          /\ UNCHANGED <<iteration, shown, steps, answer, draft, chat, readerVars>>
        BY <1>4 DEF LoadHistory, At
    <2>3. iteration \in 0..(MaxIterations - 1) /\ shown \in 0..MaxDeltas
          /\ steps \in Seq(Statuses)
        BY DEF IInv, Shape
    <2>. HIDE DEF es
    <2>. QED BY <2>1, <2>2, <2>3, RoundStep DEF Agent, Adds
<1>5. CASE Compose
    <2>1. stage \in Late /\ stage' \in Late /\ Stored'
        BY <1>5 DEF Compose, At, Late, Agent, IInv, Stored
    <2>. QED BY <1>5, <2>1, LateStep DEF Compose
<1>6. CASE Commit
    <2>1. stage \in Late /\ stage' \in Late /\ Stored'
        BY <1>6 DEF Commit, At, Late, Agent, IInv, Stored
    <2>. QED BY <1>6, <2>1, LateStep DEF Commit
<1>7. CASE Report
    <2> DEFINE told == <<Event("result", 0, answer), End>>
               patch == Event("form_patch", 0, None)
               patched == <<patch, Event("result", 0, answer), End>>
    <2>1. Event("result", 0, answer) \in Events /\ End \in Events /\ patch \in Events
        BY <1>0 DEF Event, End, Events, Types, Notes
    <2>2. stage = "report" /\ stage' = "over" /\ chat' = {"user", "assistant"} /\ Stored'
        BY <1>7 DEF Report, At, IInv, Stored, Agent
    <2>3. UNCHANGED <<agentVars, answer, readerVars>>
        BY <1>7 DEF Report
    <2>4. /\ told \in Seq(Events) /\ Len(told) = 2
          /\ told[1].type = "result" /\ told[1].note = answer /\ told[2].type = "end"
        BY <2>1 DEF Event, End
    <2>5. /\ patched \in Seq(Events) /\ Len(patched) = 3 /\ patched[1].type = "form_patch"
          /\ patched[2].type = "result" /\ patched[2].note = answer /\ patched[3].type = "end"
        BY <2>1 DEF Event, End
    <2>6. events' = events \o told \/ events' = events \o patched
        <3>1. events' = events \o told \/ events' = Append(events, patch) \o told
            BY <1>7 DEF Report, Tell
        <3>2. Append(events, patch) \o told = events \o patched
            <4>. HIDE DEF patch
            <4>. QED BY <1>0, <2>1
        <3>. QED BY <3>1, <3>2
    <2>. HIDE DEF told, patched
    <2>7. CASE events' = events \o told
        <3>1. Closing(told)
            BY <2>2, <2>4 DEF Closing, Quiet, Verdicts
        <3>. QED BY <2>2, <2>3, <2>4, <2>7, <3>1, OverStep
    <2>8. CASE events' = events \o patched
        <3>1. Closing(patched)
            BY <2>2, <2>5 DEF Closing, Quiet, Verdicts
        <3>. QED BY <2>2, <2>3, <2>5, <2>8, <3>1, OverStep
    <2>. QED BY <2>6, <2>7, <2>8
<1>8. CASE Fails
    <2> DEFINE es == <<Event("error", 0, None), End>>
    <2>1. Event("error", 0, None) \in Events /\ End \in Events
        BY DEF Event, End, Events, Types, Notes
    <2>2. events' = events \o es
        <3>1. events' = Append(events, Event("error", 0, None)) \o <<End>>
            BY <1>8 DEF Fails, Tell
        <3>. QED BY <1>0, <2>1, <3>1
    <2>3. es \in Seq(Events) /\ Len(es) = 2 /\ es[1].type = "error" /\ es[2].type = "end"
        BY <2>1 DEF Event, End
    <2>4. /\ stage # "over" /\ stage' = "over" /\ Stored'
          /\ UNCHANGED <<agentVars, answer, readerVars>>
        BY <1>8, BrokenOff DEF Fails
    <2>. HIDE DEF es
    <2>5. Closing(es)
        BY <2>3 DEF Closing, Quiet, Verdicts
    <2>. QED BY <2>2, <2>3, <2>4, <2>5, OverStep
<1>9. CASE Cancelled
    <2> DEFINE es == <<End>>
    <2>1. es \in Seq(Events) /\ Len(es) = 1 /\ es[1].type = "end"
        BY DEF Event, End, Events, Types, Notes
    <2>2. events' = events \o es
        BY <1>0, <1>9 DEF Cancelled
    <2>3. /\ stage # "over" /\ stage' = "over" /\ Stored'
          /\ UNCHANGED <<agentVars, answer, readerVars>>
        BY <1>9, BrokenOff DEF Cancelled
    <2>. HIDE DEF es
    <2>4. Closing(es)
        BY <2>1 DEF Closing, Quiet, Verdicts
    <2>. QED BY <2>1, <2>2, <2>3, <2>4, OverStep
<1>. QED BY <1>1, <1>2, <1>3, <1>4, <1>5, <1>6, <1>7, <1>8, <1>9 DEF Pipeline

\* The reader leaves the pipeline's part of the state alone.
LEMMA ReaderStep ==
    ASSUME IInv, UNCHANGED <<stage, agentVars, answer, events, draft, chat>>,
           taken' \in 0..Len(events), cancelled' \in BOOLEAN, here' \in BOOLEAN,
           reader' \in {"serving", "closing", "closed"}
    PROVE  IInv'
<1>1. Shape' /\ Stored'
    BY DEF IInv, Shape, Stored, agentVars
<1>2. QueueInv' /\ Settled'
    BY DEF IInv, QueueInv, Holds, Claims, Settled, ReportedAsStored, VerdictIsLast
<1>3. StepsInv'
    BY DEF IInv, StepsInv, agentVars
<1>. QED BY <1>1, <1>2, <1>3 DEF IInv

LEMMA IInvStep == IInv /\ [Next]_vars => IInv'
<1>. SUFFICES ASSUME IInv, [Next]_vars PROVE IInv'
    OBVIOUS
<1>0. taken \in 0..Len(events) /\ Len(events) \in Nat /\ cancelled \in BOOLEAN
      /\ here \in BOOLEAN /\ reader \in {"serving", "closing", "closed"}
    BY DEF IInv, Shape
<1>1. CASE Rounds
    BY <1>1, RoundsStep
<1>2. CASE Deadline
    BY <1>2, GiveUpStep DEF Deadline, Notes, Texts
<1>3. CASE Pipeline
    BY <1>3, PipelineStep
<1>4. CASE Deliver
    <2>1. taken' \in 0..Len(events)
        BY <1>0, <1>4 DEF Deliver
    <2>2. cancelled' \in BOOLEAN /\ reader' \in {"serving", "closing", "closed"}
        BY <1>0, <1>4 DEF Deliver, Stop
    <2>. QED BY <1>0, <1>4, <2>1, <2>2, ReaderStep DEF Deliver
<1>5. CASE Leave
    BY <1>0, <1>5, ReaderStep DEF Leave
<1>6. CASE Disconnect
    BY <1>0, <1>6, ReaderStep DEF Disconnect, Stop
<1>7. CASE Close
    BY <1>0, <1>7, ReaderStep DEF Close
<1>8. CASE UNCHANGED vars
    BY <1>0, <1>8, ReaderStep DEF vars, readerVars
<1>. QED BY <1>1, <1>2, <1>3, <1>4, <1>5, <1>6, <1>7, <1>8 DEF Next

-----------------------------------------------------------------------------
(* The theorems *)

LEMMA Safe == Spec => []IInv
BY InitIInv, IInvStep, PTL DEF Spec

\* The types, and no half of a turn in the chat: the commit of process_input_core
\* is the only one, after both messages are appended.
THEOREM TypeCorrect == Spec => []TypeOK
<1>1. IInv => TypeOK
    BY DEF IInv, Shape, Stored, TypeOK, Events
<1>. QED BY <1>1, Safe, PTL

\* Whatever the agent does and whenever the turn is broken off, a result is told
\* only of a turn that is committed, and with the answer that is committed.
THEOREM ResultStored == Spec => []ReportedAsStored
<1>1. IInv => ReportedAsStored
    BY DEF IInv, Settled
<1>. QED BY <1>1, Safe, PTL

\* A stream has at most one verdict, and it is the last event of the queue: the
\* generator, which stops at it, loses nothing.
THEOREM VerdictLast == Spec => []VerdictIsLast
<1>1. IInv => VerdictIsLast
    BY DEF IInv, Settled
<1>. QED BY <1>1, Safe, PTL

\* No number of rounds and no deadline lets a proposal be followed by another tool call
\* or be replaced by another text, but contacts by the failure of a call before them.
THEOREM ProposalStands == Spec => []ProposalEndsTurn
<1>1. IInv => ProposalEndsTurn
    BY DEF IInv, Shape, QueueInv, Holds, Claims, Fault, Quiet, ProposalEndsTurn
<1>. QED BY <1>1, Safe, PTL

\* What answer.done announced is what the turn ends with, unless it is machine output
\* or a call of the turn has failed, however many rounds there were since.
THEOREM AnswerStands == Spec => []AnnouncedAnswerStands
<1>1. IInv => AnnouncedAnswerStands
    BY DEF IInv, Shape, QueueInv, Holds, Claims, Fault, AnnouncedAnswerStands
<1>. QED BY <1>1, Safe, PTL

-----------------------------------------------------------------------------
(* After the stop *)

\* The generator does not leave its loop behind the back of a running task.
Stopped == reader # "serving" => cancelled \/ stage = "over"

\* Whatever the pipeline does, it does while the task is not cancelled, but to end.
LEMMA Running ==
    ASSUME Rounds \/ Deadline \/ Pipeline
    PROVE  /\ (~cancelled /\ stage # "over") \/ stage' = "over"
           /\ stage # "over" /\ UNCHANGED readerVars
           /\ cancelled /\ stage # "commit" => chat' = chat
<1>1. CASE Rounds
    BY <1>1 DEF Rounds, StartAgent, Chunk, CallTool, CallUnknown, CallGarbled,
        EmptyCompletion, ModelFails, AnswerGiven, ToolReturns, ForcedAnswer, AgentFails,
        At, Finish, GiveUp
<1>2. CASE Deadline
    BY <1>2 DEF Deadline, GiveUp, Agent
<1>3. CASE Pipeline
    <2>1. CASE Accept \/ Prepare \/ Execute \/ LoadHistory \/ Compose \/ Commit \/ Report
        BY <2>1 DEF Accept, Prepare, Execute, LoadHistory, Compose, Commit, Report, At
    <2>2. CASE Fails \/ Cancelled
        BY <2>2 DEF Fails, Cancelled, Outcomes
    <2>. QED BY <1>3, <2>1, <2>2 DEF Pipeline
<1>. QED BY <1>1, <1>2, <1>3

LEMMA StoppedStep == Stopped /\ [Next]_vars => Stopped'
<1>. SUFFICES ASSUME Stopped, [Next]_vars PROVE Stopped'
    OBVIOUS
<1>1. CASE Rounds \/ Deadline \/ Pipeline
    BY <1>1, Running DEF Stopped, readerVars
<1>2. CASE Deliver \/ Disconnect
    BY <1>2 DEF Deliver, Disconnect, Stop, Stopped
<1>3. CASE Leave \/ Close
    BY <1>3 DEF Leave, Close, Stopped
<1>4. CASE UNCHANGED vars
    BY <1>4 DEF vars, readerVars, Stopped
<1>. QED BY <1>1, <1>2, <1>3, <1>4 DEF Next

\* A turn whose reader is gone starts no round, no tool call and no commit: the task
\* is cancelled or over by then, at whichever await it stands.
THEOREM NothingBegun == Spec => NothingBegunAfterStop
<1>1. Init => Stopped
    BY DEF Init, Stopped
<1>2. ASSUME Stopped, [Next]_vars
      PROVE  [reader # "serving" => stage' \in {stage, "over"}
                                     /\ (stage # "commit" => chat' = chat)]_vars
    <2>1. CASE Rounds \/ Deadline \/ Pipeline
        BY <1>2, <2>1, Running DEF Stopped
    <2>2. CASE Deliver \/ Leave \/ Disconnect \/ Close
        BY <2>2 DEF Deliver, Leave, Disconnect, Close
    <2>. QED BY <1>2, <2>1, <2>2 DEF Next
<1>. QED BY <1>1, <1>2, StoppedStep, PTL DEF Spec, NothingBegunAfterStop
=============================================================================
