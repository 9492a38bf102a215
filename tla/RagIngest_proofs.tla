--------------------------- MODULE RagIngest_proofs ---------------------------
(***************************************************************************)
(* What the watermark of an ingest stands for, for any records, sizes of   *)
(* pages and batches, limits, and any number of ingests at once.           *)
(*                                                                         *)
(* The argument accounts for each dated record the store does not have as  *)
(* the CRM has it: an ingest under way has it in its hands or will list it *)
(* and take it, or it is at least as new as anything the store will get    *)
(* from what is read so far (Accounted).  A record saved meanwhile goes to *)
(* the front of the list, where it is the newest; the others only move     *)
(* back, behind the offset (MovesBack); and a page that is the last one    *)
(* has none behind it that is due (ListTakes), since positions in the list *)
(* leave no gap (RankOnto).                                                *)
(***************************************************************************)
EXTENDS RagIngest, Sorting_proofs

-----------------------------------------------------------------------------
(* Types *)

Version == [ver : Nat, at : Nat]
Stages == AtRest \union {"scan", "list", "compare", "write"}
Todos == UNION {[S -> Version] : S \in SUBSET Records}
Job == [size : Nat, mark : Nat, offset : Nat, left : Int \union {None}, todo : Todos,
        last : BOOLEAN]

\* What an ingest's local variables are at each stage.
Fits(stage, j, time) ==
    /\ stage \in AtRest => j = NoJob
    /\ stage \in {"scan", "list"} => DOMAIN j.todo = {} /\ ~j.last
    /\ stage = "scan" => j.mark = 0 /\ j.offset = 0
    /\ stage \in {"compare", "write"} => j.offset > 0
    /\ j.mark <= time
    /\ \A r \in DOMAIN j.todo : j.todo[r].at <= time

TypeInv ==
    /\ now \in Nat \ {0}
    /\ crm \in [Records -> {None, Gone} \union Version]
    /\ \A r \in Present : crm[r].at <= now /\ (crm[r].at = 0 <=> r \in Undated)
    /\ store \in [Records -> {None} \union Version]
    /\ \A r \in Records : store[r] # None => store[r].at <= now
    /\ job \in [Ingests -> Job] /\ pc \in [Ingests -> Stages]
    /\ \A i \in Ingests : Fits(pc[i], job[i], now)
    /\ whole \in BOOLEAN /\ IsFiniteSet(Running)

-----------------------------------------------------------------------------
(* The list and the watermark *)

Order == {p \in Present \X Present : Before(p[1], crm[p[1]], p[2], crm[p[2]])}

LEMMA PresentType ==
    ASSUME TypeInv
    PROVE  /\ IsFiniteSet(Present) /\ Present \subseteq Records
           /\ \A r \in Present : crm[r] \in Version /\ crm[r].at \in Nat /\ r \in Nat
<1>1. IsFiniteSet(Present) /\ Present \subseteq Records
    BY IngestAssumption, FS_Subset DEF Present
<1>2. ASSUME NEW r \in Present
      PROVE  crm[r] \in Version /\ crm[r].at \in Nat /\ r \in Nat
    BY <1>2, IngestAssumption DEF TypeInv, Present, Version
<1>. QED BY <1>1, <1>2

\* The order of the list is total, and a record's position is its rank.
LEMMA ListOrder ==
    ASSUME TypeInv
    PROVE  /\ StrictTotal(Order, Present)
           /\ \A r \in Present : Position(r) = Rank(Order, Present, r)
<1>1. \A r, s \in Present : <<r, s>> \in Order <=> Before(r, crm[r], s, crm[s])
    BY DEF Order
<1>2. \A r \in Present : crm[r].at \in Nat /\ r \in Nat
    BY PresentType
<1>3. StrictTotal(Order, Present)
    BY <1>1, <1>2 DEF StrictTotal, Before
<1>4. ASSUME NEW r \in Present
      PROVE  Ahead(Order, Present, r) = {s \in Present : Before(s, crm[s], r, crm[r])}
    BY <1>1 DEF Ahead
<1>. QED BY <1>3, <1>4 DEF Rank, Position

\* Positions are numbers without a gap, and a newer record's is smaller.
LEMMA Positions ==
    ASSUME TypeInv
    PROVE  /\ \A r \in Present : Position(r) \in Nat
           /\ \A r, s \in Present : crm[r].at > crm[s].at => Position(r) < Position(s)
           /\ \A r \in Present : \A n \in 0..Position(r) : \E s \in Present : Position(s) = n
<1>1. IsFiniteSet(Present) /\ \A r \in Present : crm[r].at \in Nat
    BY PresentType
<1>2. StrictTotal(Order, Present) /\ \A r \in Present : Position(r) = Rank(Order, Present, r)
    BY ListOrder
<1>3. Cardinality(Present) \in Nat
    BY <1>1, FS_CardinalityType
<1>4. \A r \in Present : Position(r) \in 0..(Cardinality(Present) - 1)
    BY <1>1, <1>2, RankBounds
<1>5. ASSUME NEW r \in Present, NEW s \in Present, crm[r].at > crm[s].at
      PROVE  Position(r) < Position(s)
    <2>1. <<r, s>> \in Order
        BY <1>5 DEF Order, Before
    <2>. QED BY <1>1, <1>2, <2>1, RankGrows
<1>6. ASSUME NEW r \in Present, NEW n \in 0..Position(r)
      PROVE  \E s \in Present : Position(s) = n
    <2>1. n \in 0..(Cardinality(Present) - 1)
        BY <1>3, <1>4
    <2>. QED BY <1>1, <1>2, <2>1, RankOnto
<1>. QED BY <1>3, <1>4, <1>5, <1>6

\* The page of a record with records behind the page is full.
LEMMA PageFull ==
    ASSUME TypeInv, NEW offset \in Nat, NEW size \in Nat \ {0},
           NEW r \in Present, Position(r) >= offset + size
    PROVE  Cardinality(Page(offset, size)) = size
<1> DEFINE P == Page(offset, size)
           T == offset..(offset + size - 1)
           f == [s \in P |-> Position(s)]
<1>1. IsFiniteSet(T) /\ Cardinality(T) = size
    BY FS_Interval
<1>2. P \subseteq Present /\ IsFiniteSet(P)
    <2>1. P \in SUBSET Present
        BY DEF Page
    <2>. QED BY <2>1, PresentType, FS_Subset
<1>3. f \in [P -> T]
    BY DEF Page
<1>4. ASSUME NEW n \in T
      PROVE  \E s \in P : f[s] = n
    <2>1. n \in 0..Position(r)
        BY Positions
    <2>2. PICK s \in Present : Position(s) = n
        BY <2>1, Positions
    <2>3. s \in P
        BY <2>2 DEF Page
    <2>. QED BY <2>2, <2>3
<1>5. ASSUME NEW s \in P, NEW t \in P, s # t
      PROVE  f[s] # f[t]
    <2>1. s \in Present /\ t \in Present
        BY <1>2
    <2>2. Rank(Order, Present, s) # Rank(Order, Present, t)
        <3>1. /\ Rank(Order, Present, s) < Rank(Order, Present, t)
              \/ Rank(Order, Present, t) < Rank(Order, Present, s)
            BY <1>5, <2>1, PresentType, ListOrder, RankGrows DEF StrictTotal
        <3>2. /\ Rank(Order, Present, s) \in Nat
              /\ Rank(Order, Present, t) \in Nat
            BY <2>1, ListOrder, Positions
        <3>. QED BY <3>1, <3>2
    <2>. QED BY <2>1, <2>2, ListOrder
<1>6. f \in Injection(P, T) /\ f \in Surjection(P, T)
    <2>. HIDE DEF f, P, T
    <2>. QED BY <1>3, <1>4, <1>5 DEF Injection, IsInjective, Surjection
<1>7. Cardinality(P) = Cardinality(T)
    <2>. HIDE DEF f, P, T
    <2>. QED BY <1>1, <1>6, FS_Injection
<1>. QED BY <1>1, <1>7

\* Nothing is behind the place where a page is empty.
LEMMA PageEmpty ==
    ASSUME TypeInv, NEW offset \in Nat, Page(offset, 1) = {}, NEW r \in Present
    PROVE  Position(r) < offset
<1>. SUFFICES ASSUME Position(r) >= offset PROVE FALSE
    BY Positions
<1>1. PICK s \in Present : Position(s) = offset
    <2>1. offset \in 0..Position(r)
        BY Positions
    <2>. QED BY <2>1, Positions
<1>2. s \in Page(offset, 1)
    BY <1>1 DEF Page
<1>. QED BY <1>2

\* The watermark is the newest time among the points, 0 without one.
LEMMA WatermarkOf ==
    ASSUME NEW points \in [Records -> {None} \union Version], NEW n \in Nat,
           \A r \in Records : points[r] # None => points[r].at <= n
    PROVE  /\ Watermark(points) \in Nat /\ Watermark(points) <= n
           /\ \A r \in Records : points[r] # None => points[r].at <= Watermark(points)
           /\ \/ Watermark(points) = 0
              \/ \E r \in Records : points[r] # None /\ points[r].at = Watermark(points)
<1> DEFINE stored == {s \in Records : points[s] # None}
           times == {points[r].at : r \in stored} \union {0}
<1>1. \A r \in stored : points[r].at \in Nat /\ points[r].at <= n
    BY DEF Version
<1>2. times \in SUBSET Nat /\ times # {} /\ \A t \in times : t <= n
    BY <1>1
<1>3. \E m \in times : \A k \in times : k <= m
    <2>. HIDE DEF times
    <2>. QED BY <1>2, LargestExists
<1>4. Watermark(points) \in times /\ \A u \in times : u <= Watermark(points)
    BY <1>3 DEF Watermark
<1>. QED BY <1>1, <1>2, <1>4

\* The store's watermark is no later than the clock.
LEMMA WatermarkNewest ==
    ASSUME TypeInv
    PROVE  /\ Watermark(store) \in Nat /\ Watermark(store) <= now
           /\ \A r \in Records : store[r] # None => store[r].at <= Watermark(store)
           /\ \/ Watermark(store) = 0
              \/ \E r \in Records : store[r] # None /\ store[r].at = Watermark(store)
BY WatermarkOf DEF TypeInv

-----------------------------------------------------------------------------
(* Jobs *)

LEMMA TodoTypes ==
    /\ <<>> \in Todos /\ DOMAIN <<>> = {}
    /\ \A todo \in Todos :
        /\ DOMAIN todo \subseteq Records
        /\ \A r \in DOMAIN todo : todo[r] \in Version
        /\ \A S \in SUBSET DOMAIN todo : [r \in S |-> todo[r]] \in Todos
<1>1. DOMAIN <<>> = {}
    OBVIOUS
<1>2. <<>> \in Todos
    <2>1. <<>> \in [{} -> Version]
        BY <1>1
    <2>. QED BY <2>1 DEF Todos
<1>3. ASSUME NEW todo \in Todos
      PROVE  /\ DOMAIN todo \subseteq Records
             /\ \A r \in DOMAIN todo : todo[r] \in Version
             /\ \A S \in SUBSET DOMAIN todo : [r \in S |-> todo[r]] \in Todos
    <2>1. PICK D \in SUBSET Records : todo \in [D -> Version]
        BY DEF Todos
    <2>2. ASSUME NEW S \in SUBSET DOMAIN todo
          PROVE  [r \in S |-> todo[r]] \in Todos
        <3>1. [r \in S |-> todo[r]] \in [S -> Version] /\ S \in SUBSET Records
            BY <2>1
        <3>. QED BY <3>1 DEF Todos
    <2>. QED BY <2>1, <2>2
<1>. QED BY <1>1, <1>2, <1>3

LEMMA NoJobType ==
    /\ NoJob \in Job
    /\ \A left \in Int \union {None}, size \in Nat :
        [NoJob EXCEPT !.left = left, !.size = size] \in Job
BY TodoTypes DEF NoJob, Job

\* One ingest goes to a stage with a job that fits.
LEMMA JobStep ==
    ASSUME TypeInv, NEW i \in Ingests, NEW stage \in Stages, NEW j \in Job,
           pc' = [pc EXCEPT ![i] = stage], job' = [job EXCEPT ![i] = j],
           now' \in Nat, now <= now', Fits(stage, j, now')
    PROVE  /\ job' \in [Ingests -> Job] /\ pc' \in [Ingests -> Stages]
           /\ \A k \in Ingests : Fits(pc'[k], job'[k], now')
           /\ IsFiniteSet(Running')
           /\ pc'[i] = stage /\ job'[i] = j
           /\ \A k \in Ingests \ {i} : pc'[k] = pc[k] /\ job'[k] = job[k]
           /\ Running' = IF stage \in AtRest THEN Running \ {i} ELSE Running \union {i}
<1>1. /\ job' \in [Ingests -> Job] /\ pc' \in [Ingests -> Stages]
      /\ pc'[i] = stage /\ job'[i] = j
      /\ \A k \in Ingests \ {i} : pc'[k] = pc[k] /\ job'[k] = job[k]
    BY DEF TypeInv
<1>2. Running' = IF stage \in AtRest THEN Running \ {i} ELSE Running \union {i}
    BY <1>1 DEF Running
<1>3. IsFiniteSet(Running')
    BY <1>2, FS_AddElement, FS_RemoveElement DEF TypeInv
<1>4. ASSUME NEW k \in Ingests \ {i}
      PROVE  Fits(pc'[k], job'[k], now')
    <2>1. Fits(pc[k], job[k], now) /\ job[k] \in Job
        BY DEF TypeInv
    <2>2. \A r \in DOMAIN job[k].todo : job[k].todo[r].at \in Nat
        BY <2>1, TodoTypes DEF Job, Version
    <2>3. job[k].mark \in Nat /\ now \in Nat
        BY <2>1 DEF Job, TypeInv
    <2>. QED BY <1>1, <2>1, <2>2, <2>3 DEF Fits
<1>5. Fits(pc'[i], job'[i], now')
    BY <1>1
<1>. QED BY <1>1, <1>2, <1>3, <1>4, <1>5

-----------------------------------------------------------------------------
(* The invariant *)

\* Nothing the store or an ingest holds is newer than the record.
Newest(r) ==
    /\ \A s \in Records : store[s] # None => store[s].at <= crm[r].at
    /\ \A k \in Ingests : job[k].mark <= crm[r].at
    /\ \A k \in Ingests : \A s \in DOMAIN job[k].todo : job[k].todo[s].at <= crm[r].at

\* An ingest holds the record as the CRM has it, or will list it and take it.
Has(k, r) == r \in DOMAIN job[k].todo /\ job[k].todo[r] = crm[r]

Takes(k, r) ==
    /\ pc[k] \in {"list", "compare", "write"} /\ ~job[k].last
    /\ Position(r) >= job[k].offset
    /\ job[k].mark = 0 \/ crm[r].at >= job[k].mark

\* The ingests to rely on.  In a store that was whole, one that has listed nothing yet
\* can have hidden nothing: without the others it may fail and leave the store whole.
Counting == IF whole THEN {k \in Running : job[k].offset > 0} ELSE Running

\* Every dated record is stored, as new as anything known, or on its way.
Accounted ==
    clean # {} => \A r \in Present \ Undated :
        store[r] = crm[r] \/ Newest(r) \/ \E k \in Counting : Has(k, r) \/ Takes(k, r)

\* While no ingest has listed anything, what is not stored is not behind the watermark.
Untouched ==
    whole /\ (\A k \in Running : job[k].offset = 0) =>
        \A r \in Present \ Undated : store[r] = crm[r] \/ crm[r].at >= Watermark(store)

\* An old version in an ingest's hands is one of the newest record (or an undated one).
Stale ==
    clean # {} => \A k \in Running : \A r \in DOMAIN job[k].todo :
        r \in Present /\ (job[k].todo[r] = crm[r] \/ r \in Undated \/ Newest(r))

\* Without edits an ingest holds what the CRM has.
Calm == \A k \in calm : \A r \in DOMAIN job[k].todo : job[k].todo[r] = crm[r]

\* Two ingests overlap undisturbed only while nobody edits.
Together ==
    /\ clean \in {{}, Running} /\ calm \subseteq Running
    /\ clean # {} => \A j, k \in Running : j # k => j \in calm

\* Each undisturbed ingest can be relied on for all that its watermark lets it take.
Sure ==
    \A k \in clean \intersect calm : pc[k] # "scan" =>
        \A r \in Present : job[k].mark = 0 \/ crm[r].at >= job[k].mark =>
            store[r] = crm[r] \/ Has(k, r) \/ Takes(k, r)

Inv ==
    /\ TypeInv /\ Accounted /\ Untouched /\ Stale /\ Calm /\ Together /\ Sure

LEMMA InitInv == Init => Inv
<1>. SUFFICES ASSUME Init PROVE Inv
    OBVIOUS
<1>1. Present = {} /\ Running = {}
    BY DEF Init, Present, Running, AtRest
<1>2. TypeInv
    <2>1. \A i \in Ingests : Fits(pc[i], job[i], now)
        BY TodoTypes DEF Init, Fits, NoJob, AtRest
    <2>2. job \in [Ingests -> Job] /\ pc \in [Ingests -> Stages]
        BY NoJobType DEF Init, Stages, AtRest
    <2>. QED BY <1>1, <2>1, <2>2, FS_EmptySet DEF Init, TypeInv
<1>. QED BY <1>1, <1>2 DEF Init, Inv, Accounted, Untouched, Stale, Calm, Together, Sure

-----------------------------------------------------------------------------
(* The CRM *)

\* A record stays where it is or moves back while what is ahead of it stays there.
LEMMA MovesBack ==
    ASSUME TypeInv, TypeInv', NEW r \in Present, r \in Present',
           \A s \in Present : Before(s, crm[s], r, crm[r]) =>
               s \in Present' /\ Before(s, crm'[s], r, crm'[r])
    PROVE  Position(r) <= Position(r)'
<1> DEFINE A == {s \in Present : Before(s, crm[s], r, crm[r])}
           B == {s \in Present : Before(s, crm[s], r, crm[r])}'
<1>1. IsFiniteSet(A) /\ IsFiniteSet(B)
    <2>1. A \in SUBSET Records /\ B \in SUBSET Records
        BY DEF Present
    <2>. QED BY <2>1, IngestAssumption, FS_Subset
<1>2. A \in SUBSET B
    BY DEF Before
<1>3. Cardinality(A) <= Cardinality(B)
    <2>. HIDE DEF A, B
    <2>. QED BY <1>1, <1>2, FS_Subset
<1>. QED BY <1>3 DEF Position

LEMMA TickStep == ASSUME Inv, Tick PROVE Inv'
<1>1. UNCHANGED <<crm, store, pc, job, whole, clean, calm>> /\ now' = now + 1
    BY DEF Tick
<1>2. TypeInv'
    <2>1. \A i \in Ingests : Fits(pc'[i], job'[i], now')
        <3>. SUFFICES ASSUME NEW i \in Ingests PROVE Fits(pc'[i], job'[i], now')
            OBVIOUS
        <3>1. Fits(pc[i], job[i], now) /\ job[i] \in Job
            BY DEF Inv, TypeInv
        <3>2. \A r \in DOMAIN job[i].todo : job[i].todo[r].at \in Nat
            BY <3>1, TodoTypes DEF Job, Version
        <3>3. job[i].mark \in Nat /\ now \in Nat
            BY <3>1 DEF Job, Inv, TypeInv
        <3>. QED BY <1>1, <3>1, <3>2, <3>3 DEF Fits
    <2>2. now \in Nat /\ (\A r \in Present : crm[r].at \in Nat)
        BY PresentType DEF Inv, TypeInv
    <2>3. \A r \in Records : store[r] # None => store[r].at \in Nat
        BY DEF Inv, TypeInv, Version
    <2>4. Present' = Present /\ Running' = Running
        BY <1>1 DEF Present, Running
    <2>. QED BY <1>1, <2>1, <2>2, <2>3, <2>4 DEF Inv, TypeInv
<1>3. /\ Present' = Present /\ Running' = Running /\ Counting' = Counting
      /\ \A r \in Present : Newest(r)' = Newest(r)
      /\ \A r \in Present, k \in Ingests : Has(k, r)' = Has(k, r) /\ Takes(k, r)' = Takes(k, r)
      /\ Watermark(store)' = Watermark(store)
    BY <1>1 DEF Present, Running, Counting, Newest, Has, Takes, Position, Watermark
<1>. QED BY <1>1, <1>2, <1>3 DEF Inv, Accounted, Untouched, Stale, Calm, Together, Sure, Counting,
            Running

\* A record is created or edited.
LEMMA SavedStep ==
    ASSUME Inv, NEW r \in Records, crm[r] # Gone, NEW v \in Version, v.at = Stamp(r),
           Saved(r, v)
    PROVE  Inv'
<1>1. /\ crm' = [crm EXCEPT ![r] = v] /\ calm' = {}
      /\ UNCHANGED <<now, store, pc, job, whole>>
      /\ clean' = IF Cardinality(Running) > 1 THEN {} ELSE clean
    BY DEF Saved, Changed
<1>2. /\ crm'[r] = v /\ v \notin {None, Gone}
      /\ \A s \in Records \ {r} : crm'[s] = crm[s]
      /\ Present' = Present \union {r}
    <2>1. v \notin {None, Gone}
        BY IngestAssumption DEF Version
    <2>2. crm'[r] = v /\ \A s \in Records \ {r} : crm'[s] = crm[s]
        BY <1>1 DEF Inv, TypeInv
    <2>. QED BY <2>1, <2>2 DEF Present
<1>3. v.at \in Nat /\ v.at <= now /\ (r \in Undated <=> v.at = 0) /\ (r \notin Undated => v.at = now)
    BY DEF Stamp, Inv, TypeInv
<1>4. TypeInv'
    <2>1. \A i \in Ingests : Fits(pc'[i], job'[i], now')
        BY <1>1 DEF Inv, TypeInv, Fits
    <2>2. Running' = Running
        BY <1>1 DEF Running
    <2>3. crm' \in [Records -> {None, Gone} \union Version]
        BY <1>1 DEF Inv, TypeInv
    <2>4. \A s \in Present' : crm'[s].at <= now /\ (crm'[s].at = 0 <=> s \in Undated)
        BY <1>2, <1>3, PresentType DEF Inv, TypeInv
    <2>. QED BY <1>1, <2>1, <2>2, <2>3, <2>4 DEF Inv, TypeInv
<1>5. /\ Running' = Running /\ Counting' = Counting /\ Watermark(store)' = Watermark(store)
      /\ \A s \in Present \ {r} : Newest(s)' = Newest(s)
      /\ \A s \in Present \ {r}, k \in Ingests : Has(k, s)' = Has(k, s)
    BY <1>1, <1>2 DEF Running, Counting, Watermark, Newest, Has, Present
<1>6. r \notin Undated => Newest(r)'
    <2>. SUFFICES ASSUME r \notin Undated PROVE Newest(r)'
        OBVIOUS
    <2>1. crm'[r].at = now
        BY <1>2, <1>3
    <2>2. \A s \in Records : store[s] # None => store[s].at <= now
        BY DEF Inv, TypeInv
    <2>3. \A k \in Ingests : Fits(pc[k], job[k], now)
        BY DEF Inv, TypeInv
    <2>. QED BY <1>1, <2>1, <2>2, <2>3 DEF Fits, Newest
<1>7. ASSUME NEW s \in Present \ {r}
      PROVE  Position(s) <= Position(s)'
    <2>1. s \in Present' /\ crm'[s] = crm[s]
        BY <1>2 DEF Present
    <2>2. ASSUME NEW t \in Present, Before(t, crm[t], s, crm[s])
          PROVE  t \in Present' /\ Before(t, crm'[t], s, crm'[s])
        <3>1. CASE t # r
            <4>1. crm'[t] = crm[t]
                BY <1>2, <3>1 DEF Present
            <4>. QED BY <1>2, <2>1, <2>2, <4>1
        <3>2. CASE t = r
            <4>1. crm[r].at <= v.at /\ crm[r].at \in Nat /\ crm[s].at \in Nat /\ r \in Nat /\ s \in Nat
                BY <1>3, <3>2, PresentType DEF Inv, TypeInv
            <4>. QED BY <1>2, <1>3, <2>1, <2>2, <3>2, <4>1 DEF Before
        <3>. QED BY <3>1, <3>2
    <2>3. TypeInv
        BY DEF Inv
    <2>. QED BY <1>4, <2>1, <2>2, <2>3, MovesBack
<1>8. ASSUME NEW s \in Present \ {r}, NEW k \in Ingests, Takes(k, s)
      PROVE  Takes(k, s)'
    <2>1. job[k].offset \in Nat
        BY DEF Inv, TypeInv, Job
    <2>2. Position(s) \in Nat /\ Position(s)' \in Nat /\ Position(s) <= Position(s)'
        <3>1. TypeInv
            BY DEF Inv
        <3>2. Position(s) \in Nat
            BY <3>1, Positions
        <3>3. IsFiniteSet({t \in Present' : Before(t, crm'[t], s, crm'[s])})
            <4>1. {t \in Present' : Before(t, crm'[t], s, crm'[s])} \in SUBSET Records
                BY DEF Present
            <4>. QED BY <4>1, IngestAssumption, FS_Subset
        <3>4. Position(s)' \in Nat
            BY <3>3, FS_CardinalityType DEF Position
        <3>. QED BY <1>7, <3>2, <3>4
    <2>3. crm'[s] = crm[s]
        BY <1>2 DEF Present
    <2>. QED BY <1>1, <1>8, <2>1, <2>2, <2>3 DEF Takes
<1>9. Accounted'
    <2>. SUFFICES ASSUME clean' # {}, NEW s \in Present' \ Undated, s # r
                  PROVE  store[s] = crm'[s] \/ Newest(s)'
                            \/ \E k \in Counting : Has(k, s)' \/ Takes(k, s)'
        BY <1>1, <1>5, <1>6 DEF Accounted
    <2>1. s \in Present \ {r} /\ crm'[s] = crm[s] /\ clean # {}
        BY <1>1, <1>2 DEF Present
    <2>2. store[s] = crm[s] \/ Newest(s) \/ \E k \in Counting : Has(k, s) \/ Takes(k, s)
        BY <2>1 DEF Inv, Accounted
    <2>3. Counting \subseteq Ingests
        BY DEF Counting, Running
    <2>. QED BY <1>5, <1>8, <2>1, <2>2, <2>3
<1>10. Untouched'
    <2>1. ASSUME whole, \A k \in Running : job[k].offset = 0, NEW s \in Present' \ Undated
          PROVE  store[s] = crm'[s] \/ crm'[s].at >= Watermark(store)
        <3>1. CASE s = r
            BY <1>2, <1>3, <3>1, <2>1, WatermarkNewest DEF Inv
        <3>2. CASE s # r
            BY <1>2, <2>1, <3>2 DEF Inv, Untouched, Present
        <3>. QED BY <3>1, <3>2
    <2>. QED BY <1>1, <1>5, <2>1 DEF Untouched
<1>11. Stale'
    <2>. SUFFICES ASSUME clean # {}, NEW k \in Running, NEW s \in DOMAIN job[k].todo
                  PROVE  s \in Present' /\ (job[k].todo[s] = crm'[s] \/ s \in Undated \/ Newest(s)')
        BY <1>1, <1>5 DEF Stale
    <2>1. s \in Present /\ (job[k].todo[s] = crm[s] \/ s \in Undated \/ Newest(s))
        BY DEF Inv, Stale
    <2>. QED BY <1>2, <1>5, <1>6, <2>1 DEF Present
<1>12. Together'
    <2>1. ASSUME clean' # {}, NEW j \in Running, NEW k \in Running, j # k
          PROVE  FALSE
        <3>1. IsFiniteSet(Running) /\ Cardinality(Running) \in Nat
            BY FS_CardinalityType DEF Inv, TypeInv
        <3>2. Cardinality({j, k}) = 2
            <4>1. IsFiniteSet({j}) /\ Cardinality({j}) = 1
                BY FS_Singleton
            <4>2. k \notin {j}
                BY <2>1
            <4>3. Cardinality({j} \union {k}) = Cardinality({j}) + 1
                BY <4>1, <4>2, FS_AddElement
            <4>4. {j, k} = {j} \union {k}
                OBVIOUS
            <4>. QED BY <4>1, <4>3, <4>4
        <3>3. {j, k} \in SUBSET Running
            OBVIOUS
        <3>4. Cardinality({j, k}) <= Cardinality(Running)
            BY <3>1, <3>3, FS_Subset
        <3>. QED BY <1>1, <2>1, <3>1, <3>2, <3>4
    <2>. QED BY <1>1, <1>5, <2>1 DEF Inv, Together
<1>. QED BY <1>1, <1>4, <1>9, <1>10, <1>11, <1>12 DEF Inv, Calm, Sure

LEMMA CreateStep == ASSUME Inv, NEW r \in Records, Create(r) PROVE Inv'
<1> DEFINE v == [ver |-> 1, at |-> Stamp(r)]
<1>1. v \in Version /\ v.at = Stamp(r)
    BY DEF Version, Stamp, Inv, TypeInv
<1>2. crm[r] # Gone /\ Saved(r, v)
    BY IngestAssumption DEF Create
<1>. HIDE DEF v
<1>. QED BY <1>1, <1>2, SavedStep

LEMMA EditStep == ASSUME Inv, NEW r \in Records, Edit(r) PROVE Inv'
<1> DEFINE v == [ver |-> crm[r].ver + 1, at |-> Stamp(r)]
<1>1. crm[r] \in Version
    BY PresentType DEF Edit, Inv
<1>2. v \in Version /\ v.at = Stamp(r)
    BY <1>1 DEF Version, Stamp, Inv, TypeInv
<1>3. crm[r] # Gone /\ Saved(r, v)
    BY DEF Edit, Present
<1>. HIDE DEF v
<1>. QED BY <1>2, <1>3, SavedStep

LEMMA DeleteStep == ASSUME Inv, NEW r \in Records, Delete(r) PROVE Inv'
<1>1. /\ crm' = [crm EXCEPT ![r] = Gone] /\ calm' = {} /\ clean' = {}
      /\ UNCHANGED <<now, store, pc, job, whole>>
    BY DEF Delete, Changed
<1>2. Present' = Present \ {r} /\ \A s \in Present' : crm'[s] = crm[s]
    BY <1>1 DEF Present, Inv, TypeInv
<1>3. Running' = Running /\ Watermark(store)' = Watermark(store)
    BY <1>1 DEF Running, Watermark
<1>4. TypeInv'
    <2>1. \A i \in Ingests : Fits(pc'[i], job'[i], now')
        BY <1>1 DEF Inv, TypeInv, Fits
    <2>2. crm' \in [Records -> {None, Gone} \union Version]
        BY <1>1 DEF Inv, TypeInv
    <2>. QED BY <1>1, <1>2, <1>3, <2>1, <2>2 DEF Inv, TypeInv
<1>5. Untouched'
    BY <1>1, <1>2, <1>3 DEF Inv, Untouched
<1>. QED BY <1>1, <1>4, <1>5 DEF Inv, Accounted, Stale, Calm, Together, Sure

LEMMA DropStep == ASSUME Inv, DropCollection PROVE Inv'
<1>1. /\ store' = [r \in Records |-> None] /\ clean' = {}
      /\ UNCHANGED <<now, crm, pc, job, calm>> /\ whole' = TRUE
    BY DEF DropCollection
<1>2. Present' = Present /\ Running' = Running
    BY <1>1 DEF Present, Running
<1>3. TypeInv'
    <2>1. \A i \in Ingests : Fits(pc'[i], job'[i], now')
        BY <1>1 DEF Inv, TypeInv, Fits
    <2>. QED BY <1>1, <1>2, <2>1 DEF Inv, TypeInv
<1>4. Watermark(store)' = 0
    <2>1. {store'[r].at : r \in {s \in Records : store'[s] # None}} \union {0} = {0}
        BY <1>1
    <2>. QED BY <2>1 DEF Watermark
<1>5. Untouched'
    BY <1>1, <1>2, <1>4, PresentType DEF Inv, Untouched
<1>. QED BY <1>1, <1>2, <1>3, <1>5 DEF Inv, Accounted, Stale, Calm, Together, Sure

-----------------------------------------------------------------------------
(* An ingest *)

LEMMA BeginStep ==
    ASSUME Inv, NEW i \in Ingests, NEW incremental \in BOOLEAN, NEW limit \in Limits,
           NEW size \in PageSizes, Begin(i, incremental, limit, size)
    PROVE  Inv'
<1> DEFINE stage == IF incremental THEN "scan" ELSE "list"
           j == [NoJob EXCEPT !.left = limit, !.size = size]
<1>1. /\ pc[i] \in AtRest
      /\ pc' = [pc EXCEPT ![i] = stage] /\ job' = [job EXCEPT ![i] = j]
      /\ clean' = IF IF Running = {} THEN whole \/ ~incremental
                                     ELSE Running \subseteq clean \intersect calm
                  THEN clean \union {i} ELSE {}
      /\ calm' = calm \union {i}
      /\ UNCHANGED <<now, crm, store, whole>>
    BY DEF Begin
<1>2. /\ j \in Job /\ stage \in Stages /\ stage \notin AtRest /\ Fits(stage, j, now')
      /\ j.mark = 0 /\ j.offset = 0 /\ j.todo = <<>> /\ ~j.last
    <2>1. limit \in Int \union {None} /\ size \in Nat
        BY IngestAssumption
    <2>2. j.mark = 0 /\ j.offset = 0 /\ j.todo = <<>> /\ ~j.last
        BY DEF NoJob
    <2>3. stage \in {"scan", "list"} /\ stage \in Stages /\ stage \notin AtRest
        BY DEF Stages, AtRest
    <2>4. Fits(stage, j, now')
        <3>. HIDE DEF j
        <3>. QED BY <1>1, <2>2, <2>3, TodoTypes DEF Fits, Inv, TypeInv
    <2>. QED BY <2>1, <2>2, <2>3, <2>4, NoJobType
<1>. HIDE DEF j
<1>3. now' \in Nat /\ now <= now'
    BY <1>1 DEF Inv, TypeInv
<1>4. /\ job' \in [Ingests -> Job] /\ pc' \in [Ingests -> Stages]
      /\ \A k \in Ingests : Fits(pc'[k], job'[k], now')
      /\ IsFiniteSet(Running')
      /\ pc'[i] = stage /\ job'[i] = j
      /\ \A k \in Ingests \ {i} : pc'[k] = pc[k] /\ job'[k] = job[k]
      /\ Running' = Running \union {i}
    BY <1>1, <1>2, <1>3, JobStep DEF Inv
<1>5. job[i] = NoJob /\ i \notin Running
    BY <1>1 DEF Inv, TypeInv, Fits, Running
<1>6. Present' = Present /\ Watermark(store)' = Watermark(store)
    BY <1>1 DEF Present, Watermark
<1>7. TypeInv'
    BY <1>1, <1>4, <1>6 DEF Inv, TypeInv
<1>8. /\ \A r \in Present : Newest(r)' = Newest(r)
      /\ \A r \in Present, k \in Ingests \ {i} : Has(k, r)' = Has(k, r) /\ Takes(k, r)' = Takes(k, r)
    <2>1. \A k \in Ingests : job'[k].mark = job[k].mark /\ job'[k].todo = job[k].todo
        BY <1>2, <1>4, <1>5 DEF NoJob
    <2>2. \A r \in Present : Position(r)' = Position(r)
        BY <1>1 DEF Position, Present
    <2>. QED BY <1>1, <1>4, <2>1, <2>2 DEF Newest, Has, Takes
<1>9. \A r \in Present : stage = "list" => Takes(i, r)'
    <2>1. \A r \in Present : Position(r)' = Position(r)
        BY <1>1 DEF Position, Present
    <2>2. \A r \in Present : Position(r) \in Nat
        BY Positions DEF Inv
    <2>. QED BY <1>2, <1>4, <2>1, <2>2 DEF Takes
<1>10. clean' # {} =>
         /\ clean' = Running' /\ clean = Running /\ Running \subseteq calm
         /\ Running = {} => whole \/ stage = "list"
    BY <1>1, <1>4 DEF Inv, Together
<1>11. Accounted'
    <2>. SUFFICES ASSUME clean' # {}, NEW r \in Present \ Undated
                  PROVE  store[r] = crm[r] \/ Newest(r)
                            \/ \E k \in Counting' : Has(k, r)' \/ Takes(k, r)'
        BY <1>1, <1>6, <1>8 DEF Accounted
    <2>1. CASE Running = {} /\ whole
        <3>1. store[r] = crm[r] \/ crm[r].at >= Watermark(store)
            BY <2>1 DEF Inv, Untouched
        <3>2. ASSUME crm[r].at >= Watermark(store)
              PROVE  Newest(r)
            <4>1. \A k \in Ingests : job[k] = NoJob
                BY <2>1 DEF Running, Inv, TypeInv, Fits
            <4>2. crm[r].at \in Nat
                BY PresentType DEF Inv
            <4>3. /\ Watermark(store) \in Nat
                  /\ \A s \in Records : store[s] # None => store[s].at <= Watermark(store)
                BY WatermarkNewest DEF Inv
            <4>4. \A s \in Records : store[s] # None => store[s].at \in Nat
                BY DEF Inv, TypeInv, Version
            <4>. QED BY <3>2, <4>1, <4>2, <4>3, <4>4, TodoTypes DEF Newest, NoJob
        <3>. QED BY <3>1, <3>2
    <2>2. CASE Running = {} /\ ~whole
        <3>1. Takes(i, r)'
            BY <1>9, <1>10, <2>2
        <3>2. i \in Counting'
            BY <1>1, <1>4, <2>2 DEF Counting
        <3>. QED BY <3>1, <3>2
    <2>3. CASE Running # {}
        <3>1. store[r] = crm[r] \/ Newest(r) \/ \E k \in Counting : Has(k, r) \/ Takes(k, r)
            BY <1>10, <2>3 DEF Inv, Accounted
        <3>2. \A k \in Counting : k \in Ingests \ {i} /\ k \in Counting'
            BY <1>1, <1>4, <1>5 DEF Counting, Running
        <3>. QED BY <1>8, <3>1, <3>2
    <2>. QED BY <2>1, <2>2, <2>3
<1>12. Untouched'
    <2>1. (\A k \in Running' : job'[k].offset = 0) => \A k \in Running : job[k].offset = 0
        BY <1>4, <1>5 DEF Running
    <2>. QED BY <1>1, <1>6, <2>1 DEF Inv, Untouched
<1>13. Stale'
    <2>. SUFFICES ASSUME clean' # {}, NEW k \in Running', NEW r \in DOMAIN job'[k].todo
                  PROVE  r \in Present /\ (job'[k].todo[r] = crm[r] \/ r \in Undated \/ Newest(r)')
        BY <1>1, <1>6 DEF Stale
    <2>1. k # i
        BY <1>2, <1>4, TodoTypes
    <2>2. k \in Running /\ job'[k] = job[k]
        BY <1>4, <2>1 DEF Running
    <2>. QED BY <1>8, <1>10, <2>2 DEF Inv, Stale
<1>14. Calm'
    <2>1. \A k \in calm \ {i} : job'[k] = job[k]
        BY <1>4 DEF Inv, Together, Running
    <2>. QED BY <1>1, <1>2, <1>4, <2>1, TodoTypes DEF Inv, Calm
<1>15. Together'
    BY <1>1, <1>4, <1>10 DEF Inv, Together
<1>16. Sure'
    <2>. SUFFICES ASSUME NEW k \in clean' \intersect calm', pc'[k] # "scan", NEW r \in Present,
                         job'[k].mark = 0 \/ crm[r].at >= job'[k].mark
                  PROVE  store[r] = crm[r] \/ Has(k, r)' \/ Takes(k, r)'
        BY <1>1, <1>6 DEF Sure
    <2>1. CASE k = i
        BY <1>4, <1>9, <2>1
    <2>2. CASE k # i
        <3>1. k \in clean \intersect calm /\ k \in Ingests \ {i}
            BY <1>1, <1>10, <2>2 DEF Inv, Together, Running
        <3>. QED BY <1>4, <1>8, <3>1 DEF Inv, Sure
    <2>. QED BY <2>1, <2>2
<1>. QED BY <1>7, <1>11, <1>12, <1>13, <1>14, <1>15, <1>16 DEF Inv

LEMMA ScanStep == ASSUME Inv, NEW i \in Ingests, Scan(i) PROVE Inv'
<1> DEFINE j == [job[i] EXCEPT !.mark = Watermark(store)]
<1>1. /\ pc[i] = "scan"
      /\ pc' = [pc EXCEPT ![i] = "list"] /\ job' = [job EXCEPT ![i] = j]
      /\ UNCHANGED <<now, crm, store, whole, clean, calm>>
    BY DEF Scan
<1>2. /\ job[i] \in Job /\ Fits(pc[i], job[i], now) /\ i \in Running
      /\ job[i].mark = 0 /\ job[i].offset = 0 /\ DOMAIN job[i].todo = {} /\ ~job[i].last
    BY <1>1 DEF Inv, TypeInv, Fits, Running, AtRest
<1>3. /\ j \in Job /\ j.mark = Watermark(store) /\ j.offset = 0 /\ j.todo = job[i].todo /\ ~j.last
      /\ Fits("list", j, now')
    <2>1. Watermark(store) \in Nat /\ Watermark(store) <= now
        BY WatermarkNewest DEF Inv
    <2>2. j \in Job /\ j.mark = Watermark(store) /\ j.offset = 0 /\ j.todo = job[i].todo /\ ~j.last
        BY <1>2, <2>1 DEF Job
    <2>3. Fits("list", j, now')
        <3>. HIDE DEF j
        <3>. QED BY <1>1, <1>2, <2>1, <2>2, TodoTypes DEF Fits, AtRest
    <2>. QED BY <2>2, <2>3
<1>. HIDE DEF j
<1>4. /\ job' \in [Ingests -> Job] /\ pc' \in [Ingests -> Stages]
      /\ \A k \in Ingests : Fits(pc'[k], job'[k], now')
      /\ IsFiniteSet(Running')
      /\ pc'[i] = "list" /\ job'[i] = j
      /\ \A k \in Ingests \ {i} : pc'[k] = pc[k] /\ job'[k] = job[k]
      /\ Running' = Running
    <2>1. "list" \in Stages /\ "list" \notin AtRest /\ now' \in Nat /\ now <= now'
        BY <1>1 DEF Stages, AtRest, Inv, TypeInv
    <2>2. /\ job' \in [Ingests -> Job] /\ pc' \in [Ingests -> Stages]
          /\ \A k \in Ingests : Fits(pc'[k], job'[k], now')
          /\ IsFiniteSet(Running')
          /\ pc'[i] = "list" /\ job'[i] = j
          /\ \A k \in Ingests \ {i} : pc'[k] = pc[k] /\ job'[k] = job[k]
          /\ Running' = IF "list" \in AtRest THEN Running \ {i} ELSE Running \union {i}
        BY <1>1, <1>3, <2>1, JobStep DEF Inv
    <2>. QED BY <1>2, <2>1, <2>2
<1>5. Present' = Present /\ Watermark(store)' = Watermark(store) /\ Counting' = Counting
    <2>1. \A k \in Ingests : job'[k].offset = job[k].offset
        BY <1>2, <1>3, <1>4
    <2>2. Counting' = Counting
        <3>. SUFFICES ASSUME NEW k \in Running PROVE job'[k].offset = job[k].offset
            BY <1>1, <1>4 DEF Counting
        <3>. QED BY <2>1 DEF Running
    <2>. QED BY <1>1, <2>2 DEF Present, Watermark
<1>6. TypeInv'
    BY <1>1, <1>4, <1>5 DEF Inv, TypeInv
<1>7. \A r \in Present, k \in Ingests \ {i} : Has(k, r)' = Has(k, r) /\ Takes(k, r)' = Takes(k, r)
    <2>1. \A r \in Present : Position(r)' = Position(r)
        BY <1>1 DEF Position, Present
    <2>. QED BY <1>1, <1>4, <2>1 DEF Has, Takes
<1>8. ASSUME NEW r \in Present, Newest(r)
      PROVE  Newest(r)'
    <2>1. Watermark(store) <= crm[r].at
        BY <1>8, WatermarkNewest, PresentType DEF Inv, Newest
    <2>2. \A k \in Ingests : job'[k].todo = job[k].todo
        BY <1>2, <1>3, <1>4
    <2>. QED BY <1>1, <1>3, <1>4, <1>8, <2>1, <2>2 DEF Newest
<1>9. Accounted'
    <2>. SUFFICES ASSUME clean # {}, NEW r \in Present \ Undated
                  PROVE  store[r] = crm[r] \/ Newest(r)'
                            \/ \E k \in Counting : Has(k, r)' \/ Takes(k, r)'
        BY <1>1, <1>5 DEF Accounted
    <2>1. store[r] = crm[r] \/ Newest(r) \/ \E k \in Counting : Has(k, r) \/ Takes(k, r)
        BY DEF Inv, Accounted
    <2>2. ~Has(i, r) /\ ~Takes(i, r)
        BY <1>1, <1>2, TodoTypes DEF Has, Takes
    <2>3. Counting \subseteq Ingests
        BY DEF Counting, Running
    <2>. QED BY <1>7, <1>8, <2>1, <2>2, <2>3
<1>10. Untouched'
    <2>1. \A k \in Ingests : job'[k].offset = job[k].offset
        BY <1>2, <1>3, <1>4
    <2>. QED BY <1>1, <1>4, <1>5, <2>1 DEF Inv, Untouched, Running
<1>11. Stale'
    <2>1. \A k \in Ingests : job'[k].todo = job[k].todo
        BY <1>2, <1>3, <1>4
    <2>. QED BY <1>1, <1>4, <1>5, <1>8, <2>1 DEF Inv, Stale, Running
<1>12. Calm' /\ Together'
    <2>1. \A k \in Ingests : job'[k].todo = job[k].todo
        BY <1>2, <1>3, <1>4
    <2>. QED BY <1>1, <1>4, <2>1 DEF Inv, Calm, Together, Running
<1>13. Sure'
    <2>. SUFFICES ASSUME NEW k \in clean \intersect calm, pc'[k] # "scan", NEW r \in Present,
                         job'[k].mark = 0 \/ crm[r].at >= job'[k].mark
                  PROVE  store[r] = crm[r] \/ Has(k, r)' \/ Takes(k, r)'
        BY <1>1, <1>5 DEF Sure
    <2>1. CASE k = i
        <3>1. Position(r)' = Position(r) /\ Position(r) \in Nat
            BY <1>1, Positions DEF Position, Present, Inv
        <3>. QED BY <1>1, <1>3, <1>4, <2>1, <3>1 DEF Takes
    <2>2. CASE k # i
        <3>1. k \in Ingests \ {i}
            BY <2>2 DEF Inv, Together, Running
        <3>. QED BY <1>4, <1>7, <3>1 DEF Inv, Sure
    <2>. QED BY <2>1, <2>2
<1>. QED BY <1>6, <1>9, <1>10, <1>11, <1>12, <1>13 DEF Inv

LEMMA FailStep == ASSUME Inv, NEW i \in Ingests, Fail(i) PROVE Inv'
<1>1. /\ i \in Running
      /\ pc' = [pc EXCEPT ![i] = "failed"] /\ job' = [job EXCEPT ![i] = NoJob]
      /\ whole' = (whole /\ job[i].offset = 0)
      /\ clean' = IF whole' THEN clean \ {i} ELSE {}
      /\ calm' = calm \ {i}
      /\ UNCHANGED <<now, crm, store>>
    BY DEF Fail
<1>2. /\ job' \in [Ingests -> Job] /\ pc' \in [Ingests -> Stages]
      /\ \A k \in Ingests : Fits(pc'[k], job'[k], now')
      /\ IsFiniteSet(Running')
      /\ pc'[i] = "failed" /\ job'[i] = NoJob
      /\ \A k \in Ingests \ {i} : pc'[k] = pc[k] /\ job'[k] = job[k]
      /\ Running' = Running \ {i}
    <2>1. "failed" \in Stages /\ "failed" \in AtRest /\ now' \in Nat /\ now <= now'
        BY <1>1 DEF Stages, AtRest, Inv, TypeInv
    <2>2. Fits("failed", NoJob, now')
        BY <1>1, TodoTypes DEF Fits, NoJob, AtRest, Inv, TypeInv
    <2>. QED BY <1>1, <2>1, <2>2, NoJobType, JobStep DEF Inv
<1>3. Present' = Present /\ Watermark(store)' = Watermark(store)
    BY <1>1 DEF Present, Watermark
<1>4. TypeInv'
    <2>1. whole' \in BOOLEAN
        BY <1>1
    <2>. QED BY <1>1, <1>2, <1>3, <2>1 DEF Inv, TypeInv
<1>5. \A r \in Present, k \in Ingests \ {i} : Has(k, r)' = Has(k, r) /\ Takes(k, r)' = Takes(k, r)
    <2>1. \A r \in Present : Position(r)' = Position(r)
        BY <1>1 DEF Position, Present
    <2>. QED BY <1>1, <1>2, <2>1 DEF Has, Takes
<1>6. ASSUME NEW r \in Present, Newest(r)
      PROVE  Newest(r)'
    <2>1. job'[i].mark = 0 /\ DOMAIN job'[i].todo = {} /\ crm[r].at \in Nat
        BY <1>2, TodoTypes, PresentType DEF NoJob, Inv
    <2>. QED BY <1>1, <1>2, <1>6, <2>1 DEF Newest
<1>7. Accounted'
    <2>. SUFFICES ASSUME clean' # {}, NEW r \in Present \ Undated
                  PROVE  store[r] = crm[r] \/ Newest(r)'
                            \/ \E k \in Counting' : Has(k, r)' \/ Takes(k, r)'
        BY <1>1, <1>3 DEF Accounted
    <2>1. store[r] = crm[r] \/ Newest(r) \/ \E k \in Counting : Has(k, r) \/ Takes(k, r)
        BY <1>1 DEF Inv, Accounted
    <2>2. \A k \in Counting : k \in Ingests \ {i} /\ k \in Counting'
        <3>1. whole /\ whole' /\ job[i].offset = 0
            BY <1>1
        <3>. QED BY <1>2, <3>1 DEF Counting, Running
    <2>. QED BY <1>5, <1>6, <2>1, <2>2
<1>8. Untouched'
    <2>1. whole' /\ (\A k \in Running' : job'[k].offset = 0) =>
              whole /\ \A k \in Running : job[k].offset = 0
        BY <1>1, <1>2 DEF Running
    <2>. QED BY <1>1, <1>3, <2>1 DEF Inv, Untouched
<1>9. Stale'
    <2>1. clean' # {} => clean # {}
        BY <1>1
    <2>2. \A k \in Running' : k \in Running /\ job'[k] = job[k]
        BY <1>2 DEF Running
    <2>. QED BY <1>1, <1>3, <1>6, <2>1, <2>2 DEF Inv, Stale
<1>10. Calm' /\ Together'
    <2>1. \A k \in calm' : k \in calm /\ job'[k] = job[k]
        BY <1>1, <1>2 DEF Inv, Together, Running
    <2>2. clean' # {} => clean # {} /\ clean' = clean \ {i}
        BY <1>1
    <2>. QED BY <1>1, <1>2, <2>1, <2>2 DEF Inv, Calm, Together
<1>11. Sure'
    <2>1. \A k \in clean' \intersect calm' : k \in clean \intersect calm /\ k \in Ingests \ {i}
        BY <1>1 DEF Inv, Together, Running
    <2>. QED BY <1>1, <1>2, <1>3, <1>5, <2>1 DEF Inv, Sure
<1>. QED BY <1>4, <1>7, <1>8, <1>9, <1>10, <1>11 DEF Inv

\* An ingest stopped by its limit.
LEMMA StopStep ==
    ASSUME Inv, NEW i \in Running, Done(i, FALSE), UNCHANGED <<now, crm, store>>
    PROVE  Inv'
<1>1. /\ i \in Ingests
      /\ pc' = [pc EXCEPT ![i] = "done"] /\ job' = [job EXCEPT ![i] = NoJob]
      /\ whole' = FALSE /\ clean' = {} /\ calm' = calm \ {i}
    BY DEF Done, Running
<1>2. /\ job' \in [Ingests -> Job] /\ pc' \in [Ingests -> Stages]
      /\ \A k \in Ingests : Fits(pc'[k], job'[k], now')
      /\ IsFiniteSet(Running')
      /\ \A k \in Ingests \ {i} : pc'[k] = pc[k] /\ job'[k] = job[k]
      /\ Running' = Running \ {i}
    <2>1. "done" \in Stages /\ "done" \in AtRest /\ now' \in Nat /\ now <= now'
        BY DEF Stages, AtRest, Inv, TypeInv
    <2>2. Fits("done", NoJob, now')
        BY TodoTypes DEF Fits, NoJob, AtRest, Inv, TypeInv
    <2>. QED BY <1>1, <2>1, <2>2, NoJobType, JobStep DEF Inv
<1>3. Present' = Present
    BY DEF Present
<1>4. TypeInv'
    BY <1>1, <1>2, <1>3 DEF Inv, TypeInv
<1>5. \A k \in calm' : k \in calm /\ job'[k] = job[k] /\ k \in Running'
    BY <1>1, <1>2 DEF Inv, Together, Running
<1>. QED BY <1>1, <1>4, <1>5 DEF Inv, Accounted, Untouched, Stale, Calm, Together, Sure

\* An ingest stores what it holds of some records.
Stores(i) ==
    /\ store' \in [Records -> {None} \union Version]
    /\ \A s \in Records :
        store'[s] = store[s] \/ (s \in DOMAIN job[i].todo /\ store'[s] = job[i].todo[s])

LEMMA StoresFacts ==
    ASSUME Inv, NEW i \in Running, Stores(i)
    PROVE  /\ \A s \in Records : store'[s] # None => store'[s].at <= now
           /\ \A r \in Present : Newest(r) =>
                \A s \in Records : store'[s] # None => store'[s].at <= crm[r].at
           /\ clean # {} => \A r \in Present \ Undated :
                store[r] = crm[r] => store'[r] = crm[r] \/ Newest(r)
           /\ i \in calm => \A r \in Present : store[r] = crm[r] => store'[r] = crm[r]
<1>1. i \in Ingests /\ Fits(pc[i], job[i], now)
    BY DEF Running, Inv, TypeInv
<1>2. \A s \in Records : store'[s] # None => store'[s].at <= now
    BY <1>1 DEF Stores, Fits, Inv, TypeInv
<1>3. \A r \in Present : Newest(r) =>
          \A s \in Records : store'[s] # None => store'[s].at <= crm[r].at
    BY <1>1 DEF Stores, Newest
<1>4. Present \subseteq Records
    BY DEF Present
<1>5. clean # {} => \A r \in Present \ Undated :
          store[r] = crm[r] => store'[r] = crm[r] \/ Newest(r)
    BY <1>4 DEF Stores, Inv, Stale
<1>6. i \in calm => \A r \in Present : store[r] = crm[r] => store'[r] = crm[r]
    BY <1>4 DEF Stores, Inv, Calm
<1>. QED BY <1>2, <1>3, <1>5, <1>6

\* An ingest that has come to its end has taken all that it counted for.
LEMMA EndStep ==
    ASSUME Inv, NEW i \in Running, Done(i, TRUE), UNCHANGED <<now, crm>>, Stores(i),
           \A r \in Present : Has(i, r) \/ Takes(i, r) => store'[r] = crm[r]
    PROVE  Inv'
<1>1. /\ i \in Ingests
      /\ pc' = [pc EXCEPT ![i] = "done"] /\ job' = [job EXCEPT ![i] = NoJob]
      /\ whole' = IF i \in clean THEN whole \/ Running = {i} ELSE FALSE
      /\ clean' = clean \ {i} /\ calm' = calm \ {i}
    BY DEF Done, Running
<1>2. /\ job' \in [Ingests -> Job] /\ pc' \in [Ingests -> Stages]
      /\ \A k \in Ingests : Fits(pc'[k], job'[k], now')
      /\ IsFiniteSet(Running')
      /\ job'[i] = NoJob
      /\ \A k \in Ingests \ {i} : pc'[k] = pc[k] /\ job'[k] = job[k]
      /\ Running' = Running \ {i}
    <2>1. "done" \in Stages /\ "done" \in AtRest /\ now' \in Nat /\ now <= now'
        BY DEF Stages, AtRest, Inv, TypeInv
    <2>2. Fits("done", NoJob, now')
        BY TodoTypes DEF Fits, NoJob, AtRest, Inv, TypeInv
    <2>. QED BY <1>1, <2>1, <2>2, NoJobType, JobStep DEF Inv
<1>3. Present' = Present
    BY DEF Present
<1>4. TypeInv'
    <2>1. whole' \in BOOLEAN
        BY <1>1 DEF Inv, TypeInv
    <2>2. /\ store' \in [Records -> {None} \union Version]
          /\ \A s \in Records : store'[s] # None => store'[s].at <= now
        BY StoresFacts DEF Stores
    <2>. QED BY <1>1, <1>2, <1>3, <2>1, <2>2 DEF Inv, TypeInv
<1>5. \A r \in Present, k \in Ingests \ {i} : Has(k, r)' = Has(k, r) /\ Takes(k, r)' = Takes(k, r)
    <2>1. \A r \in Present : Position(r)' = Position(r)
        BY DEF Position, Present
    <2>. QED BY <1>1, <1>2, <2>1 DEF Has, Takes
<1>6. ASSUME NEW r \in Present, Newest(r)
      PROVE  Newest(r)'
    <2>1. job'[i].mark = 0 /\ DOMAIN job'[i].todo = {} /\ crm[r].at \in Nat
        BY <1>2, TodoTypes, PresentType DEF NoJob, Inv
    <2>2. \A s \in Records : store'[s] # None => store'[s].at <= crm[r].at
        BY <1>6, StoresFacts
    <2>. QED BY <1>1, <1>2, <1>6, <2>1, <2>2 DEF Newest
<1>7. ASSUME clean # {}, NEW r \in Present \ Undated
      PROVE  store'[r] = crm[r] \/ Newest(r)
                \/ \E k \in Counting \ {i} : Has(k, r) \/ Takes(k, r)
    <2>1. store[r] = crm[r] \/ Newest(r) \/ \E k \in Counting : Has(k, r) \/ Takes(k, r)
        BY <1>7 DEF Inv, Accounted
    <2>2. store[r] = crm[r] => store'[r] = crm[r] \/ Newest(r)
        BY <1>7, StoresFacts
    <2>. QED BY <2>1, <2>2
<1>8. Accounted'
    <2>. SUFFICES ASSUME clean' # {}, NEW r \in Present \ Undated
                  PROVE  store'[r] = crm[r] \/ Newest(r)'
                            \/ \E k \in Counting' : Has(k, r)' \/ Takes(k, r)'
        BY <1>3 DEF Accounted
    <2>1. clean # {} /\ whole' = whole
        BY <1>1 DEF Inv, Together, TypeInv
    <2>2. \A k \in Counting \ {i} : k \in Ingests \ {i} /\ k \in Counting'
        BY <1>2, <2>1 DEF Counting, Running
    <2>. QED BY <1>5, <1>6, <1>7, <2>1, <2>2
<1>9. Untouched'
    <2>. SUFFICES ASSUME whole', \A k \in Running' : job'[k].offset = 0,
                         NEW r \in Present \ Undated
                  PROVE  store'[r] = crm[r] \/ crm[r].at >= Watermark(store')
        BY <1>3 DEF Untouched
    <2>1. i \in clean /\ (whole \/ Running = {i})
        BY <1>1
    <2>2. Counting \ {i} = {}
        BY <1>2, <2>1 DEF Counting, Running
    <2>3. CASE store'[r] = crm[r]
        BY <2>3
    <2>4. CASE Newest(r)
        <3>1. crm[r].at \in Nat
            BY PresentType DEF Inv
        <3>2. \A s \in Records : store'[s] # None => store'[s].at <= crm[r].at
            BY <2>4, StoresFacts
        <3>3. store' \in [Records -> {None} \union Version]
            BY DEF Stores
        <3>. QED BY <3>1, <3>2, <3>3, WatermarkOf
    <2>. QED BY <1>7, <2>1, <2>2, <2>3, <2>4
<1>10. Stale'
    <2>1. clean' # {} => clean # {}
        BY <1>1
    <2>2. \A k \in Running' : k \in Running /\ job'[k] = job[k]
        BY <1>2 DEF Running
    <2>. QED BY <1>1, <1>3, <1>6, <2>1, <2>2 DEF Inv, Stale
<1>11. Calm' /\ Together'
    <2>1. \A k \in calm' : k \in calm /\ job'[k] = job[k]
        BY <1>1, <1>2 DEF Inv, Together, Running
    <2>2. clean' # {} => clean # {}
        BY <1>1
    <2>. QED BY <1>1, <1>2, <2>1, <2>2 DEF Inv, Calm, Together
<1>12. Sure'
    <2>. SUFFICES ASSUME NEW k \in clean' \intersect calm', pc'[k] # "scan", NEW r \in Present,
                         job'[k].mark = 0 \/ crm[r].at >= job'[k].mark
                  PROVE  store'[r] = crm[r] \/ Has(k, r)' \/ Takes(k, r)'
        BY <1>3 DEF Sure
    <2>1. k \in clean \intersect calm /\ k \in Ingests \ {i} /\ k \in Running
        BY <1>1 DEF Inv, Together, Running
    <2>2. i \in calm
        BY <2>1 DEF Inv, Together
    <2>3. store[r] = crm[r] \/ Has(k, r) \/ Takes(k, r)
        BY <1>2, <2>1 DEF Inv, Sure
    <2>4. store[r] = crm[r] => store'[r] = crm[r]
        BY <2>2, StoresFacts
    <2>. QED BY <1>5, <2>1, <2>3, <2>4
<1>. QED BY <1>4, <1>8, <1>9, <1>10, <1>11, <1>12 DEF Inv

\* An ingest goes on with less of the page to store.
LEMMA ProceedStep ==
    ASSUME Inv, NEW i \in Running, pc[i] \in {"compare", "write"},
           NEW stage \in {"list", "write"}, NEW j \in Job,
           pc' = [pc EXCEPT ![i] = stage], job' = [job EXCEPT ![i] = j],
           UNCHANGED <<now, crm, whole, clean, calm>>,
           j.mark = job[i].mark, j.offset = job[i].offset, j.last = job[i].last,
           DOMAIN j.todo \subseteq DOMAIN job[i].todo,
           \A s \in DOMAIN j.todo : j.todo[s] = job[i].todo[s],
           stage = "list" => DOMAIN j.todo = {} /\ ~j.last,
           Stores(i),
           \A r \in Present : Has(i, r) => store'[r] = crm[r] \/ r \in DOMAIN j.todo
    PROVE  Inv'
<1>1. i \in Ingests /\ Fits(pc[i], job[i], now) /\ job[i].offset > 0
    BY DEF Inv, TypeInv, Running, Fits
<1>2. Fits(stage, j, now')
    BY <1>1 DEF Fits, AtRest
<1>3. /\ job' \in [Ingests -> Job] /\ pc' \in [Ingests -> Stages]
      /\ \A k \in Ingests : Fits(pc'[k], job'[k], now')
      /\ IsFiniteSet(Running')
      /\ pc'[i] = stage /\ job'[i] = j
      /\ \A k \in Ingests \ {i} : pc'[k] = pc[k] /\ job'[k] = job[k]
      /\ Running' = Running
    <2>1. stage \in Stages /\ stage \notin AtRest /\ now' \in Nat /\ now <= now'
        BY DEF Stages, AtRest, Inv, TypeInv
    <2>2. /\ job' \in [Ingests -> Job] /\ pc' \in [Ingests -> Stages]
          /\ \A k \in Ingests : Fits(pc'[k], job'[k], now')
          /\ IsFiniteSet(Running')
          /\ pc'[i] = stage /\ job'[i] = j
          /\ \A k \in Ingests \ {i} : pc'[k] = pc[k] /\ job'[k] = job[k]
          /\ Running' = IF stage \in AtRest THEN Running \ {i} ELSE Running \union {i}
        BY <1>1, <1>2, <2>1, JobStep DEF Inv
    <2>. QED BY <2>1, <2>2
<1>4. Present' = Present /\ Counting' = Counting
    <2>1. \A k \in Ingests : job'[k].offset = job[k].offset
        BY <1>3
    <2>2. Counting' = Counting
        <3>1. \A k \in Running : job'[k].offset = job[k].offset
            BY <2>1 DEF Running
        <3>2. whole' = whole /\ Running' = Running
            BY <1>3
        <3>3. {k \in Running' : job'[k].offset > 0} = {k \in Running : job[k].offset > 0}
            BY <3>1, <3>2
        <3>4. CASE whole
            <4>1. Counting = {k \in Running : job[k].offset > 0}
                BY <3>4 DEF Counting
            <4>2. Counting' = {k \in Running' : job'[k].offset > 0}
                BY <3>2, <3>4 DEF Counting
            <4>. QED BY <3>3, <4>1, <4>2
        <3>5. CASE ~whole
            BY <3>2, <3>5 DEF Counting
        <3>. QED BY <3>4, <3>5
    <2>. QED BY <2>2 DEF Present
<1>5. TypeInv'
    <2>1. /\ store' \in [Records -> {None} \union Version]
          /\ \A s \in Records : store'[s] # None => store'[s].at <= now
        BY StoresFacts DEF Stores
    <2>. QED BY <1>3, <1>4, <2>1 DEF Inv, TypeInv
<1>6. /\ \A r \in Present, k \in Ingests \ {i} : Has(k, r)' = Has(k, r)
      /\ \A r \in Present, k \in Ingests : Takes(k, r) => Takes(k, r)'
      /\ \A r \in Present : Has(i, r) => store'[r] = crm[r] \/ Has(i, r)'
    <2>1. \A r \in Present : Position(r)' = Position(r)
        BY DEF Position, Present
    <2>. QED BY <1>3, <2>1 DEF Has, Takes
<1>7. ASSUME NEW r \in Present, Newest(r)
      PROVE  Newest(r)'
    <2>1. \A s \in Records : store'[s] # None => store'[s].at <= crm[r].at
        BY <1>7, StoresFacts
    <2>. QED BY <1>3, <1>7, <2>1 DEF Newest
<1>8. Accounted'
    <2>. SUFFICES ASSUME clean # {}, NEW r \in Present \ Undated
                  PROVE  store'[r] = crm[r] \/ Newest(r)'
                            \/ \E k \in Counting : Has(k, r)' \/ Takes(k, r)'
        BY <1>4 DEF Accounted
    <2>1. store[r] = crm[r] \/ Newest(r) \/ \E k \in Counting : Has(k, r) \/ Takes(k, r)
        BY DEF Inv, Accounted
    <2>2. store[r] = crm[r] => store'[r] = crm[r] \/ Newest(r)
        BY StoresFacts
    <2>3. Counting \subseteq Ingests
        BY DEF Counting, Running
    <2>. QED BY <1>6, <1>7, <2>1, <2>2, <2>3
<1>9. Untouched'
    BY <1>1, <1>3 DEF Untouched
<1>10. Stale'
    <2>. SUFFICES ASSUME clean # {}, NEW k \in Running, NEW r \in DOMAIN job'[k].todo
                  PROVE  r \in Present /\ (job'[k].todo[r] = crm[r] \/ r \in Undated \/ Newest(r)')
        BY <1>3, <1>4 DEF Stale
    <2>1. r \in DOMAIN job[k].todo /\ job'[k].todo[r] = job[k].todo[r]
        BY <1>3 DEF Running
    <2>. QED BY <1>7, <2>1 DEF Inv, Stale
<1>11. Calm' /\ Together'
    <2>1. \A k \in calm : \A r \in DOMAIN job'[k].todo :
              r \in DOMAIN job[k].todo /\ job'[k].todo[r] = job[k].todo[r]
        BY <1>3 DEF Inv, Together, Running
    <2>. QED BY <1>3, <2>1 DEF Inv, Calm, Together
<1>12. Sure'
    <2>. SUFFICES ASSUME NEW k \in clean \intersect calm, pc'[k] # "scan", NEW r \in Present,
                         job'[k].mark = 0 \/ crm[r].at >= job'[k].mark
                  PROVE  store'[r] = crm[r] \/ Has(k, r)' \/ Takes(k, r)'
        BY <1>4 DEF Sure
    <2>1. k \in Ingests /\ k \in Running /\ job'[k].mark = job[k].mark /\ pc[k] # "scan"
        BY <1>3 DEF Inv, Together, Running
    <2>2. i \in calm
        BY <2>1 DEF Inv, Together
    <2>3. store[r] = crm[r] \/ Has(k, r) \/ Takes(k, r)
        BY <2>1 DEF Inv, Sure
    <2>4. store[r] = crm[r] => store'[r] = crm[r]
        BY <2>2, StoresFacts
    <2>. QED BY <1>6, <2>1, <2>3, <2>4
<1>. QED BY <1>5, <1>8, <1>9, <1>10, <1>11, <1>12 DEF Inv

\* A page: what an ingest counted for and has not listed before is now in its hands,
\* or behind a full page of records it takes.
LEMMA ListTakes ==
    ASSUME Inv, NEW i \in Ingests, List(i), NEW r \in Present, Position(r) >= job[i].offset,
           job[i].mark = 0 \/ crm[r].at >= job[i].mark
    PROVE  Has(i, r)' \/ Takes(i, r)'
<1> DEFINE offset == job[i].offset
           mark == job[i].mark
           size == AskFor(job[i].size, job[i].left)
           page == Page(offset, size)
           selected == {s \in page : Selected(mark, crm[s])}
           last == selected # page \/ Cardinality(page) < size
           todo == [s \in selected |-> crm[s]]
           after == offset + Cardinality(page)
<1>1. job[i] \in Job /\ offset \in Nat /\ mark \in Nat
    BY DEF Inv, TypeInv, Job
<1>2. size \in Int
    BY <1>1 DEF AskFor, Job
<1>3. /\ page # {}
      /\ pc' = [pc EXCEPT ![i] = "compare"]
      /\ job' = [job EXCEPT ![i] = [job[i] EXCEPT !.todo = todo, !.offset = after, !.last = last]]
      /\ UNCHANGED <<now, crm, store, whole, clean, calm>>
    BY DEF List, Advanced
<1>4. /\ pc'[i] = "compare" /\ job'[i].mark = mark
      /\ job'[i].todo = todo /\ job'[i].offset = after /\ job'[i].last = last
    <2>1. job[i] \in Job /\ i \in DOMAIN job /\ i \in DOMAIN pc
        BY DEF Inv, TypeInv
    <2>. HIDE DEF size, page, selected, last, todo, after, mark, offset
    <2>. QED BY <1>3, <2>1 DEF Job, mark
<1>5. size \in Nat \ {0}
    <2>1. PICK x \in Present : Position(x) \in offset..(offset + size - 1)
        BY <1>3 DEF Page
    <2>. HIDE DEF size, offset
    <2>. QED BY <1>1, <1>2, <2>1
<1>6. Selected(mark, crm[r])
    BY DEF Selected
<1>7. Position(r) \in Nat /\ Position(r)' = Position(r) /\ Present' = Present
    BY <1>3, Positions DEF Position, Present, Inv
<1>8. CASE r \in page
    <2>1. r \in selected
        BY <1>6, <1>8
    <2>. HIDE DEF selected
    <2>. QED BY <1>3, <1>4, <2>1 DEF Has
<1>9. CASE r \notin page
    <2>1. Position(r) >= offset + size
        <3>1. Position(r) \notin offset..(offset + size - 1)
            BY <1>9 DEF Page
        <3>. HIDE DEF size, offset
        <3>. QED BY <1>1, <1>5, <1>7, <3>1 DEF offset
    <2>2. Cardinality(page) = size
        <3>. HIDE DEF size, offset
        <3>. QED BY <1>1, <1>5, <2>1, PageFull DEF Inv
    <2>3. selected = page
        <3>. SUFFICES ASSUME NEW x \in page, ~Selected(mark, crm[x]) PROVE FALSE
            OBVIOUS
        <3>1. x \in Present /\ Position(x) < offset + size
            <4>1. x \in Present /\ Position(x) \in offset..(offset + size - 1)
                BY DEF Page
            <4>. HIDE DEF size, offset
            <4>. QED BY <1>1, <1>5, <4>1
        <3>2. crm[r].at \in Nat /\ crm[x].at \in Nat
            BY <3>1, PresentType DEF Inv
        <3>3. crm[r].at > crm[x].at
            BY <1>1, <3>2 DEF Selected
        <3>4. Position(r) < Position(x)
            BY <3>1, <3>3, Positions DEF Inv
        <3>5. Position(x) \in Nat
            BY <3>1, Positions DEF Inv
        <3>. HIDE DEF size, offset
        <3>. QED BY <1>1, <1>5, <1>7, <2>1, <3>1, <3>4, <3>5
    <2>4. ~job'[i].last
        <3>1. ~last
            <4>. HIDE DEF size, page, selected
            <4>. QED BY <1>5, <2>2, <2>3
        <3>. HIDE DEF last
        <3>. QED BY <1>4, <3>1
    <2>. HIDE DEF size, page, selected
    <2>. QED BY <1>3, <1>4, <1>7, <2>1, <2>2, <2>4 DEF Takes
<1>. QED BY <1>8, <1>9

LEMMA ListStep == ASSUME Inv, NEW i \in Ingests, List(i) PROVE Inv'
<1> DEFINE size == AskFor(job[i].size, job[i].left)
           page == Page(job[i].offset, size)
           selected == {s \in page : Selected(job[i].mark, crm[s])}
           last == selected # page \/ Cardinality(page) < size
           todo == [s \in selected |-> crm[s]]
           after == job[i].offset + Cardinality(page)
           j == [job[i] EXCEPT !.todo = todo, !.offset = after, !.last = last]
<1>1. /\ pc[i] = "list" /\ page # {}
      /\ pc' = [pc EXCEPT ![i] = "compare"] /\ job' = [job EXCEPT ![i] = j]
      /\ UNCHANGED <<now, crm, store, whole, clean, calm>>
    BY DEF List, Advanced
<1>2. /\ job[i] \in Job /\ Fits(pc[i], job[i], now) /\ i \in Running
      /\ job[i].offset \in Nat /\ DOMAIN job[i].todo = {} /\ ~job[i].last
    BY <1>1 DEF Inv, TypeInv, Fits, Running, AtRest, Job
<1>3. selected \subseteq page /\ page \subseteq Present
    BY DEF Page
<1>4. Cardinality(page) \in Nat \ {0}
    <2>1. IsFiniteSet(page)
        <3>. HIDE DEF page
        <3>. QED BY <1>3, PresentType, FS_Subset DEF Inv
    <2>. HIDE DEF page
    <2>. QED BY <1>1, <2>1, FS_CardinalityType, FS_EmptySet
<1>5. /\ j \in Job /\ j.mark = job[i].mark /\ j.offset = job[i].offset + Cardinality(page)
      /\ j.todo = [s \in selected |-> crm[s]]
    <2>1. [s \in selected |-> crm[s]] \in [selected -> Version] /\ selected \in SUBSET Records
        <3>. HIDE DEF selected
        <3>. QED BY <1>3, PresentType DEF Inv
    <2>2. [s \in selected |-> crm[s]] \in Todos
        <3>. HIDE DEF selected
        <3>. QED BY <2>1 DEF Todos
    <2>3. after \in Nat /\ last \in BOOLEAN
        <3>. HIDE DEF page
        <3>. QED BY <1>2, <1>4
    <2>4. j \in Job /\ j.mark = job[i].mark /\ j.offset = after /\ j.todo = todo
        <3>. HIDE DEF last, todo, after
        <3>. QED BY <1>2, <2>2, <2>3 DEF Job, todo
    <2>. QED BY <2>4
<1>6. Fits("compare", j, now')
    <2>1. \A s \in selected : crm[s].at <= now
        <3>. HIDE DEF selected
        <3>. QED BY <1>3 DEF Inv, TypeInv
    <2>. HIDE DEF selected, page, j, after, last
    <2>. QED BY <1>1, <1>2, <1>4, <1>5, <2>1 DEF Fits, AtRest
<1>. HIDE DEF j, page, size, last, todo, after
<1>7. /\ job' \in [Ingests -> Job] /\ pc' \in [Ingests -> Stages]
      /\ \A k \in Ingests : Fits(pc'[k], job'[k], now')
      /\ IsFiniteSet(Running')
      /\ pc'[i] = "compare" /\ job'[i] = j
      /\ \A k \in Ingests \ {i} : pc'[k] = pc[k] /\ job'[k] = job[k]
      /\ Running' = Running
    <2>1. "compare" \in Stages /\ "compare" \notin AtRest /\ now' \in Nat /\ now <= now'
        BY <1>1 DEF Stages, AtRest, Inv, TypeInv
    <2>2. /\ job' \in [Ingests -> Job] /\ pc' \in [Ingests -> Stages]
          /\ \A k \in Ingests : Fits(pc'[k], job'[k], now')
          /\ IsFiniteSet(Running')
          /\ pc'[i] = "compare" /\ job'[i] = j
          /\ \A k \in Ingests \ {i} : pc'[k] = pc[k] /\ job'[k] = job[k]
          /\ Running' = IF "compare" \in AtRest THEN Running \ {i} ELSE Running \union {i}
        BY <1>1, <1>5, <1>6, <2>1, JobStep DEF Inv
    <2>. QED BY <1>2, <2>1, <2>2
<1>8. Present' = Present
    BY <1>1 DEF Present
<1>9. TypeInv'
    BY <1>1, <1>7, <1>8 DEF Inv, TypeInv
<1>10. /\ \A r \in Present, k \in Ingests \ {i} : Has(k, r)' = Has(k, r) /\ Takes(k, r)' = Takes(k, r)
       /\ \A r \in Present : ~Has(i, r)
    <2>1. \A r \in Present : Position(r)' = Position(r)
        BY <1>1 DEF Position, Present
    <2>. QED BY <1>1, <1>2, <1>7, <2>1 DEF Has, Takes
<1>11. ASSUME NEW r \in Present, Takes(i, r) \/ Newest(r)
       PROVE  Newest(r)' \/ Has(i, r)' \/ Takes(i, r)'
    <2>1. CASE Takes(i, r)
        BY <2>1, ListTakes DEF Takes
    <2>2. CASE Newest(r) /\ ~Newest(r)'
        <3>1. \A k \in Ingests : job'[k].mark = job[k].mark
            BY <1>5, <1>7
        <3>2. PICK s \in selected : ~(crm[s].at <= crm[r].at)
            <4>1. DOMAIN job'[i].todo = selected /\ \A s \in selected : job'[i].todo[s] = crm[s]
                BY <1>5, <1>7
            <4>. HIDE DEF selected
            <4>. QED BY <1>1, <1>7, <2>2, <3>1, <4>1 DEF Newest
        <3>3. s \in Present /\ Position(s) >= job[i].offset
            <4>1. s \in Page(job[i].offset, size)
                BY <3>2 DEF page
            <4>2. size \in Int
                BY <1>2 DEF size, AskFor, Job
            <4>. QED BY <1>2, <4>1, <4>2 DEF Page
        <3>4. crm[s].at \in Nat /\ crm[r].at \in Nat
            BY <3>3, PresentType DEF Inv
        <3>5. Position(s) < Position(r) /\ Position(s) \in Nat /\ Position(r) \in Nat
            BY <3>2, <3>3, <3>4, Positions DEF Inv
        <3>6. Position(r) >= job[i].offset
            BY <1>2, <3>3, <3>5
        <3>7. crm[r].at >= job[i].mark
            <4>1. job[i].mark \in Nat
                BY <1>2 DEF Job
            <4>. QED BY <2>2, <3>4, <4>1 DEF Newest
        <3>. QED BY <3>6, <3>7, ListTakes
    <2>. QED BY <1>11, <2>1, <2>2
<1>12. \A k \in Counting : k \in Ingests /\ k \in Counting'
    <2>1. i \in Counting'
        BY <1>2, <1>4, <1>5, <1>7 DEF Counting
    <2>2. \A k \in Counting \ {i} : k \in Ingests /\ k \in Counting'
        BY <1>1, <1>7 DEF Counting, Running
    <2>. QED BY <2>1, <2>2
<1>13. i \in Counting'
    BY <1>2, <1>4, <1>5, <1>7 DEF Counting
<1>14. Accounted'
    <2>. SUFFICES ASSUME clean # {}, NEW r \in Present \ Undated
                  PROVE  store[r] = crm[r] \/ Newest(r)'
                            \/ \E k \in Counting' : Has(k, r)' \/ Takes(k, r)'
        BY <1>1, <1>8 DEF Accounted
    <2>1. store[r] = crm[r] \/ Newest(r) \/ \E k \in Counting : Has(k, r) \/ Takes(k, r)
        BY DEF Inv, Accounted
    <2>2. CASE Newest(r) \/ Takes(i, r)
        BY <1>11, <1>13, <2>2
    <2>3. CASE \E k \in Counting \ {i} : Has(k, r) \/ Takes(k, r)
        BY <1>10, <1>12, <2>3
    <2>. QED BY <1>10, <2>1, <2>2, <2>3
<1>15. Untouched'
    <2>1. job'[i].offset # 0
        BY <1>2, <1>4, <1>5, <1>7
    <2>. QED BY <1>2, <1>7, <2>1 DEF Untouched
<1>16. Stale'
    <2>. SUFFICES ASSUME clean # {}, NEW k \in Running, NEW r \in DOMAIN job'[k].todo
                  PROVE  r \in Present /\ job'[k].todo[r] = crm[r]
        BY <1>1, <1>7, <1>8 DEF Stale
    <2>1. CASE k = i
        BY <1>3, <1>5, <1>7, <2>1
    <2>2. CASE k # i
        <3>1. job'[k] = job[k]
            BY <1>7, <2>2 DEF Running
        <3>2. k \in calm
            BY <1>2, <2>2 DEF Inv, Together
        <3>. QED BY <3>1, <3>2 DEF Inv, Stale, Calm
    <2>. QED BY <2>1, <2>2
<1>17. Calm' /\ Together'
    <2>1. \A k \in calm : \A r \in DOMAIN job'[k].todo : job'[k].todo[r] = crm[r]
        <3>. SUFFICES ASSUME NEW k \in calm, NEW r \in DOMAIN job'[k].todo
                      PROVE  job'[k].todo[r] = crm[r]
            OBVIOUS
        <3>1. CASE k = i
            BY <1>5, <1>7, <3>1
        <3>2. CASE k # i
            <4>1. job'[k] = job[k]
                BY <1>7, <3>2 DEF Inv, Together, Running
            <4>. QED BY <4>1 DEF Inv, Calm
        <3>. QED BY <3>1, <3>2
    <2>. QED BY <1>1, <1>7, <2>1 DEF Inv, Calm, Together
<1>18. Sure'
    <2>. SUFFICES ASSUME NEW k \in clean \intersect calm, pc'[k] # "scan", NEW r \in Present,
                         job'[k].mark = 0 \/ crm[r].at >= job'[k].mark
                  PROVE  store[r] = crm[r] \/ Has(k, r)' \/ Takes(k, r)'
        BY <1>1, <1>8 DEF Sure
    <2>1. CASE k = i
        <3>1. store[r] = crm[r] \/ Takes(i, r)
            BY <1>1, <1>5, <1>7, <1>10, <2>1 DEF Inv, Sure
        <3>. QED BY <2>1, <3>1, ListTakes DEF Takes
    <2>2. CASE k # i
        <3>1. k \in Ingests \ {i}
            BY <2>2 DEF Inv, Together, Running
        <3>. QED BY <1>7, <1>10, <3>1 DEF Inv, Sure
    <2>. QED BY <2>1, <2>2
<1>. QED BY <1>9, <1>14, <1>15, <1>16, <1>17, <1>18 DEF Inv

\* A complete end: what the ingest held is stored, and it has nothing more to take.
Ends(i) ==
    /\ i \in Running /\ pc[i] # "scan"
    /\ Done(i, TRUE) /\ UNCHANGED <<now, crm>> /\ Stores(i)
    /\ \A r \in Present : Has(i, r) \/ Takes(i, r) => store'[r] = crm[r]

LEMMA ListEndsCases ==
    ASSUME Inv, NEW i \in Ingests, ListEnds(i)
    PROVE  Ends(i) \/ (i \in Running /\ Done(i, FALSE) /\ UNCHANGED <<now, crm, store>>)
<1>1. /\ pc[i] = "list" /\ i \in Running /\ UNCHANGED <<now, crm, store>>
      /\ DOMAIN job[i].todo = {} /\ job[i].offset \in Nat
    BY DEF ListEnds, Running, AtRest, Inv, TypeInv, Fits, Job
<1>2. CASE Done(i, FALSE)
    BY <1>1, <1>2
<1>3. CASE Page(job[i].offset, 1) = {} /\ Done(i, TRUE)
    <2>1. ASSUME NEW r \in Present
          PROVE  ~Has(i, r) /\ ~Takes(i, r)
        <3>1. Position(r) < job[i].offset /\ Position(r) \in Nat
            BY <1>1, <1>3, PageEmpty, Positions DEF Inv
        <3>. QED BY <1>1, <3>1 DEF Has, Takes
    <2>2. Stores(i)
        BY <1>1 DEF Stores, Inv, TypeInv
    <2>. QED BY <1>1, <1>3, <2>1, <2>2 DEF Ends
<1>. QED BY <1>2, <1>3 DEF ListEnds

\* After Compare or Write the ingest is at its end or goes on.
LEMMA CompareCases ==
    ASSUME Inv, NEW i \in Ingests, Compare(i)
    PROVE  Ends(i) \/ (Inv' /\ pc'[i] # "done")
<1> DEFINE todo == job[i].todo
<1>1. PICK read \in SUBSET DOMAIN todo :
        LET known == {r \in read : SameHash(store[r], job[i].todo[r])}
            changed == DOMAIN job[i].todo \ known
            after == [job[i] EXCEPT !.todo = [r \in changed |-> @[r]]]
        IN  /\ pc[i] = "compare"
            /\ IF changed = {}
               THEN Continue(i, after)
               ELSE /\ pc' = [pc EXCEPT ![i] = "write"] /\ job' = [job EXCEPT ![i] = after]
                    /\ UNCHANGED <<whole, clean, calm>>
            /\ UNCHANGED <<now, crm, store>>
    BY DEF Compare
<1> DEFINE known == {r \in read : SameHash(store[r], todo[r])}
           changed == DOMAIN todo \ known
           rest == [r \in changed |-> todo[r]]
           after == [job[i] EXCEPT !.todo = rest]
<1>2. /\ pc[i] = "compare" /\ UNCHANGED <<now, crm, store>>
      /\ IF changed = {}
         THEN Continue(i, after)
         ELSE /\ pc' = [pc EXCEPT ![i] = "write"] /\ job' = [job EXCEPT ![i] = after]
              /\ UNCHANGED <<whole, clean, calm>>
    BY <1>1
<1>3. i \in Running /\ job[i] \in Job /\ todo \in Todos
    BY <1>2 DEF Running, AtRest, Inv, TypeInv, Job
<1>4. changed \subseteq DOMAIN todo /\ \A r \in DOMAIN todo \ changed : store[r] = todo[r]
    BY DEF SameHash
<1>. HIDE DEF changed
<1>5. rest \in Todos /\ DOMAIN rest = changed /\ \A r \in changed : rest[r] = todo[r]
    BY <1>3, <1>4, TodoTypes
<1>. HIDE DEF rest
<1>6. /\ after \in Job /\ after.mark = job[i].mark /\ after.offset = job[i].offset
      /\ after.last = job[i].last /\ after.todo = rest
    BY <1>3, <1>5 DEF Job
<1>. HIDE DEF after
<1>7. Stores(i)
    BY <1>2 DEF Stores, Inv, TypeInv
<1>8. ASSUME NEW r \in Present, Has(i, r)
      PROVE  store'[r] = crm[r] \/ r \in changed
    BY <1>2, <1>4, <1>8 DEF Has
<1>9. CASE changed = {} /\ after.last
    <2>1. Done(i, TRUE)
        BY <1>2, <1>9 DEF Continue
    <2>2. \A r \in Present : ~Takes(i, r)
        BY <1>6, <1>9 DEF Takes
    <2>. QED BY <1>2, <1>3, <1>7, <1>8, <1>9, <2>1, <2>2 DEF Ends
<1>10. CASE changed = {} /\ ~after.last
    <2>1. /\ pc' = [pc EXCEPT ![i] = "list"] /\ job' = [job EXCEPT ![i] = after]
          /\ UNCHANGED <<whole, clean, calm>>
        BY <1>2, <1>10 DEF Continue
    <2>2. Inv'
        BY <1>2, <1>3, <1>4, <1>5, <1>6, <1>7, <1>8, <1>10, <2>1, ProceedStep DEF todo
    <2>3. pc'[i] # "done"
        BY <2>1 DEF Inv, TypeInv
    <2>. QED BY <2>2, <2>3
<1>11. CASE changed # {}
    <2>1. /\ pc' = [pc EXCEPT ![i] = "write"] /\ job' = [job EXCEPT ![i] = after]
          /\ UNCHANGED <<whole, clean, calm>>
        BY <1>2, <1>11
    <2>2. Inv'
        BY <1>2, <1>3, <1>4, <1>5, <1>6, <1>7, <1>8, <2>1, ProceedStep DEF todo
    <2>3. pc'[i] # "done"
        BY <2>1 DEF Inv, TypeInv
    <2>. QED BY <2>2, <2>3
<1>. QED BY <1>9, <1>10, <1>11

LEMMA WriteCases ==
    ASSUME Inv, NEW i \in Ingests, Write(i)
    PROVE  Ends(i) \/ (Inv' /\ pc'[i] # "done")
<1> DEFINE todo == job[i].todo
           batch == Batch(todo)
           rest == DOMAIN todo \ batch
           later == [r \in rest |-> todo[r]]
           left == IF job[i].left = None THEN job[i].left ELSE job[i].left - Cardinality(batch)
           after == [job[i] EXCEPT !.todo = later, !.left = left]
<1>1. /\ pc[i] = "write" /\ UNCHANGED <<now, crm>>
      /\ store' = [r \in Records |-> IF r \in batch THEN todo[r] ELSE store[r]]
      /\ IF rest = {}
         THEN Continue(i, after)
         ELSE job' = [job EXCEPT ![i] = after] /\ UNCHANGED <<pc, whole, clean, calm>>
    BY DEF Write
<1>2. i \in Running /\ job[i] \in Job /\ todo \in Todos
    BY <1>1 DEF Running, AtRest, Inv, TypeInv, Job
<1>3. batch \subseteq DOMAIN todo /\ rest \subseteq DOMAIN todo
    BY DEF Batch
<1>4. later \in Todos /\ DOMAIN later = rest /\ \A r \in rest : later[r] = todo[r]
    <2>. HIDE DEF rest
    <2>. QED BY <1>2, <1>3, TodoTypes
<1>5. left \in Int \union {None}
    <2>1. IsFiniteSet(batch)
        <3>1. batch \in SUBSET Records
            BY <1>2, <1>3, TodoTypes
        <3>. HIDE DEF batch
        <3>. QED BY <3>1, IngestAssumption, FS_Subset
    <2>2. Cardinality(batch) \in Nat
        <3>. HIDE DEF batch
        <3>. QED BY <2>1, FS_CardinalityType
    <2>. HIDE DEF batch
    <2>. QED BY <1>2, <2>2 DEF Job
<1>6. /\ after \in Job /\ after.mark = job[i].mark /\ after.offset = job[i].offset
      /\ after.last = job[i].last /\ after.todo = later
    <2>. HIDE DEF later, left
    <2>. QED BY <1>2, <1>4, <1>5 DEF Job
<1>7. Stores(i)
    <2>. HIDE DEF batch
    <2>1. DOMAIN todo \subseteq Records /\ \A r \in DOMAIN todo : todo[r] \in Version
        BY <1>2, TodoTypes
    <2>2. store' \in [Records -> {None} \union Version]
        BY <1>1, <1>3, <2>1 DEF Inv, TypeInv
    <2>. QED BY <1>1, <1>3, <2>2 DEF Stores
<1>8. ASSUME NEW r \in Present, Has(i, r)
      PROVE  store'[r] = crm[r] \/ r \in rest
    <2>. HIDE DEF batch
    <2>. QED BY <1>1, <1>8 DEF Has, Present
<1>. HIDE DEF batch, rest, later, left, after
<1>9. CASE rest = {} /\ after.last
    <2>1. Done(i, TRUE)
        BY <1>1, <1>9 DEF Continue
    <2>2. \A r \in Present : ~Takes(i, r)
        BY <1>6, <1>9 DEF Takes
    <2>. QED BY <1>1, <1>2, <1>7, <1>8, <1>9, <2>1, <2>2 DEF Ends
<1>10. CASE rest = {} /\ ~after.last
    <2>1. /\ pc' = [pc EXCEPT ![i] = "list"] /\ job' = [job EXCEPT ![i] = after]
          /\ UNCHANGED <<whole, clean, calm>>
        BY <1>1, <1>10 DEF Continue
    <2>2. Inv'
        BY <1>1, <1>2, <1>3, <1>4, <1>6, <1>7, <1>8, <1>10, <2>1, ProceedStep DEF todo
    <2>3. pc'[i] # "done"
        BY <2>1 DEF Inv, TypeInv
    <2>. QED BY <2>2, <2>3
<1>11. CASE rest # {}
    <2>1. /\ pc' = [pc EXCEPT ![i] = "write"] /\ job' = [job EXCEPT ![i] = after]
          /\ UNCHANGED <<whole, clean, calm>>
        BY <1>1, <1>11 DEF Inv, TypeInv
    <2>2. Inv'
        BY <1>1, <1>2, <1>3, <1>4, <1>6, <1>7, <1>8, <2>1, ProceedStep DEF todo
    <2>3. pc'[i] # "done"
        BY <2>1 DEF Inv, TypeInv
    <2>. QED BY <2>2, <2>3
<1>. QED BY <1>9, <1>10, <1>11

-----------------------------------------------------------------------------
(* The theorems *)

LEMMA IngestStep == Inv /\ [Next]_vars => Inv'
<1>. SUFFICES ASSUME Inv, [Next]_vars PROVE Inv'
    OBVIOUS
<1>1. CASE Tick
    BY <1>1, TickStep
<1>2. ASSUME NEW r \in Records, Create(r) \/ Edit(r) \/ Delete(r)
      PROVE  Inv'
    BY <1>2, CreateStep, EditStep, DeleteStep
<1>3. CASE DropCollection
    BY <1>3, DropStep
<1>4. ASSUME NEW i \in Ingests, NEW incremental \in BOOLEAN, NEW limit \in Limits,
             NEW size \in PageSizes, Begin(i, incremental, limit, size)
      PROVE  Inv'
    BY <1>4, BeginStep
<1>5. ASSUME NEW i \in Ingests, Works(i)
      PROVE  Inv'
    <2>1. ASSUME Ends(i)
          PROVE  Inv'
        BY <2>1, EndStep DEF Ends
    <2>2. CASE Scan(i)
        BY <2>2, ScanStep
    <2>3. CASE ListEnds(i)
        BY <2>1, <2>3, ListEndsCases, StopStep
    <2>4. CASE List(i)
        BY <2>4, ListStep
    <2>5. CASE Compare(i)
        BY <2>1, <2>5, CompareCases
    <2>6. CASE Write(i)
        BY <2>1, <2>6, WriteCases
    <2>. QED BY <1>5, <2>2, <2>3, <2>4, <2>5, <2>6 DEF Works
<1>6. ASSUME NEW i \in Ingests, Fail(i)
      PROVE  Inv'
    BY <1>6, FailStep
<1>7. CASE UNCHANGED vars
    <2>1. /\ Present' = Present /\ Running' = Running /\ Counting' = Counting
          /\ Watermark(store)' = Watermark(store)
          /\ \A r \in Present : Newest(r)' = Newest(r)
          /\ \A r \in Present, k \in Ingests : Has(k, r)' = Has(k, r) /\ Takes(k, r)' = Takes(k, r)
        BY <1>7 DEF vars, Present, Running, Counting, Watermark, Newest, Has, Takes, Position
    <2>2. TypeInv'
        BY <1>7, <2>1 DEF vars, Inv, TypeInv
    <2>3. Calm' /\ Together'
        BY <1>7, <2>1 DEF vars, Inv, Calm, Together
    <2>4. Accounted' /\ Untouched' /\ Stale' /\ Sure'
        BY <1>7, <2>1 DEF vars, Inv, Accounted, Untouched, Stale, Sure, Together, Counting, Running
    <2>. QED BY <2>2, <2>3, <2>4 DEF Inv
<1>. QED BY <1>1, <1>2, <1>3, <1>4, <1>5, <1>6, <1>7 DEF Next

LEMMA IngestSafe == Spec => []Inv
BY InitInv, IngestStep, PTL DEF Spec

\* Whenever no ingest runs and the store is said to be whole, a dated record that is not
\* stored as the CRM has it is at least as new as the watermark, so the next incremental
\* ingest (ingest_from_crm_paginated) comes to it before it stops.
THEOREM StoredBehindMark == Spec => []NothingBehind
<1>1. Inv => NothingBehind
    BY DEF Inv, Untouched, NothingBehind
<1>. QED BY <1>1, IngestSafe, PTL

\* An ingest moves no other.
LEMMA OwnStage ==
    ASSUME NEW k \in Ingests, Works(k) \/ Fail(k)
    PROVE  pc' = pc \/ \E stage : pc' = [pc EXCEPT ![k] = stage]
<1>1. ASSUME NEW complete, Done(k, complete)
      PROVE  \E stage : pc' = [pc EXCEPT ![k] = stage]
    BY <1>1 DEF Done
<1>2. ASSUME NEW after, Continue(k, after)
      PROVE  \E stage : pc' = [pc EXCEPT ![k] = stage]
    BY <1>1, <1>2 DEF Continue
<1>3. CASE Scan(k) \/ List(k) \/ Fail(k)
    BY <1>3 DEF Scan, List, Fail
<1>4. CASE ListEnds(k)
    BY <1>1, <1>4 DEF ListEnds
<1>5. CASE Compare(k)
    BY <1>2, <1>5 DEF Compare
<1>6. CASE Write(k)
    BY <1>2, <1>6 DEF Write
<1>. QED BY <1>3, <1>4, <1>5, <1>6 DEF Works

\* An ingest comes to a whole end by its own step only, and that is a complete one.
LEMMA WhoEnds ==
    ASSUME Inv, NEW i \in Running, [Next]_vars, pc'[i] = "done", whole'
    PROVE  Ends(i)
<1>1. i \in Ingests /\ pc[i] # "done" /\ pc[i] \notin AtRest /\ pc \in [Ingests -> Stages]
    BY DEF Running, AtRest, Inv, TypeInv
<1>2. \A k \in Ingests : \A stage : pc' = [pc EXCEPT ![k] = stage] => k = i /\ stage = "done"
    BY <1>1
<1>3. pc' # pc
    BY <1>1
<1>4. ~UNCHANGED vars /\ ~Tick /\ ~DropCollection
    BY <1>3 DEF vars, Tick, DropCollection
<1>5. ASSUME NEW r \in Records, Create(r) \/ Edit(r) \/ Delete(r)
      PROVE  FALSE
    BY <1>3, <1>5 DEF Create, Edit, Delete, Saved, Changed
<1>6. ASSUME NEW k \in Ingests, NEW incremental \in BOOLEAN, NEW limit \in Limits,
             NEW size \in PageSizes, Begin(k, incremental, limit, size)
      PROVE  FALSE
    BY <1>1, <1>2, <1>6 DEF Begin
<1>7. ASSUME NEW k \in Ingests, Works(k) \/ Fail(k)
      PROVE  Ends(i)
    <2>1. k = i
        BY <1>2, <1>3, <1>7, OwnStage
    <2>2. ~Scan(i) /\ ~List(i) /\ ~Fail(i)
        <3>1. /\ Scan(i) => pc'[i] = "list"
              /\ List(i) => pc'[i] = "compare"
              /\ Fail(i) => pc'[i] = "failed"
            BY <1>1 DEF Scan, List, Fail
        <3>. QED BY <3>1
    <2>3. ~Done(i, FALSE)
        BY DEF Done
    <2>. QED BY <1>7, <2>1, <2>2, <2>3, ListEndsCases, CompareCases, WriteCases DEF Works
<1>. QED BY <1>4, <1>5, <1>6, <1>7 DEF Next

\* The last of the undisturbed ingests stores what is missing.
LEMMA EndCatchesUp ==
    ASSUME Inv, NEW i \in clean \intersect calm, Running = {i}, Ends(i),
           NEW r \in Present, r \in Undated => job[i].mark = 0
    PROVE  store'[r] = crm[r]
<1>1. i \in Ingests /\ Counting \subseteq {i} /\ clean # {}
    BY DEF Running, Counting
<1>2. CASE store[r] = crm[r]
    BY <1>2, StoresFacts DEF Ends
<1>3. CASE Has(i, r) \/ Takes(i, r)
    BY <1>3 DEF Ends
<1>4. CASE job[i].mark = 0 \/ crm[r].at >= job[i].mark
    <2>1. store[r] = crm[r] \/ Has(i, r) \/ Takes(i, r)
        BY <1>4 DEF Inv, Sure, Ends
    <2>. QED BY <1>2, <1>3, <2>1
<1>5. CASE Newest(r)
    <2>1. crm[r].at \in Nat /\ job[i].mark \in Nat /\ job[i].mark <= crm[r].at
        BY <1>1, <1>5, PresentType DEF Newest, Inv, TypeInv, Job
    <2>. QED BY <1>4, <2>1
<1>6. r \notin Undated =>
          store[r] = crm[r] \/ Newest(r) \/ \E k \in Counting : Has(k, r) \/ Takes(k, r)
    BY <1>1 DEF Inv, Accounted
<1>. QED BY <1>1, <1>2, <1>3, <1>4, <1>5, <1>6

\* A complete ingest that nothing disturbed, during which nobody saved a record, leaves
\* every record stored as the CRM has it, those without a time after a full ingest.
THEOREM UndisturbedCatchesUp == Spec => CaughtUp
<1> DEFINE Caught ==
        \A i \in clean \intersect calm :
            pc'[i] = "done" /\ whole' /\ Running = {i} =>
                \A r \in Present : (r \in Undated => job[i].mark = 0) =>
                    store'[r] = crm[r]
<1>1. Inv /\ [Next]_vars => [Caught]_vars
    BY WhoEnds, EndCatchesUp
<1>. QED BY <1>1, IngestSafe, PTL DEF Spec, CaughtUp
=============================================================================
