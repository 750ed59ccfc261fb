--------------------------- MODULE Lookups_proofs ---------------------------
(***************************************************************************)
(* Proofs about Lookups: its types, the bound on the daily budgets, the    *)
(* lock of VirusTotal, that a listing is never merged away, and that       *)
(* lookups are deferred only for cause.                                    *)
(***************************************************************************)
EXTENDS Lookups, FiniteSetTheorems, TLAPS

-----------------------------------------------------------------------------
(* Answers *)

LEMMA ReputationType == \A r : Reputation(r) \in Reputations
BY DEF Reputation, Reputations

LEMMA MergeType == \A r, s \in Reputations : Merge(r, s) \in Reputations
BY DEF Merge, Worse

\* Merging never loses a listing, whichever side it is on.
LEMMA MaliciousStays ==
    ASSUME NEW r \in Reputations
    PROVE  Merge(r, "malicious") = "malicious" /\ Merge("malicious", r) = "malicious"
BY DEF Merge, Worse, Severity, Reputations

LEMMA Tier1Type == \A a : Tier1(a) \in Reputations
BY MergeType DEF Tier1, Reputations

LEMMA AnsweredType ==
    ASSUME NEW k \in Tasks, NEW p \in Tier2, NEW r, NEW step \in Steps
    PROVE  /\ Answered(k, p, r, step) \in Tasks
           /\ Answered(k, p, r, step).step = step
           /\ Answered(k, p, r, step).addr = k.addr
           /\ Answered(k, p, r, step).reputation = Merge(Reputation(r), k.reputation)
<1>1. Merge(Reputation(r), k.reputation) \in Reputations
    BY MergeType, ReputationType DEF Tasks
<1>2. (IF r \in Stubs THEN k.deferred \union {p} ELSE k.deferred) \in SUBSET Tier2
    BY DEF Tasks
<1>. QED
    BY <1>1, <1>2 DEF Answered, Tasks

LEMMA IdleType ==
    /\ Idle \in Tasks /\ Idle.step = "idle" /\ Idle.addr = Nobody
    /\ \A a \in Addrs : /\ Hinting(a) \in Tasks
                        /\ Hinting(a).step = "hint" /\ Hinting(a).addr = a
BY DEF Idle, Hinting, Tasks, Steps, Reputations

-----------------------------------------------------------------------------
(* Types *)

\* The part of the type invariant about lookups under way.
TaskOK ==
    /\ task \in [Loops -> Tasks]
    /\ call \in [Paid -> [Loops -> Stages]]
    /\ \A t \in Loops : /\ task[t].step = "idle" <=> task[t].addr = Nobody
                        /\ \A p \in Paid : call[p][t] # "none" <=> p \in keys /\ task[t].step = "paid"

\* The part about what outlives a lookup.
KeptOK ==
    /\ activity \in [Addrs -> Levels]
    /\ row \in [Addrs -> Rows \union {NoRow}]
    /\ wanted \subseteq Addrs
    /\ count \in [Paid -> Nat]
    /\ due \in [Paid -> BOOLEAN]
    /\ cooling \subseteq Tier2
    /\ cache \in [Tier2 -> [Addrs -> Reputations \union {NoAnswer}]]
    /\ keys \subseteq Paid /\ listed \subseteq Addrs
    /\ holder \in Loops \union {Nobody}
    /\ faults \in 0 .. MaxFaults

\* The part about the history of the day.
DayOK ==
    /\ newDay \in [Paid -> BOOLEAN]
    /\ used \in [Paid -> Int] /\ starts \in [Paid -> Nat \ {0}]

LEMMA TypeParts == LookupTypeOK <=> TaskOK /\ KeptOK /\ DayOK
BY DEF LookupTypeOK, TaskOK, KeptOK, DayOK

\* A loop that is not idle has an address.
LEMMA AddrOf ==
    ASSUME TaskOK, NEW t \in Loops, task[t].step # "idle"
    PROVE  task[t].addr \in Addrs /\ task[t] \in Tasks
BY DEF TaskOK, Tasks

LEMMA WeighType ==
    ASSUME TaskOK, NEW t \in Loops, NEW k \in Tasks, k.addr \in Addrs, NEW r,
           Weigh(t, k, r), UNCHANGED keys
    PROVE  TaskOK'
<1>. DEFINE asked == k.high /\ Reputation(r) = "unknown"
            step == IF asked THEN "paid" ELSE "upsert"
            now == Answered(k, "greynoise", r, step)
<1>1. /\ task' = [task EXCEPT ![t] = now]
      /\ call' = [p \in Paid |->
                    [call[p] EXCEPT ![t] = IF asked /\ p \in keys THEN "task" ELSE "none"]]
    BY DEF Weigh
<1>2. now \in Tasks /\ now.step = step /\ now.addr = k.addr
    <2>1. step \in Steps /\ "greynoise" \in Tier2
        BY DEF Steps, Tier2
    <2>. QED
        BY <2>1, AnsweredType
<1>3. task' \in [Loops -> Tasks] /\ task'[t] = now
    BY <1>1, <1>2 DEF TaskOK
<1>4. \A u \in Loops \ {t} : task'[u] = task[u] /\ \A p \in Paid : call'[p][u] = call[p][u]
    BY <1>1 DEF TaskOK
<1>5. call' \in [Paid -> [Loops -> Stages]]
    BY <1>1 DEF TaskOK, Stages
<1>6. \A p \in Paid : call'[p][t] = IF asked /\ p \in keys THEN "task" ELSE "none"
    BY <1>1 DEF TaskOK
<1>7. /\ task'[t].step = "idle" <=> task'[t].addr = Nobody
      /\ \A p \in Paid : call'[p][t] # "none" <=> p \in keys /\ task'[t].step = "paid"
    BY <1>2, <1>3, <1>6, LookupAssumption
<1>. QED
    BY <1>3, <1>4, <1>5, <1>7 DEF TaskOK

\* A change of one lookup that leaves its calls as they are.
LEMMA TaskStep ==
    ASSUME TaskOK, NEW t \in Loops, NEW k \in Tasks,
           k.step = "idle" <=> k.addr = Nobody,
           k.step = "paid" <=> task[t].step = "paid",
           task' = [task EXCEPT ![t] = k], UNCHANGED <<call, keys>>
    PROVE  TaskOK'
<1>1. task' \in [Loops -> Tasks] /\ task'[t] = k
    BY DEF TaskOK
<1>2. \A u \in Loops \ {t} : task'[u] = task[u]
    BY DEF TaskOK
<1>. QED
    BY <1>1, <1>2 DEF TaskOK

LEMMA StartedType ==
    ASSUME TaskOK, NEW t \in Loops, NEW a \in Addrs, NEW level \in Levels,
           task[t].step = "idle", Started(t, a, level), UNCHANGED keys
    PROVE  TaskOK'
<1>. DEFINE Task(step) == [step |-> step, addr |-> a, high |-> level = "high",
                           reputation |-> Tier1(a), deferred |-> {}]
<1>1. \A step \in Steps : /\ Task(step) \in Tasks
                          /\ Task(step).step = step /\ Task(step).addr = a
    BY Tier1Type DEF Tasks
<1>2. a # Nobody
    BY LookupAssumption
<1>3. CASE \E step \in {"upsert", "greynoise"} :
               task' = [task EXCEPT ![t] = Task(step)] /\ UNCHANGED call
    <2>1. PICK step \in {"upsert", "greynoise"} :
               task' = [task EXCEPT ![t] = Task(step)] /\ UNCHANGED call
        BY <1>3
    <2>2. step \in Steps
        BY <2>1 DEF Steps
    <2>. QED
        BY <1>1, <1>2, <2>1, <2>2, TaskStep
<1>4. CASE \E r : Weigh(t, Task("greynoise"), r)
    <2>1. PICK r : Weigh(t, Task("greynoise"), r)
        BY <1>4
    <2>2. "greynoise" \in Steps
        BY DEF Steps
    <2>. QED
        BY <1>1, <2>1, <2>2, WeighType
<1>. QED
    BY <1>3, <1>4 DEF Started

\* An answer of p: the call is done.
LEMMA DoneType ==
    ASSUME TaskOK, NEW p \in Paid, NEW t \in Loops, NEW r,
           call[p][t] # "none", Done(p, t, r), UNCHANGED keys
    PROVE  TaskOK'
<1>1. p \in keys /\ task[t].step = "paid"
    BY DEF TaskOK
<1>2. task[t] \in Tasks /\ task[t].addr \in Addrs
    BY <1>1, AddrOf
<1>. DEFINE now == Answered(task[t], p, r, "paid")
<1>3. now \in Tasks /\ now.step = "paid" /\ now.addr = task[t].addr
    BY <1>2, AnsweredType DEF Steps, Tier2
<1>4. task' = [task EXCEPT ![t] = now]
    BY DEF Done
<1>5. call' = [call EXCEPT ![p] = [call[p] EXCEPT ![t] = "done"]]
    BY DEF Done
<1>6. task' \in [Loops -> Tasks] /\ task'[t] = now /\ \A u \in Loops \ {t} : task'[u] = task[u]
    BY <1>3, <1>4 DEF TaskOK
<1>7. call' \in [Paid -> [Loops -> Stages]]
    BY <1>5 DEF TaskOK, Stages
<1>8. \A q \in Paid, u \in Loops : call'[q][u] = IF q = p /\ u = t THEN "done" ELSE call[q][u]
    BY <1>5 DEF TaskOK
<1>9. \A u \in Loops : /\ task'[u].step = "idle" <=> task'[u].addr = Nobody
                       /\ \A q \in Paid : call'[q][u] # "none" <=> q \in keys /\ task'[u].step = "paid"
    <2>. SUFFICES ASSUME NEW u \in Loops
                  PROVE  /\ task'[u].step = "idle" <=> task'[u].addr = Nobody
                         /\ \A q \in Paid : call'[q][u] # "none" <=> q \in keys /\ task'[u].step = "paid"
        OBVIOUS
    <2>1. CASE u = t
        BY <2>1, <1>1, <1>2, <1>3, <1>6, <1>8, LookupAssumption DEF TaskOK
    <2>2. CASE u # t
        BY <2>2, <1>6, <1>8 DEF TaskOK
    <2>. QED
        BY <2>1, <2>2
<1>. QED
    BY <1>6, <1>7, <1>9 DEF TaskOK

\* A call goes on.
LEMMA CallStep ==
    ASSUME TaskOK, NEW p \in Paid, NEW t \in Loops, NEW stage \in Stages,
           call[p][t] # "none", stage # "none",
           call' = [call EXCEPT ![p] = [@ EXCEPT ![t] = stage]], UNCHANGED <<task, keys>>
    PROVE  TaskOK'
<1>1. call' \in [Paid -> [Loops -> Stages]]
    BY DEF TaskOK
<1>2. \A q \in Paid, u \in Loops : call'[q][u] = IF q = p /\ u = t THEN stage ELSE call[q][u]
    BY DEF TaskOK
<1>. QED
    BY <1>1, <1>2 DEF TaskOK

\* A lookup is over.
LEMMA UncalledType ==
    ASSUME TaskOK, NEW t \in Loops, NEW k \in Tasks,
           k.step \in {"idle", "hint"}, k.step = "idle" <=> k.addr = Nobody,
           task' = [task EXCEPT ![t] = k], Uncalled(t), UNCHANGED keys
    PROVE  TaskOK'
<1>1. task' \in [Loops -> Tasks] /\ task'[t] = k /\ \A u \in Loops \ {t} : task'[u] = task[u]
    BY DEF TaskOK
<1>2. call' \in [Paid -> [Loops -> Stages]]
    BY DEF Uncalled, TaskOK, Stages
<1>3. \A q \in Paid, u \in Loops : call'[q][u] = IF u = t THEN "none" ELSE call[q][u]
    BY DEF Uncalled, TaskOK
<1>. QED
    BY <1>1, <1>2, <1>3 DEF TaskOK

LEMMA NotedType ==
    ASSUME KeptOK, NEW p \in Tier2, NEW a \in Addrs, NEW r, Noted(p, a, r)
    PROVE  /\ cooling' \subseteq Tier2
           /\ cache' \in [Tier2 -> [Addrs -> Reputations \union {NoAnswer}]]
<1>1. cooling' \subseteq Tier2
    BY DEF Noted, KeptOK
<1>2. CASE r = "429"
    BY <1>1, <1>2 DEF Noted, KeptOK
<1>3. CASE r # "429"
    <2>1. cache' = [cache EXCEPT ![p] = [cache[p] EXCEPT ![a] = Reputation(r)]]
        BY <1>3 DEF Noted
    <2>. QED
        BY <1>1, <2>1, ReputationType DEF KeptOK
<1>. QED
    BY <1>2, <1>3

\* Where a request brings the answer that the provider notes.
LEMMA ReplyType ==
    ASSUME TaskOK, KeptOK, NEW p \in Paid, NEW t \in Loops, NEW r, Reply(p, t, r),
           holder' \in Loops \union {Nobody}
    PROVE  TaskOK' /\ KeptOK'
<1>1. call[p][t] = "sent" /\ Noted(p, task[t].addr, r) /\ Done(p, t, r) /\ UNCHANGED keys
    BY DEF Reply, settings
<1>2. TaskOK'
    BY <1>1, DoneType
<1>3. task[t].addr \in Addrs /\ p \in Tier2
    BY <1>1, AddrOf DEF TaskOK, Tier2
<1>4. count' \in [Paid -> Nat]
    BY DEF Reply, KeptOK
<1>5. /\ cooling' \subseteq Tier2
      /\ cache' \in [Tier2 -> [Addrs -> Reputations \union {NoAnswer}]]
    BY <1>1, <1>3, NotedType
<1>. QED
    BY <1>2, <1>4, <1>5 DEF Reply, KeptOK, tables, day, settings

LEMMA AskType ==
    ASSUME TaskOK, KeptOK, NEW p \in Paid, NEW t \in Loops, NEW stage \in {"sent", "waiting"},
           Ask(p, t, stage)
    PROVE  TaskOK' /\ KeptOK'
<1>1. call[p][t] = "task" /\ UNCHANGED keys
    BY DEF Ask, settings
<1>2. \/ \E r : Done(p, t, r)
      \/ call' = [call EXCEPT ![p] = [@ EXCEPT ![t] = stage]] /\ UNCHANGED task
    BY DEF Ask
<1>3. TaskOK'
    <2>1. stage \in Stages /\ stage # "none"
        BY DEF Stages
    <2>. QED
        BY <1>1, <1>2, <2>1, DoneType, CallStep
<1>4. count' \in [Paid -> Nat] /\ due' \in [Paid -> BOOLEAN]
    <2>1. Today(p) \in Nat
        BY DEF Today, KeptOK
    <2>2. \/ UNCHANGED <<count, due>>
          \/ count' = [count EXCEPT ![p] = Today(p)] /\ due' = [due EXCEPT ![p] = FALSE]
        BY DEF Ask
    <2>3. CASE UNCHANGED <<count, due>>
        BY <2>3 DEF KeptOK
    <2>4. CASE count' = [count EXCEPT ![p] = Today(p)] /\ due' = [due EXCEPT ![p] = FALSE]
        BY <2>1, <2>4 DEF KeptOK
    <2>. QED
        BY <2>2, <2>3, <2>4
<1>. QED
    BY <1>3, <1>4 DEF Ask, KeptOK, tables, day, settings

LEMMA FaultType == ASSUME KeptOK, Fault PROVE faults' \in 0 .. MaxFaults
BY LookupAssumption DEF Fault, KeptOK

LEMMA StartType ==
    ASSUME TaskOK, KeptOK, NEW t \in Loops, NEW a \in Addrs, Start(t, a) \/ StartBlind(t, a)
    PROVE  TaskOK' /\ KeptOK'
<1>1. \E level \in Levels : Started(t, a, level)
    BY DEF Start, StartBlind, KeptOK, Levels
<1>2. task[t].step = "idle" /\ UNCHANGED keys
    BY DEF Start, StartBlind, settings
<1>3. TaskOK'
    BY <1>1, <1>2, StartedType
<1>4. faults' \in 0 .. MaxFaults
    BY FaultType DEF Start, StartBlind, KeptOK
<1>. QED
    BY <1>3, <1>4 DEF Start, StartBlind, KeptOK, providers, day, settings

LEMMA WorkType ==
    ASSUME TaskOK, KeptOK, NEW t \in Loops, Work(t)
    PROVE  TaskOK' /\ KeptOK'
<1>1. CASE \E a \in Addrs : Start(t, a) \/ StartBlind(t, a)
    BY <1>1, StartType
<1>2. CASE AskAbuseIPDB(t) \/ AskVirusTotal(t)
    BY <1>2, AskType DEF AskAbuseIPDB, AskVirusTotal
<1>3. CASE Enter(t)
    <2>1. TaskOK'
        <3>1. "sent" \in Stages
            BY DEF Stages
        <3>. QED
            BY <1>3, <3>1, CallStep DEF Enter, settings
    <2>. QED
        BY <1>3, <2>1 DEF Enter, KeptOK, tables, day, settings
<1>4. CASE \E p \in Tier2 : \E r \in Replies(p) : Replied(p, t, r)
    <2>0. PICK p \in Tier2 : \E r \in Replies(p) : Replied(p, t, r)
        BY <1>4
    <2>1. PICK r \in Replies(p) : Replied(p, t, r)
        BY <2>0
    <2>2. CASE ReplyGreyNoise(t, r)
        <3>1. task[t] \in Tasks /\ task[t].addr \in Addrs
            BY <2>2, AddrOf DEF ReplyGreyNoise
        <3>2. TaskOK'
            BY <2>2, <3>1, WeighType DEF ReplyGreyNoise, settings
        <3>3. /\ cooling' \subseteq Tier2
              /\ cache' \in [Tier2 -> [Addrs -> Reputations \union {NoAnswer}]]
            BY <2>2, <3>1, NotedType DEF ReplyGreyNoise, Tier2
        <3>. QED
            BY <2>2, <3>2, <3>3 DEF ReplyGreyNoise, KeptOK, tables, day, settings
    <2>3. CASE ReplyAbuseIPDB(t, r)
        BY <2>3, ReplyType DEF ReplyAbuseIPDB, Reply, KeptOK
    <2>4. CASE ReplyVirusTotal(t, r)
        BY <2>4, ReplyType DEF ReplyVirusTotal, Reply
    <2>. QED
        BY <2>1, <2>2, <2>3, <2>4 DEF Replied
<1>5. CASE Upsert(t)
    <2>1. task[t] \in Tasks /\ task[t].addr \in Addrs
        BY <1>5, AddrOf DEF Upsert, Complete
    <2>2. PICK k \in {Idle, Hinting(task[t].addr)} : task' = [task EXCEPT ![t] = k]
        BY <1>5 DEF Upsert
    <2>3. TaskOK'
        <3>1. /\ k \in Tasks /\ k.step \in {"idle", "hint"}
              /\ k.step = "idle" <=> k.addr = Nobody
            BY <2>1, <2>2, IdleType, LookupAssumption
        <3>2. Uncalled(t) /\ UNCHANGED keys
            BY <1>5 DEF Upsert, settings
        <3>. QED
            BY <2>2, <3>1, <3>2, UncalledType
    <2>4. row' \in [Addrs -> Rows \union {NoRow}]
        <3>1. [reputation |-> task[t].reputation, deferred |-> task[t].deferred] \in Rows
            BY <2>1 DEF Tasks, Rows
        <3>. QED
            BY <1>5, <2>1, <3>1 DEF Upsert, KeptOK
    <2>. QED
        BY <1>5, <2>3, <2>4 DEF Upsert, KeptOK, providers, day, settings
<1>6. CASE Hint(t)
    <2>1. task[t].addr \in Addrs
        BY <1>6, AddrOf DEF Hint
    <2>2. TaskOK'
        BY <1>6, IdleType, TaskStep DEF Hint, settings
    <2>. QED
        BY <1>6, <2>1, <2>2 DEF Hint, KeptOK, Levels, providers, day, settings
<1>7. CASE StatementFails(t)
    <2>1. task[t].addr \in Addrs
        BY <1>7, AddrOf DEF StatementFails, Complete
    <2>2. TaskOK'
        BY <1>7, IdleType, UncalledType DEF StatementFails, settings
    <2>3. faults' \in 0 .. MaxFaults
        BY <1>7, FaultType DEF StatementFails
    <2>. QED
        BY <1>7, <2>1, <2>2, <2>3 DEF StatementFails, KeptOK, providers, day, settings
<1>. QED
    BY <1>1, <1>2, <1>3, <1>4, <1>5, <1>6, <1>7 DEF Work

LEMMA EmptyType ==
    ASSUME task = [t \in Loops |-> Idle], call = NoCalls
    PROVE  TaskOK
BY IdleType DEF TaskOK, NoCalls, Stages

LEMMA WorldType ==
    ASSUME TaskOK, KeptOK, World
    PROVE  TaskOK' /\ KeptOK'
<1>1. CASE Restart
    <2>1. TaskOK'
        BY <1>1, IdleType DEF Restart, TaskOK, NoCalls, Stages
    <2>2. wanted' \subseteq Addrs
        BY <1>1, AddrOf DEF Restart, KeptOK
    <2>3. cache' \in [Tier2 -> [Addrs -> Reputations \union {NoAnswer}]]
        BY <1>1 DEF Restart, NoAnswers
    <2>4. faults' \in 0 .. MaxFaults
        BY <1>1, FaultType DEF Restart
    <2>. QED
        BY <1>1, <2>1, <2>2, <2>3, <2>4 DEF Restart, KeptOK, settings
<1>2. CASE \E p \in Aging, a \in Addrs : Forget(p, a)
    <2>1. PICK p \in Tier2, a \in Addrs : Forget(p, a)
        BY <1>2, LookupAssumption DEF Tier2
    <2>2. cache' = [cache EXCEPT ![p] = [cache[p] EXCEPT ![a] = NoAnswer]]
        BY <2>1 DEF Forget
    <2>3. cache' \in [Tier2 -> [Addrs -> Reputations \union {NoAnswer}]]
        BY <2>2 DEF KeptOK
    <2>. QED
        BY <2>1, <2>3 DEF Forget, TaskOK, KeptOK, tables, day, settings
<1>3. CASE \E a \in Addrs : Rise(a)
    BY <1>3 DEF Rise, TaskOK, KeptOK, providers, day, settings
<1>4. CASE \E a \in Addrs : Requeue(a) \/ RequeueStale(a)
    BY <1>4 DEF Requeue, RequeueStale, TaskOK, KeptOK, providers, day, settings
<1>5. CASE Midnight
    BY <1>5 DEF Midnight, TaskOK, KeptOK, tables, day, settings
<1>6. CASE \E p \in Tier2 : CooldownEnds(p)
    BY <1>6 DEF CooldownEnds, TaskOK, KeptOK, tables, day, settings
<1>. QED
    BY <1>1, <1>2, <1>3, <1>4, <1>5, <1>6 DEF World

LEMMA Sizes ==
    /\ Cardinality(Loops) \in Nat \ {0}
    /\ \A F \in SUBSET Loops : IsFiniteSet(F) /\ Cardinality(F) \in 0 .. Cardinality(Loops)
<1>1. IsFiniteSet(Loops) /\ Loops # {}
    BY LookupAssumption
<1>2. Cardinality(Loops) \in Nat /\ Cardinality(Loops) # 0
    BY <1>1, FS_CardinalityType, FS_EmptySet
<1>3. ASSUME NEW F \in SUBSET Loops
      PROVE  IsFiniteSet(F) /\ Cardinality(F) \in 0 .. Cardinality(Loops)
    <2>1. IsFiniteSet(F) /\ Cardinality(F) <= Cardinality(Loops)
        BY <1>1, <1>3, FS_Subset
    <2>2. Cardinality(F) \in Nat
        BY <2>1, FS_CardinalityType
    <2>. QED
        BY <1>2, <2>1, <2>2
<1>. QED
    BY <1>2, <1>3

\* The steps that have a part in the history of the day.
LEMMA DayKinds ==
    ASSUME [LookupNext]_lookupVars
    PROVE  \/ UNCHANGED day
           \/ \E p \in Paid, n \in {0, 1} : Asked(p, n)
           \/ \E t \in Loops : Enter(t)
           \/ \E p \in Paid, t \in Loops : \E r : Reply(p, t, r)
           \/ Midnight \/ Restart
<1>1. CASE UNCHANGED lookupVars
    BY <1>1 DEF lookupVars, providers
<1>2. CASE World
    BY <1>2 DEF World, Rise, Requeue, RequeueStale, CooldownEnds, Forget, providers
<1>3. ASSUME NEW t \in Loops, Work(t)
      PROVE  \/ UNCHANGED day
             \/ \E p \in Paid, n \in {0, 1} : Asked(p, n)
             \/ Enter(t)
             \/ \E p \in Paid : \E r : Reply(p, t, r)
    <2>1. CASE \E a \in Addrs : Start(t, a) \/ StartBlind(t, a)
        BY <2>1 DEF Start, StartBlind, providers
    <2>2. CASE AskAbuseIPDB(t) \/ AskVirusTotal(t)
        BY <2>2 DEF AskAbuseIPDB, AskVirusTotal, Ask
    <2>3. CASE \E p \in Tier2 : \E r \in Replies(p) : Replied(p, t, r)
        BY <2>3 DEF Replied, ReplyGreyNoise, ReplyAbuseIPDB, ReplyVirusTotal, Reply
    <2>4. CASE Upsert(t) \/ Hint(t) \/ StatementFails(t)
        BY <2>4 DEF Upsert, Hint, StatementFails, providers
    <2>. QED
        BY <1>3, <2>1, <2>2, <2>3, <2>4 DEF Work
<1>. QED
    BY <1>1, <1>2, <1>3 DEF LookupNext

LEMMA OnTheWaySize == \A p : Cardinality(OnTheWay(p)) \in Nat
<1>. SUFFICES ASSUME NEW p PROVE Cardinality(OnTheWay(p)) \in Nat
    OBVIOUS
<1>1. OnTheWay(p) \in SUBSET Loops
    BY DEF OnTheWay
<1>. QED
    BY <1>1, Sizes

LEMMA DayStep ==
    ASSUME DayOK, [LookupNext]_lookupVars
    PROVE  DayOK'
<1>1. CASE UNCHANGED day
    BY <1>1 DEF day, DayOK
<1>2. ASSUME NEW p \in Paid, NEW n \in {0, 1}, Asked(p, n) PROVE DayOK'
    <2>. DEFINE base == IF newDay[p] THEN Cardinality(OnTheWay(p)) ELSE used[p]
    <2>1. base + n \in Int
        BY OnTheWaySize DEF DayOK
    <2>2. used' = [used EXCEPT ![p] = base + n]
        BY <1>2 DEF Asked
    <2>. HIDE DEF base
    <2>3. used' \in [Paid -> Int]
        BY <2>1, <2>2 DEF DayOK
    <2>. QED
        BY <1>2, <2>3 DEF Asked, DayOK
<1>3. ASSUME NEW t \in Loops, Enter(t) PROVE DayOK'
    BY <1>3 DEF Enter, DayOK
<1>4. ASSUME NEW p \in Paid, NEW t \in Loops, NEW r, Reply(p, t, r) PROVE DayOK'
    BY <1>4 DEF Reply, DayOK
<1>5. CASE Midnight
    BY <1>5 DEF Midnight, DayOK
<1>6. CASE Restart
    BY <1>6 DEF Restart, DayOK
<1>. QED
    BY <1>1, <1>2, <1>3, <1>4, <1>5, <1>6, DayKinds

LEMMA TypeStep == LookupTypeOK /\ [LookupNext]_lookupVars => LookupTypeOK'
<1>. SUFFICES ASSUME TaskOK, KeptOK, DayOK, [LookupNext]_lookupVars
              PROVE  TaskOK' /\ KeptOK' /\ DayOK'
    BY TypeParts DEF LookupTypeOK, TaskOK, KeptOK, DayOK
<1>1. CASE UNCHANGED lookupVars
    BY <1>1 DEF lookupVars, tables, providers, settings, TaskOK, KeptOK, day, DayOK
<1>2. CASE World
    BY <1>2, WorldType, DayStep
<1>3. CASE \E t \in Loops : Work(t)
    BY <1>3, WorkType, DayStep
<1>. QED
    BY <1>1, <1>2, <1>3 DEF LookupNext

LEMMA InitType == LookupInit => LookupTypeOK
<1>. SUFFICES ASSUME LookupInit PROVE TaskOK /\ KeptOK /\ DayOK
    BY TypeParts
<1>1. TaskOK
    BY EmptyType DEF LookupInit
<1>2. keys \subseteq Paid /\ listed \subseteq Addrs
    BY LookupAssumption DEF LookupInit
<1>3. cache \in [Tier2 -> [Addrs -> Reputations \union {NoAnswer}]]
    BY DEF LookupInit, NoAnswers
<1>4. DayOK
    BY DEF LookupInit, DayOK
<1>. QED
    BY <1>1, <1>2, <1>3, <1>4, LookupAssumption DEF LookupInit, KeptOK, Levels

\* Every variable of the lookups stays in its range, and only a lookup that asks the
\* providers with a budget has calls of them (TieredProvider.enrich).
THEOREM LookupTypeCorrect == LookupSpec => []LookupTypeOK
BY InitType, TypeStep, PTL DEF LookupSpec

-----------------------------------------------------------------------------
(* Requests under way *)

Flying == {"waiting", "sent"}

\* No request is sent or answered by the step.
SameFlights ==
    \A p \in Paid, u \in Loops :
        call[p][u] \in Flying \/ call[p][u]' \in Flying => call[p][u]' = call[p][u]

\* The steps that neither send, answer nor count a request, though a day may end.
Quiet == /\ SameFlights /\ UNCHANGED <<count, holder, used, starts>>
         /\ \A p \in Paid : due'[p] /\ ~ newDay'[p] => due[p] /\ ~ newDay[p]

LEMMA StillQuiet == SameFlights /\ UNCHANGED <<count, due, holder, day>> => Quiet
BY DEF Quiet, day

\* A loop none of whose calls is out may have its calls replaced.
LEMMA Grounded ==
    ASSUME TaskOK, NEW t \in Loops, \A p \in Paid : call[p][t] \notin Flying,
           TaskOK', \A p \in Paid : call'[p][t] \notin Flying,
           \A p \in Paid, u \in Loops \ {t} : call'[p][u] = call[p][u]
    PROVE  SameFlights
BY DEF SameFlights, TaskOK

LEMMA WeighQuiet ==
    ASSUME TaskOK, TaskOK', NEW t \in Loops, NEW k, NEW r,
           task[t].step # "paid", Weigh(t, k, r)
    PROVE  SameFlights
<1>1. \A p \in Paid : call[p][t] \notin Flying
    BY DEF TaskOK, Flying
<1>2. \A p \in Paid, u \in Loops :
          call'[p][u] = IF u # t THEN call[p][u]
                        ELSE IF (k.high /\ Reputation(r) = "unknown") /\ p \in keys THEN "task" ELSE "none"
    BY DEF Weigh, TaskOK
<1>. QED
    BY <1>1, <1>2, Grounded DEF Flying

\* An idle or unfinished lookup gets its answer outside of the paid providers, and
\* the world turns, without a request of theirs.
LEMMA StartQuiet ==
    ASSUME TaskOK, TaskOK', NEW t \in Loops, NEW a \in Addrs, Start(t, a) \/ StartBlind(t, a)
    PROVE  Quiet
<1>1. task[t].step = "idle" /\ UNCHANGED <<count, due, holder, day>>
    BY DEF Start, StartBlind, providers, day
<1>2. UNCHANGED call \/ \E k, r : Weigh(t, k, r)
    BY DEF Start, StartBlind, Started
<1>. QED
    BY <1>1, <1>2, WeighQuiet, StillQuiet DEF SameFlights

LEMMA UncalledQuiet ==
    ASSUME TaskOK, TaskOK', NEW t \in Loops, Complete(t) \/ task[t].step = "hint", Uncalled(t)
    PROVE  SameFlights
<1>1. \A p \in Paid : call[p][t] \notin Flying
    BY DEF Complete, TaskOK, Flying
<1>2. \A p \in Paid, u \in Loops : call'[p][u] = IF u = t THEN "none" ELSE call[p][u]
    BY DEF Uncalled, TaskOK
<1>. QED
    BY <1>1, <1>2, Grounded DEF Flying

\* An answer that costs no request.
LEMMA DoneQuiet ==
    ASSUME TaskOK, NEW p \in Paid, NEW t \in Loops, NEW r, call[p][t] = "task", Done(p, t, r)
    PROVE  SameFlights
<1>1. \A q \in Paid, u \in Loops : call'[q][u] = IF q = p /\ u = t THEN "done" ELSE call[q][u]
    BY DEF Done, TaskOK
<1>. QED
    BY <1>1 DEF SameFlights, Flying

\* Every other step is one of four kinds.
LEMMA StepKinds ==
    ASSUME LookupTypeOK, LookupTypeOK', [LookupNext]_lookupVars
    PROVE  \/ Quiet
           \/ Restart
           \/ \E t \in Loops : \/ AskAbuseIPDB(t)
                               \/ AskVirusTotal(t)
                               \/ Enter(t)
                               \/ \E r : ReplyAbuseIPDB(t, r) \/ ReplyVirusTotal(t, r)
<1>0. TaskOK /\ TaskOK'
    BY DEF LookupTypeOK, TaskOK
<1>1. CASE UNCHANGED lookupVars
    BY <1>1 DEF lookupVars, providers, day, Quiet, SameFlights
<1>2. CASE World /\ ~ Restart
    <2>1. /\ UNCHANGED <<call, count, holder, used, starts>>
          /\ UNCHANGED <<due, newDay>> \/ newDay' = [p \in Paid |-> TRUE]
        BY <1>2 DEF World, Rise, Requeue, RequeueStale, Midnight, CooldownEnds, Forget, providers, day
    <2>. QED
        BY <2>1 DEF Quiet, SameFlights
<1>3. ASSUME NEW t \in Loops, Work(t), ~ AskAbuseIPDB(t), ~ AskVirusTotal(t), ~ Enter(t),
             \A r : ~ ReplyAbuseIPDB(t, r) /\ ~ ReplyVirusTotal(t, r)
      PROVE  Quiet
    <2>1. CASE \E a \in Addrs : Start(t, a) \/ StartBlind(t, a)
        BY <1>0, <2>1, StartQuiet
    <2>2. CASE \E r : ReplyGreyNoise(t, r)
        <3>1. PICK r : ReplyGreyNoise(t, r)
            BY <2>2
        <3>2. SameFlights
            BY <1>0, <3>1, WeighQuiet DEF ReplyGreyNoise
        <3>. QED
            BY <3>1, <3>2, StillQuiet DEF ReplyGreyNoise
    <2>3. CASE Upsert(t) \/ StatementFails(t)
        <3>1. SameFlights
            BY <1>0, <2>3, UncalledQuiet DEF Upsert, StatementFails
        <3>. QED
            BY <2>3, <3>1 DEF Upsert, StatementFails, Quiet, providers, day
    <2>4. CASE Hint(t)
        BY <2>4 DEF Hint, Quiet, SameFlights, providers, day
    <2>5. \A p \in Tier2 : \A r \in Replies(p) : Replied(p, t, r) => \E q : ReplyGreyNoise(t, q)
        BY <1>3 DEF Replied
    <2>. QED
        BY <1>3, <2>1, <2>2, <2>3, <2>4, <2>5 DEF Work
<1>. QED
    BY <1>1, <1>2, <1>3 DEF LookupNext

-----------------------------------------------------------------------------
(* The lock *)

LEMMA QuietLock ==
    ASSUME LookupTypeOK, OneAtATime, SameFlights, UNCHANGED holder
    PROVE  OneAtATime'
BY DEF OneAtATime, SameFlights, Flying

LEMMA LockStep ==
    ASSUME LookupTypeOK, LookupTypeOK', OneAtATime, [LookupNext]_lookupVars
    PROVE  OneAtATime'
<1>0. TaskOK /\ Nobody \notin Loops
    BY LookupAssumption DEF LookupTypeOK, TaskOK
<1>1. CASE Quiet
    BY <1>1, QuietLock DEF Quiet
<1>2. CASE Restart
    BY <1>0, <1>2 DEF Restart, NoCalls, OneAtATime
<1>3. ASSUME NEW t \in Loops, AskAbuseIPDB(t) \/ AskVirusTotal(t) PROVE OneAtATime'
    <2>1. UNCHANGED holder
        BY <1>3 DEF AskAbuseIPDB, AskVirusTotal, Ask
    <2>2. PICK p \in Paid, stage \in Flying : Ask(p, t, stage) /\ (p = "virustotal" => stage = "waiting")
        BY <1>3 DEF AskAbuseIPDB, AskVirusTotal, Flying
    <2>3. CASE \E r : Done(p, t, r)
        BY <1>0, <2>1, <2>2, <2>3, DoneQuiet, QuietLock DEF Ask
    <2>4. CASE call' = [call EXCEPT ![p] = [@ EXCEPT ![t] = stage]]
        <3>1. \A q \in Paid, u \in Loops : call'[q][u] = IF q = p /\ u = t THEN stage ELSE call[q][u]
            BY <1>0, <2>4 DEF TaskOK
        <3>2. call[p][t] = "task"
            BY <2>2 DEF Ask
        <3>. QED
            BY <2>1, <2>2, <3>1, <3>2 DEF OneAtATime
    <2>. QED
        BY <2>2, <2>3, <2>4 DEF Ask
<1>4. ASSUME NEW t \in Loops, Enter(t) PROVE OneAtATime'
    <2>1. /\ holder = Nobody /\ holder' = t /\ "virustotal" \in Paid
          /\ \A u \in Loops : call'["virustotal"][u] = IF u = t THEN "sent" ELSE call["virustotal"][u]
        BY <1>0, <1>4 DEF Enter, LockFree, TaskOK
    <2>. QED
        BY <1>0, <2>1 DEF OneAtATime
<1>5. ASSUME NEW t \in Loops, NEW r, ReplyAbuseIPDB(t, r) PROVE OneAtATime'
    <2>1. \A u \in Loops : "virustotal" \in Paid => call'["virustotal"][u] = call["virustotal"][u]
        BY <1>0, <1>5 DEF ReplyAbuseIPDB, Reply, Done, TaskOK
    <2>. QED
        BY <1>5, <2>1 DEF ReplyAbuseIPDB, OneAtATime
<1>6. ASSUME NEW t \in Loops, NEW r, ReplyVirusTotal(t, r) PROVE OneAtATime'
    <2>1. /\ "virustotal" \in Paid /\ call["virustotal"][t] = "sent" /\ holder' = Nobody
          /\ \A u \in Loops : call'["virustotal"][u] = IF u = t THEN "done" ELSE call["virustotal"][u]
        BY <1>0, <1>6 DEF ReplyVirusTotal, Reply, Done, TaskOK
    <2>. QED
        BY <1>0, <2>1 DEF OneAtATime
<1>. QED
    BY <1>1, <1>2, <1>3, <1>4, <1>5, <1>6, StepKinds

\* VirusTotal is never asked twice at once, and nobody else holds its lock
\* (VirusTotalProvider.enrich), for any number of loops.
THEOREM OneAtATimeHolds == LookupSpec => []OneAtATime
<1>1. LookupInit => OneAtATime
    BY LookupAssumption DEF LookupInit, OneAtATime, NoCalls
<1>2. LookupTypeOK /\ LookupTypeOK' /\ OneAtATime /\ [LookupNext]_lookupVars => OneAtATime'
    BY LockStep
<1>. QED
    BY <1>1, <1>2, LookupTypeCorrect, PTL DEF LookupSpec

-----------------------------------------------------------------------------
(* The daily budget *)

\* What the bound says of one provider.
Within(p) == count[p] + Cardinality(InFlight(p)) < Quota[p] + Cardinality(Loops)

LEMMA FlightSize ==
    ASSUME NEW p
    PROVE  /\ IsFiniteSet(InFlight(p))
           /\ Cardinality(InFlight(p)) \in 0 .. Cardinality(Loops)
           /\ Cardinality(InFlight(p)') \in 0 .. Cardinality(Loops)
<1>1. InFlight(p) \in SUBSET Loops /\ InFlight(p)' \in SUBSET Loops
    BY DEF InFlight
<1>. QED
    BY <1>1, Sizes

\* As many requests under way, and none counted.
LEMMA SteadyBudget ==
    ASSUME NEW p \in Paid, Within(p), count[p] \in Nat, count'[p] \in Nat,
           count'[p] <= count[p], InFlight(p)' = InFlight(p), Quota[p] \in Nat
    PROVE  Within(p)'
<1>1. Cardinality(InFlight(p)') = Cardinality(InFlight(p)) /\ Cardinality(InFlight(p)) \in Nat
    BY FlightSize
<1>2. Cardinality(Loops) \in Nat
    BY Sizes
<1>. QED
    BY <1>1, <1>2 DEF Within

LEMMA QuietBudget ==
    ASSUME LookupTypeOK, LookupTypeOK', SameFlights, NEW p \in Paid, Within(p),
           count'[p] <= count[p]
    PROVE  Within(p)'
<1>1. InFlight(p)' = InFlight(p)
    BY DEF InFlight, SameFlights, Flying
<1>2. count[p] \in Nat /\ count'[p] \in Nat /\ Quota[p] \in Nat
    BY LookupAssumption DEF LookupTypeOK
<1>. QED
    BY <1>1, <1>2, SteadyBudget

\* A provider that is asked compares its budget with what is left of the day.
LEMMA AskBudget ==
    ASSUME LookupTypeOK, LookupTypeOK', NEW q \in Paid, NEW t \in Loops,
           NEW stage \in Flying, Ask(q, t, stage), NEW p \in Paid, Within(p)
    PROVE  Within(p)'
<1>0. /\ TaskOK /\ call[q][t] = "task"
      /\ count[p] \in Nat /\ count'[p] \in Nat /\ Quota[p] \in Nat /\ Today(p) \in Nat
      /\ Today(p) <= count[p] /\ count \in [Paid -> Nat]
    BY LookupAssumption DEF LookupTypeOK, TaskOK, Ask, Today
<1>1. count'[p] <= count[p]
    <2>1. CASE UNCHANGED count
        BY <1>0, <2>1
    <2>2. CASE count' = [count EXCEPT ![q] = Today(q)]
        BY <1>0, <2>2
    <2>. QED
        BY <2>1, <2>2 DEF Ask
<1>2. CASE \E r : Done(q, t, r)
    BY <1>0, <1>1, <1>2, DoneQuiet, QuietBudget
<1>3. CASE /\ count' = [count EXCEPT ![q] = Today(q)]
           /\ ~ Spent(q, Today(q))
           /\ call' = [call EXCEPT ![q] = [@ EXCEPT ![t] = stage]]
    <2>1. CASE p = q
        <3>1. count'[p] < Quota[p]
            BY <1>0, <1>3, <2>1 DEF Spent
        <3>2. Cardinality(InFlight(p)') \in 0 .. Cardinality(Loops) /\ Cardinality(Loops) \in Nat
            BY FlightSize, Sizes
        <3>. QED
            BY <1>0, <3>1, <3>2 DEF Within
    <2>2. CASE p # q
        <3>1. \A u \in Loops : call'[p][u] = call[p][u]
            BY <1>0, <1>3, <2>2 DEF TaskOK
        <3>2. InFlight(p)' = InFlight(p)
            BY <3>1 DEF InFlight
        <3>. QED
            BY <1>0, <1>1, <3>2, SteadyBudget
    <2>. QED
        BY <2>1, <2>2
<1>. QED
    BY <1>2, <1>3 DEF Ask

\* An answer ends a request before it is counted.
LEMMA ReplyBudget ==
    ASSUME LookupTypeOK, LookupTypeOK', NEW q \in Paid, NEW t \in Loops, NEW r,
           Reply(q, t, r), NEW p \in Paid, Within(p)
    PROVE  Within(p)'
<1>0. /\ TaskOK /\ count \in [Paid -> Nat]
      /\ count[p] \in Nat /\ count'[p] \in Nat /\ Quota[p] \in Nat
    BY LookupAssumption DEF LookupTypeOK, TaskOK
<1>1. \A u \in Loops : call'[p][u] = IF p = q /\ u = t THEN "done" ELSE call[p][u]
    BY <1>0 DEF Reply, Done, TaskOK
<1>2. CASE p = q
    <2>1. t \in InFlight(p) /\ InFlight(p)' = InFlight(p) \ {t}
        BY <1>1, <1>2 DEF InFlight, Reply
    <2>2. Cardinality(InFlight(p)') = Cardinality(InFlight(p)) - 1
        BY <2>1, FlightSize, FS_RemoveElement
    <2>3. count'[p] <= count[p] + 1
        BY <1>0, <1>2 DEF Reply
    <2>4. Cardinality(InFlight(p)) \in Nat /\ Cardinality(Loops) \in Nat
        BY FlightSize, Sizes
    <2>. QED
        BY <1>0, <2>2, <2>3, <2>4 DEF Within
<1>3. CASE p # q
    <2>1. InFlight(p)' = InFlight(p)
        BY <1>1, <1>3 DEF InFlight
    <2>2. count'[p] = count[p]
        BY <1>0, <1>3 DEF Reply
    <2>. QED
        BY <1>0, <2>1, <2>2, SteadyBudget
<1>. QED
    BY <1>2, <1>3

LEMMA EnterBudget ==
    ASSUME LookupTypeOK, LookupTypeOK', NEW t \in Loops, Enter(t), NEW p \in Paid, Within(p)
    PROVE  Within(p)'
<1>0. TaskOK /\ count[p] \in Nat /\ Quota[p] \in Nat
    BY LookupAssumption DEF LookupTypeOK, TaskOK
<1>3. count' = count
    BY DEF Enter
<1>1. \A u \in Loops : /\ call'[p][u] = IF p = "virustotal" /\ u = t THEN "sent" ELSE call[p][u]
                       /\ call["virustotal"][t] = "waiting"
    BY <1>0 DEF Enter, TaskOK
<1>2. InFlight(p)' = InFlight(p)
    BY <1>1 DEF InFlight
<1>. QED
    BY <1>0, <1>3, <1>2, SteadyBudget

LEMMA EmptyBudget ==
    ASSUME NEW p \in Paid
    PROVE  /\ count[p] = 0 /\ InFlight(p) = {} => Within(p)
           /\ count'[p] = 0 /\ InFlight(p)' = {} => Within(p)'
<1>1. Cardinality({}) = 0 /\ Cardinality(Loops) \in Nat \ {0} /\ Quota[p] \in Nat
    BY FS_EmptySet, Sizes, LookupAssumption
<1>2. ASSUME count[p] = 0, InFlight(p) = {} PROVE Within(p)
    BY <1>1, <1>2 DEF Within
<1>3. ASSUME count'[p] = 0, InFlight(p)' = {} PROVE Within(p)'
    BY <1>1, <1>3 DEF Within
<1>. QED
    BY <1>2, <1>3

\* What the counter allows, at any time.
CountBounded == \A p \in Paid : Within(p)

LEMMA CountStep ==
    ASSUME LookupTypeOK, LookupTypeOK', CountBounded, [LookupNext]_lookupVars
    PROVE  CountBounded'
<1>. SUFFICES ASSUME NEW p \in Paid, Within(p) PROVE Within(p)'
    BY DEF CountBounded
<1>1. CASE Quiet
    <2>1. count'[p] <= count[p]
        BY <1>1 DEF Quiet, LookupTypeOK
    <2>. QED
        BY <1>1, <2>1, QuietBudget DEF Quiet
<1>2. CASE Restart
    <2>1. count'[p] = 0 /\ InFlight(p)' = {}
        BY <1>2 DEF Restart, NoCalls, InFlight
    <2>. QED
        BY <2>1, EmptyBudget
<1>3. ASSUME NEW t \in Loops, AskAbuseIPDB(t) \/ AskVirusTotal(t) PROVE Within(p)'
    BY <1>3, AskBudget DEF AskAbuseIPDB, AskVirusTotal, Flying
<1>4. ASSUME NEW t \in Loops, Enter(t) PROVE Within(p)'
    BY <1>4, EnterBudget
<1>5. ASSUME NEW t \in Loops, NEW r, ReplyAbuseIPDB(t, r) \/ ReplyVirusTotal(t, r) PROVE Within(p)'
    BY <1>5, ReplyBudget DEF ReplyAbuseIPDB, ReplyVirusTotal, Reply
<1>. QED
    BY <1>1, <1>2, <1>3, <1>4, <1>5, StepKinds

\* What one process may send in a day, those without an answer left out.
Allowance(p) == Quota[p] + Cardinality(Loops) - 1

LEMMA Allowances ==
    ASSUME NEW p \in Paid, NEW n \in Nat \ {0}
    PROVE  /\ Allowance(p) \in Nat
           /\ (n - 1) * Allowance(p) \in Nat
           /\ n * Allowance(p) = (n - 1) * Allowance(p) + Allowance(p)
           /\ ((n + 1) - 1) * Allowance(p) = n * Allowance(p)
           /\ (1 - 1) * Allowance(p) = 0
<1>1. Allowance(p) \in Nat
    BY Sizes, LookupAssumption DEF Allowance
<1>. QED
    BY <1>1

\* The day's requests are those of the processes before, those that the counter knows of,
\* and those on their way.  A counter that is due on a day that has begun belongs to a
\* process that has not asked.
DayInv(p) ==
    /\ used[p] <= (starts[p] - 1) * Allowance(p) + count[p] + Cardinality(OnTheWay(p))
    /\ due[p] /\ ~ newDay[p] => count[p] = 0 /\ InFlight(p) = {}

\* As many requests under way, and no day begins.
LEMMA SteadyDay ==
    ASSUME NEW p \in Paid, DayInv(p), count'[p] = count[p],
           used'[p] = used[p], starts'[p] = starts[p],
           \A u \in Loops : \/ call'[p][u] = call[p][u]
                            \/ call[p][u] \notin Flying /\ call'[p][u] \notin Flying,
           due'[p] /\ ~ newDay'[p] => due[p] /\ ~ newDay[p]
    PROVE  DayInv(p)'
<1>1. OnTheWay(p)' = OnTheWay(p) /\ InFlight(p)' = InFlight(p)
    BY DEF OnTheWay, InFlight, Flying
<1>2. Allowance(p)' = Allowance(p)
    BY DEF Allowance
<1>. QED
    BY <1>1, <1>2 DEF DayInv

LEMMA WaySize ==
    ASSUME NEW p
    PROVE  /\ IsFiniteSet(OnTheWay(p))
           /\ Cardinality(OnTheWay(p)) \in Nat
           /\ Cardinality(OnTheWay(p)) <= Cardinality(InFlight(p))
<1>1. OnTheWay(p) \in SUBSET Loops
    BY DEF OnTheWay
<1>2. IsFiniteSet(OnTheWay(p)) /\ Cardinality(OnTheWay(p)) \in Nat
    BY <1>1, Sizes
<1>3. OnTheWay(p) \subseteq InFlight(p) /\ IsFiniteSet(InFlight(p))
    BY FlightSize DEF OnTheWay, InFlight
<1>. QED
    BY <1>2, <1>3, FS_Subset

\* One request more is on its way, or one less.
LEMMA OneMore ==
    ASSUME NEW p, NEW t \in Loops
    PROVE  /\ OnTheWay(p)' = OnTheWay(p) \union {t} /\ t \notin OnTheWay(p)
               => Cardinality(OnTheWay(p)') = Cardinality(OnTheWay(p)) + 1
           /\ OnTheWay(p)' = OnTheWay(p) \ {t} /\ t \in OnTheWay(p)
               => Cardinality(OnTheWay(p)') = Cardinality(OnTheWay(p)) - 1
<1>1. t \notin OnTheWay(p)
          => Cardinality(OnTheWay(p) \union {t}) = Cardinality(OnTheWay(p)) + 1
    BY WaySize, FS_AddElement
<1>2. t \in OnTheWay(p) => Cardinality(OnTheWay(p) \ {t}) = Cardinality(OnTheWay(p)) - 1
    BY WaySize, FS_RemoveElement
<1>. QED
    BY <1>1, <1>2

LEMMA Numbers ==
    ASSUME LookupTypeOK, NEW p \in Paid
    PROVE  /\ count[p] \in Nat /\ used[p] \in Int /\ starts[p] \in Nat \ {0}
           /\ due[p] \in BOOLEAN /\ newDay[p] \in BOOLEAN
           /\ (starts[p] - 1) * Allowance(p) \in Nat
BY Allowances DEF LookupTypeOK

\* A question opens the day or goes on with it; either way the counter that it compares
\* is that of this process and this day.
LEMMA AskDay ==
    ASSUME LookupTypeOK, LookupTypeOK', NEW q \in Paid, NEW t \in Loops,
           NEW stage \in Flying, Ask(q, t, stage), stage = "sent" \/ stage = "waiting",
           NEW p \in Paid, DayInv(p)
    PROVE  DayInv(p)'
<1>0. /\ TaskOK /\ call[q][t] = "task" /\ Allowance(p)' = Allowance(p)
      /\ count \in [Paid -> Nat] /\ due \in [Paid -> BOOLEAN]
      /\ newDay \in [Paid -> BOOLEAN] /\ used \in [Paid -> Int]
      /\ starts \in [Paid -> Nat \ {0}]
    BY DEF LookupTypeOK, TaskOK, Ask, Allowance
<1>1. CASE p # q
    <2>1. /\ count'[p] = count[p] /\ due'[p] = due[p] /\ newDay'[p] = newDay[p]
          /\ used'[p] = used[p] /\ starts'[p] = starts[p]
        BY <1>0, <1>1 DEF Ask, Asked, day
    <2>2. \A u \in Loops : call'[p][u] = call[p][u]
        BY <1>0, <1>1 DEF Ask, Done, TaskOK
    <2>. QED
        BY <2>1, <2>2, SteadyDay
<1>2. CASE p = q /\ (\E r : Done(q, t, r)) /\ UNCHANGED <<count, due, day>>
    <2>1. \A u \in Loops : \/ call'[p][u] = call[p][u]
                           \/ call[p][u] \notin Flying /\ call'[p][u] \notin Flying
        BY <1>0, <1>2 DEF Done, TaskOK, Flying
    <2>. QED
        BY <1>2, <2>1, SteadyDay DEF day
<1>3. ASSUME p = q, count' = [count EXCEPT ![q] = Today(q)], due' = [due EXCEPT ![q] = FALSE],
             NEW n \in {0, 1}, Asked(q, n),
             Cardinality(OnTheWay(p)') = Cardinality(OnTheWay(p)) + n
      PROVE  DayInv(p)'
    <2>1. due'[p] = FALSE /\ count'[p] = Today(p)
        BY <1>0, <1>3
    <2>2. Cardinality(OnTheWay(p)) \in Nat
        BY OnTheWaySize
    <2>3. CASE newDay[p]
        <3>1. used'[p] = Cardinality(OnTheWay(p)) + n /\ starts'[p] = 1
            BY <1>0, <1>3, <2>3 DEF Asked
        <3>2. Today(p) \in Nat
            BY <1>0 DEF Today
        <3>3. (starts'[p] - 1) * Allowance(p) = 0
            BY <3>1, Allowances
        <3>. QED
            BY <1>0, <1>3, <2>1, <2>2, <3>1, <3>2, <3>3 DEF DayInv
    <2>4. CASE ~ newDay[p]
        <3>1. used'[p] = used[p] + n /\ starts'[p] = starts[p]
            BY <1>0, <1>3, <2>4 DEF Asked
        <3>2. Today(p) = count[p]
            BY <2>4 DEF DayInv, Today
        <3>3. (starts[p] - 1) * Allowance(p) \in Nat /\ count[p] \in Nat /\ used[p] \in Int
            BY Numbers
        <3>4. used[p] <= (starts[p] - 1) * Allowance(p) + count[p] + Cardinality(OnTheWay(p))
            BY DEF DayInv
        <3>5. used'[p] <= (starts'[p] - 1) * Allowance(p)' + count'[p] + Cardinality(OnTheWay(p)')
            BY <1>0, <1>3, <2>1, <2>2, <3>1, <3>2, <3>3, <3>4
        <3>. QED
            BY <2>1, <3>5 DEF DayInv
    <2>. QED
        BY <2>3, <2>4
<1>4. CASE /\ p = q
           /\ count' = [count EXCEPT ![q] = Today(q)] /\ due' = [due EXCEPT ![q] = FALSE]
           /\ (\E r : Done(q, t, r)) /\ Asked(q, 0)
    <2>1. \A u \in Loops : call'[p][u] = IF u = t THEN "done" ELSE call[p][u]
        BY <1>0, <1>4 DEF Done, TaskOK
    <2>2. OnTheWay(p)' = OnTheWay(p)
        BY <1>0, <1>4, <2>1 DEF OnTheWay
    <2>3. Cardinality(OnTheWay(p)') = Cardinality(OnTheWay(p)) + 0
        BY <2>2, OnTheWaySize
    <2>. QED
        BY <1>3, <1>4, <2>3
<1>5. CASE /\ p = q
           /\ count' = [count EXCEPT ![q] = Today(q)] /\ due' = [due EXCEPT ![q] = FALSE]
           /\ call' = [call EXCEPT ![q] = [@ EXCEPT ![t] = stage]]
           /\ Asked(q, IF stage = "sent" THEN 1 ELSE 0)
    <2>1. \A u \in Loops : call'[p][u] = IF u = t THEN stage ELSE call[p][u]
        BY <1>0, <1>5 DEF TaskOK
    <2>2. CASE stage = "sent"
        <3>1. OnTheWay(p)' = OnTheWay(p) \union {t} /\ t \notin OnTheWay(p)
            BY <1>0, <1>5, <2>1, <2>2 DEF OnTheWay
        <3>2. Cardinality(OnTheWay(p)') = Cardinality(OnTheWay(p)) + 1
            BY <3>1, OneMore
        <3>. QED
            BY <1>3, <1>5, <2>2, <3>2
    <2>3. CASE stage = "waiting"
        <3>1. OnTheWay(p)' = OnTheWay(p)
            BY <1>0, <1>5, <2>1, <2>3 DEF OnTheWay
        <3>2. Cardinality(OnTheWay(p)') = Cardinality(OnTheWay(p)) + 0
            BY <3>1, OnTheWaySize
        <3>. QED
            BY <1>3, <1>5, <2>3, <3>2
    <2>. QED
        BY <2>2, <2>3
<1>. QED
    BY <1>1, <1>2, <1>4, <1>5 DEF Ask

LEMMA EnterDay ==
    ASSUME LookupTypeOK, NEW t \in Loops, Enter(t), NEW p \in Paid, DayInv(p)
    PROVE  DayInv(p)'
<1>0. TaskOK /\ Allowance(p)' = Allowance(p) /\ used \in [Paid -> Int]
    BY DEF LookupTypeOK, TaskOK, Allowance
<1>1. /\ UNCHANGED <<count, due, newDay, starts>> /\ call["virustotal"][t] = "waiting"
      /\ used' = [used EXCEPT !["virustotal"] = @ + 1]
      /\ \A u \in Loops : call'[p][u] = IF p = "virustotal" /\ u = t THEN "sent" ELSE call[p][u]
    BY <1>0 DEF Enter, TaskOK
<1>2. CASE p = "virustotal"
    <2>1. OnTheWay(p)' = OnTheWay(p) \union {t} /\ t \notin OnTheWay(p) /\ t \in InFlight(p)
        BY <1>1, <1>2 DEF OnTheWay, InFlight
    <2>2. Cardinality(OnTheWay(p)') = Cardinality(OnTheWay(p)) + 1
        BY <2>1, OneMore
    <2>3. used'[p] = used[p] + 1
        BY <1>0, <1>1, <1>2
    <2>4. ~ (due'[p] /\ ~ newDay'[p])
        BY <1>1, <2>1 DEF DayInv
    <2>5. Cardinality(OnTheWay(p)) \in Nat
        BY OnTheWaySize
    <2>6. used[p] <= (starts[p] - 1) * Allowance(p) + count[p] + Cardinality(OnTheWay(p))
        BY DEF DayInv
    <2>7. used'[p] <= (starts'[p] - 1) * Allowance(p)' + count'[p] + Cardinality(OnTheWay(p)')
        BY <1>0, <1>1, <2>2, <2>3, <2>5, <2>6, Numbers
    <2>. QED
        BY <2>4, <2>7 DEF DayInv
<1>3. CASE p # "virustotal"
    <2>1. used'[p] = used[p]
        BY <1>0, <1>1, <1>3
    <2>. QED
        BY <1>1, <1>3, <2>1, SteadyDay
<1>. QED
    BY <1>2, <1>3

\* What was on its way is counted, or was not answered.
LEMMA ReplyDay ==
    ASSUME LookupTypeOK, NEW q \in Paid, NEW t \in Loops, NEW r, Reply(q, t, r),
           NEW p \in Paid, DayInv(p)
    PROVE  DayInv(p)'
<1>0. /\ TaskOK /\ Allowance(p)' = Allowance(p)
      /\ used \in [Paid -> Int] /\ count \in [Paid -> Nat]
    BY DEF LookupTypeOK, TaskOK, Allowance
<1>1. /\ UNCHANGED <<due, newDay, starts>> /\ call[q][t] = "sent"
      /\ \A u \in Loops : call'[p][u] = IF p = q /\ u = t THEN "done" ELSE call[p][u]
    BY <1>0 DEF Reply, Done, TaskOK
<1>2. CASE p = q
    <2>1. OnTheWay(p)' = OnTheWay(p) \ {t} /\ t \in OnTheWay(p) /\ t \in InFlight(p)
        BY <1>1, <1>2 DEF OnTheWay, InFlight
    <2>2. Cardinality(OnTheWay(p)') = Cardinality(OnTheWay(p)) - 1
        BY <2>1, OneMore
    <2>3. \/ used'[p] = used[p] - 1 /\ count'[p] = count[p]
          \/ used'[p] = used[p] /\ count'[p] = count[p] + 1
        BY <1>0, <1>2 DEF Reply
    <2>4. ~ (due'[p] /\ ~ newDay'[p])
        BY <1>1, <2>1 DEF DayInv
    <2>5. Cardinality(OnTheWay(p)) \in Nat
        BY OnTheWaySize
    <2>6. used[p] <= (starts[p] - 1) * Allowance(p) + count[p] + Cardinality(OnTheWay(p))
        BY DEF DayInv
    <2>7. used'[p] <= (starts'[p] - 1) * Allowance(p)' + count'[p] + Cardinality(OnTheWay(p)')
        BY <1>0, <1>1, <2>2, <2>3, <2>5, <2>6, Numbers
    <2>. QED
        BY <2>4, <2>7 DEF DayInv
<1>3. CASE p # q
    <2>1. used'[p] = used[p] /\ count'[p] = count[p]
        BY <1>0, <1>3 DEF Reply
    <2>. QED
        BY <1>1, <1>3, <2>1, SteadyDay
<1>. QED
    BY <1>2, <1>3

\* The counter of the process that dies had its allowance; the next one has another.
LEMMA RestartDay ==
    ASSUME LookupTypeOK, Restart, NEW p \in Paid, DayInv(p), Within(p)
    PROVE  DayInv(p)'
<1>1. /\ count'[p] = 0 /\ InFlight(p)' = {} /\ OnTheWay(p)' = {} /\ newDay' = newDay
      /\ starts'[p] = IF newDay[p] THEN 1 ELSE starts[p] + 1
      /\ used'[p] = IF newDay[p] THEN 0 ELSE used[p]
      /\ Allowance(p)' = Allowance(p)
    BY DEF Restart, NoCalls, InFlight, OnTheWay, Allowance
<1>2. Cardinality(OnTheWay(p)') = 0
    BY <1>1, FS_EmptySet
<1>3. CASE newDay[p]
    <2>1. (starts'[p] - 1) * Allowance(p) = 0
        BY <1>1, <1>3, Allowances
    <2>. QED
        BY <1>1, <1>2, <1>3, <2>1 DEF DayInv
<1>4. CASE ~ newDay[p]
    <2>1. /\ starts[p] \in Nat \ {0} /\ used[p] \in Int /\ count[p] \in Nat
          /\ (starts[p] - 1) * Allowance(p) \in Nat
        BY Numbers
    <2>2. (starts'[p] - 1) * Allowance(p) = (starts[p] - 1) * Allowance(p) + Allowance(p)
        BY <1>1, <1>4, <2>1, Allowances
    <2>3. count[p] + Cardinality(OnTheWay(p)) <= Allowance(p)
        <3>1. /\ Cardinality(OnTheWay(p)) <= Cardinality(InFlight(p))
              /\ Cardinality(OnTheWay(p)) \in Nat
            BY WaySize
        <3>2. Cardinality(InFlight(p)) \in Nat /\ Cardinality(Loops) \in Nat /\ Quota[p] \in Nat
            BY FlightSize, Sizes, LookupAssumption
        <3>. QED
            BY <2>1, <3>1, <3>2 DEF Within, Allowance
    <2>4. used[p] <= (starts[p] - 1) * Allowance(p) + count[p] + Cardinality(OnTheWay(p))
        BY DEF DayInv
    <2>5. Cardinality(OnTheWay(p)) \in Nat /\ Allowance(p) \in Nat
        BY <2>1, OnTheWaySize, Allowances
    <2>6. used'[p] <= (starts'[p] - 1) * Allowance(p)' + count'[p] + Cardinality(OnTheWay(p)')
        BY <1>1, <1>2, <1>4, <2>1, <2>2, <2>3, <2>4, <2>5
    <2>. QED
        BY <1>1, <2>6 DEF DayInv
<1>. QED
    BY <1>3, <1>4

LEMMA DayKept ==
    ASSUME LookupTypeOK, LookupTypeOK', [LookupNext]_lookupVars, NEW p \in Paid,
           DayInv(p), Within(p)
    PROVE  DayInv(p)'
<1>1. CASE Quiet
    <2>1. \A u \in Loops : \/ call'[p][u] = call[p][u]
                           \/ call[p][u] \notin Flying /\ call'[p][u] \notin Flying
        BY <1>1 DEF Quiet, SameFlights
    <2>. QED
        BY <1>1, <2>1, SteadyDay DEF Quiet
<1>2. CASE Restart
    BY <1>2, RestartDay
<1>3. ASSUME NEW t \in Loops, AskAbuseIPDB(t) \/ AskVirusTotal(t) PROVE DayInv(p)'
    BY <1>3, AskDay DEF AskAbuseIPDB, AskVirusTotal, Flying
<1>4. ASSUME NEW t \in Loops, Enter(t) PROVE DayInv(p)'
    BY <1>4, EnterDay
<1>5. ASSUME NEW t \in Loops, NEW r, ReplyAbuseIPDB(t, r) \/ ReplyVirusTotal(t, r) PROVE DayInv(p)'
    BY <1>5, ReplyDay DEF ReplyAbuseIPDB, ReplyVirusTotal, Reply
<1>. QED
    BY <1>1, <1>2, <1>3, <1>4, <1>5, StepKinds

LEMMA DayBudget ==
    ASSUME LookupTypeOK, NEW p \in Paid, DayInv(p), Within(p)
    PROVE  used[p] <= starts[p] * (Quota[p] + Cardinality(Loops) - 1)
<1>1. /\ starts[p] \in Nat \ {0} /\ used[p] \in Int /\ count[p] \in Nat
      /\ (starts[p] - 1) * Allowance(p) \in Nat
    BY Numbers
<1>2. starts[p] * Allowance(p) = (starts[p] - 1) * Allowance(p) + Allowance(p)
    BY <1>1, Allowances
<1>3. /\ Cardinality(OnTheWay(p)) <= Cardinality(InFlight(p))
      /\ Cardinality(OnTheWay(p)) \in Nat
    BY WaySize
<1>4. /\ Cardinality(InFlight(p)) \in Nat /\ Cardinality(Loops) \in Nat
      /\ Quota[p] \in Nat /\ Allowance(p) \in Nat
    <2>1. Cardinality(InFlight(p)) \in Nat /\ Cardinality(Loops) \in Nat
        BY FlightSize, Sizes
    <2>2. Quota[p] \in Nat
        BY LookupAssumption
    <2>3. Allowance(p) \in Nat
        BY <1>1, Allowances
    <2>. QED
        BY <2>1, <2>2, <2>3
<1>5. count[p] + Cardinality(OnTheWay(p)) <= Allowance(p)
    BY <1>1, <1>3, <1>4 DEF Within, Allowance
<1>6. used[p] <= starts[p] * Allowance(p)
    BY <1>1, <1>2, <1>3, <1>4, <1>5 DEF DayInv
<1>. QED
    BY <1>6 DEF Allowance

\* The requests of a day that get an answer are at most the budget and one less than there
\* are loops, for every process that worked in the day (_reset_daily_if_needed, enrich of
\* the paid providers): for any quota, any number of loops and any number of restarts,
\* although the counter knows of one process only.
THEOREM BudgetHolds == LookupSpec => []BudgetBounded
<1>. DEFINE BudgetInv == CountBounded /\ \A p \in Paid : DayInv(p)
<1>1. LookupInit => BudgetInv
    <2>. SUFFICES ASSUME LookupInit, NEW p \in Paid PROVE Within(p) /\ DayInv(p)
        BY DEF CountBounded
    <2>1. count[p] = 0 /\ InFlight(p) = {} /\ OnTheWay(p) = {} /\ used[p] = 0 /\ starts[p] = 1
        BY DEF LookupInit, NoCalls, InFlight, OnTheWay
    <2>2. Cardinality(OnTheWay(p)) = 0 /\ (starts[p] - 1) * Allowance(p) = 0
        BY <2>1, FS_EmptySet, Allowances
    <2>. QED
        BY <2>1, <2>2, EmptyBudget DEF DayInv
<1>2. LookupTypeOK /\ LookupTypeOK' /\ BudgetInv /\ [LookupNext]_lookupVars => BudgetInv'
    <2>. SUFFICES ASSUME LookupTypeOK, LookupTypeOK', BudgetInv, [LookupNext]_lookupVars
                  PROVE  CountBounded' /\ \A p \in Paid : DayInv(p)'
        OBVIOUS
    <2>1. CountBounded'
        BY CountStep
    <2>2. \A p \in Paid : DayInv(p)'
        BY DayKept DEF CountBounded
    <2>. QED
        BY <2>1, <2>2
<1>3. LookupTypeOK /\ BudgetInv => BudgetBounded
    BY DayBudget DEF BudgetBounded, CountBounded
<1>. HIDE DEF BudgetInv
<1>. QED
    BY <1>1, <1>2, <1>3, LookupTypeCorrect, PTL DEF LookupSpec

-----------------------------------------------------------------------------
(* Listings *)

\* A lookup of a listed address knows that it is malicious from its start.
VerdictInv ==
    /\ ListedIsVerdict
    /\ \A t \in Loops : task[t].step \notin {"idle", "hint"} /\ task[t].addr \in listed =>
                            task[t].reputation = "malicious"

LEMMA ListedTier1 == \A a \in listed : Tier1(a) = "malicious"
BY MaliciousStays DEF Tier1, Reputations

\* Whatever a lookup becomes next, its verdict stays.
LEMMA VerdictTask ==
    ASSUME LookupTypeOK, VerdictInv, NEW t \in Loops, NEW k,
           task' = [task EXCEPT ![t] = k], UNCHANGED <<row, listed>>,
           k.step \notin {"idle", "hint"} /\ k.addr \in listed => k.reputation = "malicious"
    PROVE  VerdictInv'
BY DEF VerdictInv, ListedIsVerdict, LookupTypeOK

LEMMA VerdictAnswered ==
    ASSUME NEW k \in Tasks, k.addr \in listed => k.reputation = "malicious",
           NEW p \in Tier2, NEW r, NEW step \in Steps
    PROVE  Answered(k, p, r, step).addr \in listed =>
               Answered(k, p, r, step).reputation = "malicious"
<1>1. /\ Answered(k, p, r, step).addr = k.addr
      /\ Answered(k, p, r, step).reputation = Merge(Reputation(r), k.reputation)
    BY AnsweredType
<1>. QED
    BY <1>1, ReputationType, MaliciousStays

LEMMA VerdictWeigh ==
    ASSUME LookupTypeOK, VerdictInv, NEW t \in Loops, NEW r, NEW k \in Tasks,
           k.addr \in listed => k.reputation = "malicious",
           Weigh(t, k, r), UNCHANGED <<row, listed>>
    PROVE  VerdictInv'
<1>1. PICK step \in {"paid", "upsert"} :
           task' = [task EXCEPT ![t] = Answered(k, "greynoise", r, step)]
    BY DEF Weigh
<1>2. step \in Steps /\ "greynoise" \in Tier2
    BY <1>1 DEF Steps, Tier2
<1>3. Answered(k, "greynoise", r, step).addr \in listed =>
          Answered(k, "greynoise", r, step).reputation = "malicious"
    BY <1>2, VerdictAnswered
<1>. QED
    BY <1>1, <1>3, VerdictTask

LEMMA VerdictDone ==
    ASSUME LookupTypeOK, VerdictInv, NEW p \in Paid, NEW t \in Loops, NEW r,
           call[p][t] # "none", Done(p, t, r), UNCHANGED <<row, listed>>
    PROVE  VerdictInv'
<1>1. task[t] \in Tasks /\ task[t].step = "paid"
    BY DEF LookupTypeOK
<1>2. task[t].addr \in listed => task[t].reputation = "malicious"
    BY <1>1 DEF VerdictInv
<1>3. p \in Tier2 /\ "paid" \in Steps
    BY DEF Tier2, Steps
<1>4. Answered(task[t], p, r, "paid").addr \in listed =>
          Answered(task[t], p, r, "paid").reputation = "malicious"
    BY <1>1, <1>2, <1>3, VerdictAnswered
<1>. QED
    BY <1>4, VerdictTask DEF Done

LEMMA VerdictStart ==
    ASSUME LookupTypeOK, VerdictInv, NEW t \in Loops, NEW a \in Addrs,
           Start(t, a) \/ StartBlind(t, a)
    PROVE  VerdictInv'
<1>. DEFINE First(step, level) == [step |-> step, addr |-> a, high |-> level = "high",
                                   reputation |-> Tier1(a), deferred |-> {}]
<1>1. PICK level \in Levels : Started(t, a, level)
    BY DEF Start, StartBlind, LookupTypeOK, Levels
<1>2. UNCHANGED <<row, listed>>
    BY DEF Start, StartBlind, settings
<1>3. \A step \in {"greynoise", "upsert"} :
          /\ First(step, level) \in Tasks
          /\ First(step, level).addr \in listed => First(step, level).reputation = "malicious"
    BY Tier1Type, ListedTier1 DEF Tasks, Steps
<1>4. CASE \E r : Weigh(t, First("greynoise", level), r)
    BY <1>2, <1>3, <1>4, VerdictWeigh
<1>5. CASE \E step \in {"greynoise", "upsert"} : task' = [task EXCEPT ![t] = First(step, level)]
    BY <1>2, <1>3, <1>5, VerdictTask
<1>. QED
    BY <1>1, <1>4, <1>5 DEF Started

LEMMA VerdictStep ==
    ASSUME LookupTypeOK, VerdictInv, [LookupNext]_lookupVars
    PROVE  VerdictInv'
<1>1. CASE UNCHANGED lookupVars \/ (World /\ ~ Restart)
    <2>1. UNCHANGED <<task, row, listed>>
        BY <1>1 DEF World, lookupVars, tables, day, settings, Rise, Requeue, RequeueStale, Midnight,
                    CooldownEnds, Forget
    <2>. QED
        BY <2>1 DEF VerdictInv, ListedIsVerdict
<1>2. CASE Restart
    BY <1>2, IdleType DEF Restart, settings, VerdictInv, ListedIsVerdict
<1>3. ASSUME NEW t \in Loops, Work(t) PROVE VerdictInv'
    <2>1. CASE \E a \in Addrs : Start(t, a) \/ StartBlind(t, a)
        BY <2>1, VerdictStart
    <2>2. ASSUME NEW p \in Paid, NEW stage, Ask(p, t, stage) PROVE VerdictInv'
        <3>1. UNCHANGED <<row, listed>> /\ call[p][t] # "none"
            BY <2>2 DEF Ask, tables, day, settings
        <3>2. CASE \E r : Done(p, t, r)
            BY <3>1, <3>2, VerdictDone
        <3>3. CASE UNCHANGED task
            BY <3>1, <3>3 DEF VerdictInv, ListedIsVerdict
        <3>. QED
            BY <2>2, <3>2, <3>3 DEF Ask
    <2>3. CASE Enter(t)
        BY <2>3 DEF Enter, tables, day, settings, VerdictInv, ListedIsVerdict
    <2>4. ASSUME NEW r, ReplyGreyNoise(t, r) PROVE VerdictInv'
        <3>1. task[t] \in Tasks /\ (task[t].addr \in listed => task[t].reputation = "malicious")
            BY <2>4 DEF ReplyGreyNoise, LookupTypeOK, VerdictInv
        <3>2. Weigh(t, task[t], r) /\ UNCHANGED <<row, listed>>
            BY <2>4 DEF ReplyGreyNoise, tables, day, settings
        <3>. QED
            BY <3>1, <3>2, VerdictWeigh
    <2>5. ASSUME NEW p \in Paid, NEW r, Reply(p, t, r) PROVE VerdictInv'
        <3>1. UNCHANGED <<row, listed>> /\ call[p][t] # "none" /\ Done(p, t, r)
            BY <2>5 DEF Reply, tables, day, settings
        <3>. QED
            BY <3>1, VerdictDone
    <2>6. CASE Upsert(t)
        <3>0. task[t] \in Tasks /\ task[t].addr \in Addrs
            BY <2>6, AddrOf DEF Upsert, Complete, LookupTypeOK, TaskOK
        <3>1. PICK k \in {Idle, Hinting(task[t].addr)} : task' = [task EXCEPT ![t] = k]
            BY <2>6 DEF Upsert
        <3>2. k.step \in {"idle", "hint"}
            BY <3>0, <3>1, IdleType
        <3>3. /\ row' = [row EXCEPT ![task[t].addr] = [reputation |-> task[t].reputation,
                                                       deferred   |-> task[t].deferred]]
              /\ UNCHANGED listed
            BY <2>6 DEF Upsert, settings
        <3>4. task[t].addr \in listed => task[t].reputation = "malicious"
            BY <2>6 DEF Upsert, Complete, VerdictInv
        <3>5. ListedIsVerdict'
            BY <3>0, <3>3, <3>4 DEF ListedIsVerdict, VerdictInv, LookupTypeOK
        <3>. QED
            BY <3>1, <3>2, <3>3, <3>5 DEF VerdictInv, LookupTypeOK
    <2>7. CASE Hint(t) \/ StatementFails(t)
        <3>1. task' = [task EXCEPT ![t] = Idle] /\ UNCHANGED <<row, listed>>
            BY <2>7 DEF Hint, StatementFails, settings
        <3>2. Idle.step = "idle"
            BY IdleType
        <3>. QED
            BY <3>1, <3>2, VerdictTask
    <2>8. CASE AskAbuseIPDB(t) \/ AskVirusTotal(t)
        BY <2>2, <2>8 DEF AskAbuseIPDB, AskVirusTotal
    <2>9. CASE \E p \in Tier2 : \E r \in Replies(p) : Replied(p, t, r)
        <3>1. PICK r : ReplyGreyNoise(t, r) \/ ReplyAbuseIPDB(t, r) \/ ReplyVirusTotal(t, r)
            BY <2>9 DEF Replied
        <3>. QED
            BY <2>4, <2>5, <3>1 DEF ReplyAbuseIPDB, ReplyVirusTotal, Reply
    <2>. QED
        BY <1>3, <2>1, <2>3, <2>6, <2>7, <2>8, <2>9 DEF Work
<1>4. \/ UNCHANGED lookupVars
      \/ World
      \/ \E t \in Loops : Work(t)
    BY DEF LookupNext
<1>. QED
    BY <1>1, <1>2, <1>3, <1>4

\* A listed address is malicious in its row, whatever the other providers answered,
\* refused or left out (TieredProvider.enrich, merge_enrichments).
THEOREM ListingPrevails == LookupSpec => []ListedIsVerdict
<1>1. LookupInit => VerdictInv
    <2>. SUFFICES ASSUME LookupInit PROVE VerdictInv
        OBVIOUS
    <2>1. listed \subseteq Addrs
        BY InitType DEF LookupTypeOK
    <2>2. ListedIsVerdict
        BY <2>1 DEF LookupInit, ListedIsVerdict
    <2>. QED
        BY <2>2, IdleType DEF LookupInit, VerdictInv
<1>2. LookupTypeOK /\ VerdictInv /\ [LookupNext]_lookupVars => VerdictInv'
    BY VerdictStep
<1>3. VerdictInv => ListedIsVerdict
    BY DEF VerdictInv
<1>. QED
    BY <1>1, <1>2, <1>3, LookupTypeCorrect, PTL DEF LookupSpec

-----------------------------------------------------------------------------
(* Deferrals *)

\* Provider p holds off, or has nothing left for today.
HoldsBack(p) == \/ p \in cooling
                \/ p \in Paid /\ ~ due[p] /\ count[p] >= Quota[p]

\* No lookup is deferred by the step but by providers that hold back.
ForCause == \A t \in Loops, p \in Tier2 :
                p \in task'[t].deferred \ task[t].deferred => HoldsBack(p)'

\* What a request brings is a stub only as a 429.
LEMMA RepliedStub ==
    ASSUME NEW p \in Tier2, NEW r \in Replies(p), r \in Stubs
    PROVE  r = "429"
<1>1. Verdicts[p] \subseteq {"malicious", "suspicious", "clean"}
    BY LookupAssumption DEF Tier2
<1>. QED
    BY <1>1 DEF Replies, Stubs

\* What a provider keeps is no stub.
LEMMA CachedNoStub ==
    ASSUME LookupTypeOK, NEW p \in Tier2, NEW a \in Addrs
    PROVE  cache[p][a] \notin Stubs
<1>1. cache \in [Tier2 -> [Addrs -> Reputations \union {NoAnswer}]]
    BY DEF LookupTypeOK
<1>2. cache[p][a] \in Reputations \union {NoAnswer}
    BY <1>1
<1>. QED
    BY <1>2 DEF Reputations, NoAnswer, Stubs

\* A lookup that goes on with one answer more is deferred for the cause of that answer.
LEMMA AnswerForCause ==
    ASSUME LookupTypeOK, NEW t \in Loops, NEW k \in Tasks, NEW q \in Tier2, NEW r, NEW step,
           k.deferred \subseteq task[t].deferred,
           task' = [task EXCEPT ![t] = Answered(k, q, r, step)],
           r \in Stubs => HoldsBack(q)'
    PROVE  ForCause
<1>1. \A u \in Loops : task'[u] = IF u = t THEN Answered(k, q, r, step) ELSE task[u]
    BY DEF LookupTypeOK
<1>2. Answered(k, q, r, step).deferred = IF r \in Stubs THEN k.deferred \union {q} ELSE k.deferred
    BY DEF Answered
<1>. QED
    BY <1>1, <1>2 DEF ForCause

\* A lookup that begins or ends is not deferred by that.
LEMMA FreshForCause ==
    ASSUME LookupTypeOK, NEW t \in Loops, NEW k,
           task' = [task EXCEPT ![t] = k], k.deferred = {}
    PROVE  ForCause
<1>1. \A u \in Loops : task'[u] = IF u = t THEN k ELSE task[u]
    BY DEF LookupTypeOK
<1>. QED
    BY <1>1 DEF ForCause

\* GreyNoise is asked, or its answer is there already.
LEMMA StartForCause ==
    ASSUME LookupTypeOK, NEW t \in Loops, NEW a \in Addrs, NEW level, UNCHANGED cooling,
           task[t].step = "idle", Started(t, a, level)
    PROVE  ForCause
<1>. DEFINE Task(step) == [step |-> step, addr |-> a, high |-> level = "high",
                           reputation |-> Tier1(a), deferred |-> {}]
<1>1. \A step \in Steps : Task(step) \in Tasks /\ Task(step).deferred = {}
    BY Tier1Type DEF Tasks
<1>2. "greynoise" \in Tier2 /\ {"upsert", "greynoise"} \subseteq Steps
    BY DEF Tier2, Steps
<1>3. CASE \E step \in {"upsert", "greynoise"} : task' = [task EXCEPT ![t] = Task(step)]
    BY <1>1, <1>2, <1>3, FreshForCause
<1>4. ASSUME NEW r, Weigh(t, Task("greynoise"), r), r \in Stubs => "greynoise" \in cooling
      PROVE  ForCause
    <2>1. PICK step : task' = [task EXCEPT ![t] = Answered(Task("greynoise"), "greynoise", r, step)]
        BY <1>4 DEF Weigh
    <2>2. r \in Stubs => HoldsBack("greynoise")'
        BY <1>4 DEF HoldsBack
    <2>3. Task("greynoise") \in Tasks /\ Task("greynoise").deferred \subseteq task[t].deferred
        BY <1>1, <1>2
    <2>. HIDE DEF Task
    <2>. QED
        BY <1>2, <2>1, <2>2, <2>3, AnswerForCause
<1>5. cache["greynoise"][a] \notin Stubs
    BY <1>2, CachedNoStub
<1>. QED
    BY <1>3, <1>4, <1>5 DEF Started

\* The cache, the budget, the cooldown.
LEMMA AskForCause ==
    ASSUME LookupTypeOK, NEW p \in Paid, NEW t \in Loops, NEW stage, Ask(p, t, stage)
    PROVE  ForCause
<1>1. p \in Tier2 /\ task[t] \in Tasks
    BY DEF Tier2, LookupTypeOK
<1>2. ASSUME NEW r, Done(p, t, r), r \in Stubs => HoldsBack(p)'
      PROVE  ForCause
    BY <1>1, <1>2, AnswerForCause DEF Done
<1>3. CASE cache[p][task[t].addr] # NoAnswer
    <2>1. task[t].step # "idle"
        BY DEF Ask, LookupTypeOK
    <2>2. cache[p][task[t].addr] \notin Stubs
        BY <1>1, <2>1, CachedNoStub, AddrOf, TypeParts
    <2>. QED
        BY <1>2, <1>3, <2>2 DEF Ask
<1>4. CASE cache[p][task[t].addr] = NoAnswer
    <2>1. /\ count' = [count EXCEPT ![p] = Today(p)]
          /\ due' = [due EXCEPT ![p] = FALSE]
          /\ UNCHANGED cooling
        BY <1>4 DEF Ask
    <2>2. count'[p] = Today(p) /\ ~ due'[p]
        BY <2>1 DEF LookupTypeOK
    <2>3. Spent(p, Today(p)) \/ p \in cooling => HoldsBack(p)'
        BY <2>1, <2>2 DEF Spent, HoldsBack
    <2>4. CASE UNCHANGED task
        BY <2>4 DEF ForCause
    <2>. QED
        BY <1>2, <1>4, <2>3, <2>4 DEF Ask
<1>. QED
    BY <1>3, <1>4

\* A 429 is remembered before it is counted as a deferral.
LEMMA ReplyForCause ==
    ASSUME LookupTypeOK, NEW p \in Tier2, NEW t \in Loops, NEW r \in Replies(p), Replied(p, t, r)
    PROVE  ForCause
<1>1. Noted(p, task[t].addr, r)
    BY DEF Replied, ReplyGreyNoise, ReplyAbuseIPDB, ReplyVirusTotal, Reply
<1>2. r \in Stubs => HoldsBack(p)'
    BY <1>1, RepliedStub DEF Noted, HoldsBack
<1>3. \E step : task' = [task EXCEPT ![t] = Answered(task[t], p, r, step)]
    BY DEF Replied, ReplyGreyNoise, ReplyAbuseIPDB, ReplyVirusTotal, Reply, Done, Weigh
<1>4. task[t] \in Tasks
    BY DEF LookupTypeOK
<1>. QED
    BY <1>2, <1>3, <1>4, AnswerForCause

LEMMA DeferStep ==
    ASSUME LookupTypeOK, [LookupNext]_lookupVars
    PROVE  ForCause
<1>1. CASE UNCHANGED task
    BY <1>1 DEF ForCause
<1>2. CASE Restart
    <2>1. \A t \in Loops : task'[t].deferred = {}
        BY <1>2 DEF Restart, Idle
    <2>. QED
        BY <2>1 DEF ForCause
<1>3. ASSUME NEW t \in Loops, Work(t) PROVE ForCause
    <2>1. CASE \E a \in Addrs : Start(t, a) \/ StartBlind(t, a)
        BY <2>1, StartForCause DEF Start, StartBlind, providers, day
    <2>2. CASE AskAbuseIPDB(t) \/ AskVirusTotal(t)
        BY <2>2, AskForCause DEF AskAbuseIPDB, AskVirusTotal
    <2>3. CASE Enter(t)
        BY <1>1, <2>3 DEF Enter
    <2>4. CASE \E p \in Tier2 : \E r \in Replies(p) : Replied(p, t, r)
        BY <2>4, ReplyForCause
    <2>5. CASE Upsert(t) \/ Hint(t) \/ StatementFails(t)
        <3>1. \E k \in {Idle, Hinting(task[t].addr)} : task' = [task EXCEPT ![t] = k]
            BY <2>5 DEF Upsert, Hint, StatementFails
        <3>2. Idle.deferred = {} /\ Hinting(task[t].addr).deferred = {}
            BY DEF Idle, Hinting
        <3>. QED
            BY <3>1, <3>2, FreshForCause
    <2>. QED
        BY <1>3, <2>1, <2>2, <2>3, <2>4, <2>5 DEF Work
<1>4. CASE World /\ ~ Restart
    BY <1>1, <1>4 DEF World, Rise, Requeue, RequeueStale, Midnight, CooldownEnds, Forget
<1>. QED
    BY <1>1, <1>2, <1>3, <1>4 DEF LookupNext, lookupVars

\* A lookup is deferred only by a provider that holds off after a 429 or has nothing
\* left of its budget, never by an answer kept from such a time (the rate_limited and
\* quota_exhausted answers of each provider's enrich, and what it keeps in its cache).
THEOREM DefersForCause == LookupSpec => DeferredForCause
<1>1. LookupTypeOK /\ [LookupNext]_lookupVars => ForCause
    BY DeferStep
<1>2. ForCause =>
          \A t \in Loops, p \in Tier2 :
              p \in task'[t].deferred \ task[t].deferred =>
                  \/ p \in cooling'
                  \/ p \in Paid /\ ~ due'[p] /\ count'[p] >= Quota[p]
    BY DEF ForCause, HoldsBack
<1>. QED
    BY <1>1, <1>2, LookupTypeCorrect, PTL DEF LookupSpec, DeferredForCause
=============================================================================
