------------------------------- MODULE Lookups -------------------------------
(***************************************************************************)
(* The tiered provider of enrichment/providers.py: what one lookup of an   *)
(* address asks, spends and answers.  The feeds are matched in memory,     *)
(* GreyNoise is asked about addresses that are active, AbuseIPDB and       *)
(* VirusTotal about those that score high and that GreyNoise says nothing  *)
(* about.  A provider keeps answers for a while, holds off after a 429 and *)
(* has a budget for the day, all of it in memory.  The two loops of the    *)
(* worker (module EnrichQueue) look addresses up concurrently, so that     *)
(* every await is a point where the other one may change what was checked. *)
(*                                                                         *)
(* Times are not kept: midnight, the end of a cooldown and the age of a    *)
(* cached answer are steps of their own.  Queue, acknowledgement and       *)
(* attempts are in module EnrichQueue, the feeds' index in module Feeds.   *)
(***************************************************************************)
EXTENDS Integers, FiniteSets

CONSTANTS Addrs,      \* source addresses
          Nobody,     \* neither an address nor a loop
          Loops,      \* the loops that look addresses up: consume, reclaim
          Paid,       \* the providers with a daily budget
          Quota,      \* [Paid -> requests a day]: ABUSEIPDB_DAILY_QUOTA, VT_DAILY_QUOTA
          Setups,     \* the settings and feeds an instance considers
          Verdicts,   \* [Paid and GreyNoise -> the verdicts an instance lets it give]
          Aging,      \* the providers whose answers an instance lets grow old
          MaxFaults   \* bound: failed statements, restarts

ASSUME LookupAssumption ==
    /\ IsFiniteSet(Loops) /\ Loops # {}
    /\ Nobody \notin Addrs \union Loops
    /\ Paid \subseteq {"abuseipdb", "virustotal"}
    /\ Quota \in [Paid -> Nat]
    /\ Setups \subseteq [keys : SUBSET Paid, listed : SUBSET Addrs]
    /\ Verdicts \in [Paid \union {"greynoise"} -> SUBSET {"malicious", "suspicious", "clean"}]
    /\ Aging \subseteq Paid \union {"greynoise"}
    /\ MaxFaults \in Nat

VARIABLES
    activity, \* [Addrs -> Levels]: event_count and threat_score in table ips
    row,      \* [Addrs -> Rows]: ip_enrichment
    wanted,   \* addresses with an entry in the queue
    task,     \* [Loops -> Tasks]: the lookup a loop is in
    call,     \* [Paid -> [Loops -> how far the loop's call of the provider is]]
    count,    \* [Paid -> Nat]: _daily_count
    due,      \* [Paid -> BOOLEAN]: _daily_reset is in the past
    cooling,  \* the providers whose _rate_limited_until is in the future
    cache,    \* [Tier2 -> [Addrs -> answers]]: _cache, what is too old left out
    holder,   \* the loop that has VirusTotal's _lock, or Nobody
    keys,     \* the paid providers that are enabled and have an API key; one
              \* without a key answers nothing, and is left out
    listed,   \* the addresses some feed lists
    newDay,   \* history, [Paid -> BOOLEAN]: not asked since midnight, by any process
    used,     \* history, [Paid -> Nat]: the requests sent in the day, or on their way when
              \* it began, those that got no answer left out
    starts,   \* history, [Paid -> Nat]: how many processes have worked in the day
    faults    \* faults so far

tables    == <<activity, row, wanted>>
day       == <<newDay, used, starts>>
providers == <<count, due, cooling, cache, holder, day>>
settings  == <<keys, listed>>
lookupVars == <<tables, task, call, providers, settings, faults>>

Tier2  == Paid \union {"greynoise"}
Levels == {"low", "active", "high"} \* against TIER2_MIN_EVENTS, TIER2_MIN_THREAT_SCORE,
                                    \* TIER2_HIGH_THREAT_SCORE

-----------------------------------------------------------------------------
(* Answers *)

Severity == [malicious |-> 3, suspicious |-> 2, unknown |-> 1, clean |-> 0]

Reputations == {"malicious", "suspicious", "unknown", "clean"}
Stubs       == {"429", "limited", "exhausted"}
NoAnswer    == "none"

\* What a request may bring: a verdict, or an answer without one, which an unexpected
\* status is too; a 429; no answer at all.
Replies(p) == Verdicts[p] \union {"unknown", "429", "unreached"}

Reputation(r) == IF r \in Reputations THEN r ELSE "unknown"

Worse(r, s) == IF Severity[r] > Severity[s] THEN r ELSE s

\* Mutant: the last answer counts.
LastSays(r, s) == r

\* merge_enrichments, for one answer more.
Merge(r, s) == Worse(r, s)

\* TieredProvider.enrich: the feeds' part of the answer.
Tier1(a) == Merge(IF a \in listed THEN "malicious" ELSE "unknown", "unknown")

Rows  == [reputation : Reputations, deferred : SUBSET Tier2]
NoRow == [reputation |-> NoAnswer, deferred |-> {}]

Steps  == {"idle", "greynoise", "paid", "upsert", "hint"}
Stages == {"none", "task", "waiting", "sent", "done"}
Tasks  == [step : Steps, addr : Addrs \union {Nobody}, high : BOOLEAN,
           reputation : Reputations, deferred : SUBSET Tier2]

Idle == [step |-> "idle", addr |-> Nobody, high |-> FALSE,
         reputation |-> "unknown", deferred |-> {}]

\* The lookup is over but for the hint to table ips.
Hinting(a) == [step |-> "hint", addr |-> a, high |-> FALSE,
               reputation |-> "unknown", deferred |-> {}]

\* The lookup k, one answer further: a stub counts as deferred.
Answered(k, p, r, step) ==
    [step |-> step, addr |-> k.addr, high |-> FALSE,
     reputation |-> Merge(Reputation(r), k.reputation),
     deferred   |-> IF r \in Stubs THEN k.deferred \union {p} ELSE k.deferred]

Fault == /\ faults < MaxFaults
         /\ faults' = faults + 1

-----------------------------------------------------------------------------
(* TieredProvider.enrich: the feeds, the gate, GreyNoise *)

\* GreyNoise's answer r is there.  The others are asked, concurrently, if the address
\* scores high and r is inconclusive.
Weigh(t, k, r) ==
    LET asked == k.high /\ Reputation(r) = "unknown"
    IN  /\ task' = [task EXCEPT ![t] = Answered(k, "greynoise", r,
                                                IF asked THEN "paid" ELSE "upsert")]
        /\ call' = [p \in Paid |->
                      [call[p] EXCEPT ![t] = IF asked /\ p \in keys THEN "task" ELSE "none"]]

\* A loop takes an address: the feeds are matched, the activity was read as level, and
\* GreyNoise is asked if it is enough.
Started(t, a, level) ==
    LET Task(step) == [step |-> step, addr |-> a, high |-> level = "high",
                       reputation |-> Tier1(a), deferred |-> {}]
    IN  IF level = "low"
        THEN /\ task' = [task EXCEPT ![t] = Task("upsert")]
             /\ UNCHANGED call
        ELSE IF cache["greynoise"][a] # NoAnswer
             THEN Weigh(t, Task("greynoise"), cache["greynoise"][a])
             ELSE IF "greynoise" \in cooling
                  THEN Weigh(t, Task("greynoise"), "limited")
                  ELSE /\ task' = [task EXCEPT ![t] = Task("greynoise")]
                       /\ UNCHANGED call

Start(t, a) ==
    /\ task[t].step = "idle"
    /\ a \in wanted
    /\ wanted' = wanted \ {a}
    /\ Started(t, a, activity[a])
    /\ UNCHANGED <<activity, row, providers, faults, settings>>

\* _activity fails: the address counts as inactive.
StartBlind(t, a) ==
    /\ task[t].step = "idle"
    /\ a \in wanted
    /\ Fault
    /\ wanted' = wanted \ {a}
    /\ Started(t, a, "low")
    /\ UNCHANGED <<activity, row, providers, settings>>

\* Mutant: what is kept may be a 429.
NotedToo(p, a, r) ==
    /\ cooling' = IF r = "429" THEN cooling \union {p} ELSE cooling
    /\ cache' = [cache EXCEPT ![p] = [@ EXCEPT ![a] = IF r = "429" THEN r ELSE Reputation(r)]]

\* What a provider remembers of an answer r to a request.
Noted(p, a, r) ==
    /\ cooling' = IF r = "429" THEN cooling \union {p} ELSE cooling
    /\ cache' = IF r = "429" THEN cache
                ELSE [cache EXCEPT ![p] = [@ EXCEPT ![a] = Reputation(r)]]

ReplyGreyNoise(t, r) ==
    /\ task[t].step = "greynoise"
    /\ r \in Replies("greynoise") \ {"suspicious"}
    /\ Noted("greynoise", task[t].addr, r)
    /\ Weigh(t, task[t], r)
    /\ UNCHANGED <<tables, count, due, holder, day, faults, settings>>

-----------------------------------------------------------------------------
(* AbuseIPDBProvider.enrich, VirusTotalProvider.enrich *)

\* Mutant: the budget is spent only when it is overspent.
SpentLate(p, n) == n > Quota[p]

Spent(p, n) == n >= Quota[p]

\* Mutant: the counter of the day before is kept.
CountKept(p) == count[p]

\* _reset_daily_if_needed
Today(p) == IF due[p] THEN 0 ELSE count[p]

Done(p, t, r) ==
    /\ call' = [call EXCEPT ![p] = [@ EXCEPT ![t] = "done"]]
    /\ task' = [task EXCEPT ![t] = Answered(task[t], p, r, "paid")]

OnTheWay(p) == {t \in Loops : call[p][t] = "sent"}

\* The history of a day, which begins with the first question after midnight.
Asked(p, requests) ==
    /\ newDay' = [newDay EXCEPT ![p] = FALSE]
    /\ used' = [used EXCEPT ![p] = (IF newDay[p] THEN Cardinality(OnTheWay(p)) ELSE @) + requests]
    /\ starts' = [starts EXCEPT ![p] = IF newDay[p] THEN 1 ELSE @]

\* Up to the first await: the cache, the budget, the cooldown.
Ask(p, t, stage) ==
    /\ call[p][t] = "task"
    /\ IF cache[p][task[t].addr] # NoAnswer
       THEN /\ Done(p, t, cache[p][task[t].addr])
            /\ UNCHANGED <<count, due, day>>
       ELSE /\ count' = [count EXCEPT ![p] = Today(p)]
            /\ due' = [due EXCEPT ![p] = FALSE]
            /\ IF Spent(p, Today(p))
               THEN Done(p, t, "exhausted") /\ Asked(p, 0)
               ELSE IF p \in cooling
                    THEN Done(p, t, "limited") /\ Asked(p, 0)
                    ELSE /\ call' = [call EXCEPT ![p] = [@ EXCEPT ![t] = stage]]
                         /\ Asked(p, IF stage = "sent" THEN 1 ELSE 0)
                         /\ UNCHANGED task
    /\ UNCHANGED <<tables, cooling, cache, holder, faults, settings>>

AskAbuseIPDB(t) ==
    /\ "abuseipdb" \in Paid
    /\ Ask("abuseipdb", t, "sent")

\* VirusTotal's requests are sent one at a time: the lock comes after the checks.
AskVirusTotal(t) ==
    /\ "virustotal" \in Paid
    /\ Ask("virustotal", t, "waiting")

\* Mutant: the lock is not waited for.
LockIgnored == TRUE

LockFree == holder = Nobody

\* The lock is there, and the interval since the last request is over.
Enter(t) ==
    /\ "virustotal" \in Paid
    /\ call["virustotal"][t] = "waiting"
    /\ LockFree
    /\ holder' = t
    /\ call' = [call EXCEPT !["virustotal"] = [@ EXCEPT ![t] = "sent"]]
    /\ used' = [used EXCEPT !["virustotal"] = @ + 1]
    /\ UNCHANGED <<tables, task, count, due, cooling, cache, newDay, starts, faults, settings>>

\* A request that was answered counts, whatever the answer.  One that was not does not,
\* though the provider may have seen it.
Reply(p, t, r) ==
    /\ p \in Paid
    /\ call[p][t] = "sent"
    /\ IF r = "unreached"
       THEN used' = [used EXCEPT ![p] = @ - 1] /\ UNCHANGED count
       ELSE count' = [count EXCEPT ![p] = @ + 1] /\ UNCHANGED used
    /\ Noted(p, task[t].addr, r)
    /\ Done(p, t, r)
    /\ UNCHANGED <<tables, due, newDay, starts, faults, settings>>

ReplyAbuseIPDB(t, r) ==
    /\ r \in Replies("abuseipdb")
    /\ Reply("abuseipdb", t, r)
    /\ UNCHANGED holder

ReplyVirusTotal(t, r) ==
    /\ r \in Replies("virustotal")
    /\ Reply("virustotal", t, r)
    /\ holder' = Nobody

-----------------------------------------------------------------------------
(* enrich_one, handle_message, refresh_loop: what becomes of an answer *)

Complete(t) ==
    \/ task[t].step = "upsert"
    \/ task[t].step = "paid" /\ \A p \in keys : call[p][t] = "done"

\* Mutant: the calls of a lookup that is over are kept.
StillCalled(t) == UNCHANGED call

Uncalled(t) == call' = [p \in Paid |-> [call[p] EXCEPT ![t] = "none"]]

\* The merged answer becomes the row.  AbuseIPDB may call a suspicious address a known
\* attacker.
Upsert(t) ==
    /\ Complete(t)
    /\ row' = [row EXCEPT ![task[t].addr] = [reputation |-> task[t].reputation,
                                             deferred   |-> task[t].deferred]]
    /\ Uncalled(t)
    /\ \E attacker \in IF task[t].reputation = "suspicious" THEN BOOLEAN
                       ELSE {task[t].reputation = "malicious"} :
           task' = [task EXCEPT ![t] = IF attacker THEN Hinting(task[t].addr) ELSE Idle]
    /\ UNCHANGED <<activity, wanted, providers, faults, settings>>

\* The hint to ips.threat_score: 60, which is high.
Hint(t) ==
    /\ task[t].step = "hint"
    /\ activity' = [activity EXCEPT ![task[t].addr] = "high"]
    /\ task' = [task EXCEPT ![t] = Idle]
    /\ UNCHANGED <<row, wanted, call, providers, faults, settings>>

\* A statement fails: the address is queued once more.
StatementFails(t) ==
    /\ Complete(t) \/ task[t].step = "hint"
    /\ Fault
    /\ wanted' = wanted \union {task[t].addr}
    /\ task' = [task EXCEPT ![t] = Idle]
    /\ Uncalled(t)
    /\ UNCHANGED <<activity, row, providers, settings>>

\* A row that its deferred providers left unknown.
Waiting(a) == row[a].reputation = "unknown" /\ row[a].deferred # {}

\* refresh_loop: no row, or one to be tried again after REFRESH_RETRY.
Requeue(a) ==
    /\ row[a] = NoRow \/ Waiting(a)
    /\ a \notin wanted
    /\ wanted' = wanted \union {a}
    /\ UNCHANGED <<activity, row, task, call, providers, faults, settings>>

\* refresh_loop: a row older than REFRESH_STALE of an address seen in the last day.
RequeueStale(a) ==
    /\ row[a] # NoRow
    /\ a \notin wanted
    /\ wanted' = wanted \union {a}
    /\ UNCHANGED <<activity, row, task, call, providers, faults, settings>>

-----------------------------------------------------------------------------
(* Time, the rest of the system, restarts *)

\* Events come in, and the analytics engine scores them.
Rise(a) ==
    /\ activity[a] # "high"
    /\ \E level \in Levels \ {"low", activity[a]} : activity' = [activity EXCEPT ![a] = level]
    /\ UNCHANGED <<row, wanted, task, call, providers, faults, settings>>

Midnight ==
    /\ due' = [p \in Paid |-> TRUE]
    /\ newDay' = [p \in Paid |-> TRUE]
    /\ UNCHANGED <<tables, task, call, count, cooling, cache, holder, used, starts, faults,
                   settings>>

CooldownEnds(p) ==
    /\ p \in cooling
    /\ cooling' = cooling \ {p}
    /\ UNCHANGED <<tables, task, call, count, due, cache, holder, day, faults, settings>>

\* A cached answer is older than _cache_ttl, or had to make room for another one.
Forget(p, a) ==
    /\ cache[p][a] # NoAnswer
    /\ cache' = [cache EXCEPT ![p] = [@ EXCEPT ![a] = NoAnswer]]
    /\ UNCHANGED <<tables, task, call, count, due, cooling, holder, day, faults, settings>>

NoAnswers == [p \in Tier2 |-> [a \in Addrs |-> NoAnswer]]
NoCalls   == [p \in Paid |-> [t \in Loops |-> "none"]]

\* The worker dies and is started: what it knew is gone, what it had in hand is
\* reclaimed from the queue.
Restart ==
    /\ Fault
    /\ count' = [p \in Paid |-> 0]
    /\ due' = [p \in Paid |-> TRUE]
    /\ cooling' = {}
    /\ cache' = NoAnswers
    /\ holder' = Nobody
    /\ task' = [t \in Loops |-> Idle]
    /\ call' = NoCalls
    /\ wanted' = wanted \union {task[t].addr : t \in {u \in Loops : task[u].step # "idle"}}
    /\ starts' = [p \in Paid |-> IF newDay[p] THEN 1 ELSE starts[p] + 1]
    /\ used' = [p \in Paid |-> IF newDay[p] THEN 0 ELSE used[p]]
    /\ UNCHANGED <<activity, row, newDay, settings>>

LookupInit ==
    /\ count = [p \in Paid |-> 0]
    /\ due = [p \in Paid |-> TRUE]
    /\ cooling = {}
    /\ cache = NoAnswers
    /\ holder = Nobody
    /\ task = [t \in Loops |-> Idle]
    /\ call = NoCalls
    /\ \E setup \in Setups : keys = setup.keys /\ listed = setup.listed
    /\ activity = [a \in Addrs |-> "low"]
    /\ row = [a \in Addrs |-> NoRow]
    /\ wanted = Addrs
    /\ newDay = [p \in Paid |-> TRUE]
    /\ used = [p \in Paid |-> 0]
    /\ starts = [p \in Paid |-> 1]
    /\ faults = 0

Replied(p, t, r) == \/ p = "greynoise"  /\ ReplyGreyNoise(t, r)
                    \/ p = "abuseipdb"  /\ ReplyAbuseIPDB(t, r)
                    \/ p = "virustotal" /\ ReplyVirusTotal(t, r)

Work(t) == \/ \E a \in Addrs : Start(t, a) \/ StartBlind(t, a)
           \/ AskAbuseIPDB(t)
           \/ AskVirusTotal(t)
           \/ Enter(t)
           \/ \E p \in Tier2 : \E r \in Replies(p) : Replied(p, t, r)
           \/ Upsert(t)
           \/ Hint(t)
           \/ StatementFails(t)

World == \/ \E a \in Addrs : Rise(a) \/ Requeue(a) \/ RequeueStale(a)
         \/ Midnight
         \/ \E p \in Tier2 : CooldownEnds(p)
         \/ \E p \in Aging, a \in Addrs : Forget(p, a)
         \/ Restart

LookupNext == World \/ \E t \in Loops : Work(t)

LookupSpec == LookupInit /\ [][LookupNext]_lookupVars

\* Every await has a timeout and every loop goes on; the hourly refresh comes round to
\* what is due, days end and so do cooldowns; and a provider that is asked again and
\* again does not answer 429 for ever.
FairLookupSpec ==
    /\ LookupSpec
    /\ WF_lookupVars(\E t \in Loops : Work(t))
    /\ \A a \in Addrs : WF_lookupVars(Requeue(a))
    /\ WF_lookupVars(Midnight)
    /\ \A p \in Paid : WF_lookupVars(CooldownEnds(p))
    /\ \A p \in Paid :
           SF_lookupVars(\E t \in Loops, r \in Replies(p) \ {"429"} : Replied(p, t, r))

-----------------------------------------------------------------------------
(* Properties *)

InFlight(p) == {t \in Loops : call[p][t] \in {"waiting", "sent"}}

\* Every variable stays in its range, and only a lookup at that point has calls.
LookupTypeOK ==
    /\ activity \in [Addrs -> Levels]
    /\ row \in [Addrs -> Rows \union {NoRow}]
    /\ wanted \subseteq Addrs
    /\ task \in [Loops -> Tasks]
    /\ call \in [Paid -> [Loops -> Stages]]
    /\ \A t \in Loops : /\ task[t].step = "idle" <=> task[t].addr = Nobody
                        /\ \A p \in Paid : call[p][t] # "none" <=> p \in keys /\ task[t].step = "paid"
    /\ count \in [Paid -> Nat]
    /\ due \in [Paid -> BOOLEAN]
    /\ cooling \subseteq Tier2
    /\ cache \in [Tier2 -> [Addrs -> Reputations \union {NoAnswer}]]
    /\ keys \subseteq Paid /\ listed \subseteq Addrs
    /\ holder \in Loops \union {Nobody}
    /\ newDay \in [Paid -> BOOLEAN]
    /\ used \in [Paid -> Int] /\ starts \in [Paid -> Nat \ {0}]
    /\ faults \in 0 .. MaxFaults

\* "A hard daily budget": of the requests of a day, those that got no answer left out,
\* there are at most as many as the budget allows and one less than there are loops, since
\* the counter is compared before a request and raised after it, so that lookups under way
\* together overdraw it; and that many once more for every start of the worker in the day,
\* since the counter is gone with the process.  The day goes from the first question after
\* one midnight to the first after the next.
BudgetBounded ==
    \A p \in Paid : used[p] <= starts[p] * (Quota[p] + Cardinality(Loops) - 1)

\* VirusTotal's interval between requests: never two of them at once, and the lock is
\* held by the one that is out.
OneAtATime ==
    "virustotal" \in Paid =>
        \A t \in Loops : call["virustotal"][t] = "sent" <=> holder = t

\* "A Tier-1 hit is a verdict": whatever the other providers answer, refuse or fail
\* to answer, the row of a listed address says malicious.
ListedIsVerdict ==
    \A a \in listed : row[a] # NoRow => row[a].reputation = "malicious"

\* "The provider spent no quota because it is rate limited or over its daily budget":
\* a lookup is deferred only by a provider that holds off or has nothing left when
\* it is asked, never by an answer kept from then.
DeferredForCause ==
    [][\A t \in Loops, p \in Tier2 :
           p \in task'[t].deferred \ task[t].deferred =>
               \/ p \in cooling'
               \/ p \in Paid /\ ~ due'[p] /\ count'[p] >= Quota[p]]_lookupVars

\* "So the worker's retry loop re-queues the IP once the provider can answer again":
\* no provider that was out of its budget or held off leaves every address waiting for
\* it for ever.
WaitsFor(a, p) == Waiting(a) /\ p \in row[a].deferred

DeferralsEnd ==
    \A p \in Paid : []<>(\E a \in Addrs : ~ WaitsFor(a, p))
==============================================================================
