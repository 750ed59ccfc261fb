----------------------------- MODULE EnrichQueue -----------------------------
(***************************************************************************)
(* enrichment/worker.py around its Redis stream: the pipeline queues each  *)
(* new address, consume() reads entries as a member of a consumer group,   *)
(* reclaim_loop() takes over entries that stay unacknowledged, and         *)
(* refresh_loop() queues again what has no row, an old one, or one without *)
(* a verdict.  Both loops run the same handle_message(): look the address  *)
(* up, write its row, acknowledge, or queue it again after a failure.      *)
(*                                                                         *)
(* Redis keeps nothing across its own restart and may evict the stream.    *)
(* The worker may be stopped or killed anywhere.  An entry that was        *)
(* delivered and not acknowledged is pending; how long it has been is left *)
(* open, so that a slow batch is reclaimed under its reader.               *)
(***************************************************************************)
EXTENDS Integers, Sequences, FiniteSets, SequencesExt

CONSTANTS Addrs,       \* source addresses
          Ids,         \* bound: entries that may exist at one time
          StreamMax,   \* MAXLEN of the stream
          BatchMax,    \* entries per XREADGROUP and XAUTOCLAIM
          RefreshMax,  \* REFRESH_BATCH
          MaxAttempts, \* ENRICH_MAX_ATTEMPTS
          MaxFails,    \* bound: transient failures of lookups of one address
          MaxFaults    \* bound: other failures, stops, kills, losses of Redis

ASSUME QueueAssumption ==
    /\ IsFiniteSet(Addrs)
    /\ Ids \subseteq Nat /\ IsFiniteSet(Ids)
    /\ {StreamMax, BatchMax, RefreshMax, MaxAttempts} \subseteq Nat \ {0}
    /\ {MaxFails, MaxFaults} \subseteq Nat

Loops   == {"consume", "reclaim"}
Entries == [id : Ids, ip : Addrs, force : BOOLEAN, attempt : 0 .. MaxAttempts - 1]

\* What a lookup may say of an address: a known attacker or not.  Among the rest
\* are the answers without a verdict, deferred because a provider was over its
\* quota or cooling down.
Answers == {"attacker", "other"}

VARIABLES
    known,      \* addresses with a row in ips
    row,        \* [Addrs -> Answers, none or stale]: ip_enrichment
    hinted,     \* addresses whose ips.threat_score was raised
    stream,     \* what the stream holds, oldest entry first
    unread,     \* how many at its end were not delivered yet
    pending,    \* entries delivered and not acknowledged
    group,      \* does the consumer group exist?
    phase,      \* main(): down, up, or stopping
    at,         \* [Loops -> Stages]
    batch,      \* [Loops -> Seq(Entries)]: messages in hand, first one first
    refreshing, \* addresses refresh_loop has selected and not queued yet
    missed,     \* history: addresses an entry of which went without an answer
    gaveUp,     \* history: addresses given up on after MaxAttempts
    fails,      \* history: [Addrs -> Nat]: transient failures
    faults      \* failures so far

store   == <<known, row, hinted>>
redis   == <<stream, unread, pending, group>>
worker  == <<phase, at, batch, refreshing>>
history == <<missed, gaveUp, fails>>
queueVars == <<store, redis, worker, history, faults>>

\* read, reconnect: consume's XREADGROUP and what follows its failure; sleep:
\* reclaim_loop between two passes; done: consume has returned.  The others
\* are the places of handle_message.
Handling == {"check", "lookup", "hint", "requeue", "ack"}
Stages   == {"read", "reconnect", "sleep", "done"} \union Handling

-----------------------------------------------------------------------------
(* Entries *)

InStream == {stream[k] : k \in 1 .. Len(stream)}
Delivered == Len(stream) - unread
Waiting == {stream[k] : k \in Delivered + 1 .. Len(stream)}
InBatch(l) == {batch[l][k] : k \in 1 .. Len(batch[l])}
Holding == UNION {InBatch(l) : l \in Loops}
AddrsOf(S) == {e.ip : e \in S}

FreeIds == Ids \ {e.id : e \in InStream \union pending \union Holding}

Fault == /\ faults < MaxFaults
         /\ faults' = faults + 1

Lose(S) == missed' = missed \union AddrsOf(S)

\* XADD with MAXLEN: the oldest entry goes, read or not.  One that was pending is
\* dropped by XAUTOCLAIM, here at once.
XAdd(ip, force, attempt) ==
    /\ FreeIds # {}
    /\ LET id == CHOOSE i \in FreeIds : \A j \in FreeIds : i <= j
           e  == [id |-> id, ip |-> ip, force |-> force, attempt |-> attempt]
       IN  IF Len(stream) < StreamMax
           THEN /\ stream' = Append(stream, e)
                /\ unread' = unread + 1
                /\ UNCHANGED <<pending, missed>>
           ELSE /\ stream' = Append(Tail(stream), e)
                /\ unread' = IF unread < StreamMax THEN unread + 1 ELSE unread
                /\ pending' = pending \ {Head(stream)}
                /\ Lose({Head(stream)} \intersect (Waiting \union pending))
    /\ UNCHANGED group

-----------------------------------------------------------------------------
(* The world around the worker *)

\* The ingestor has inserted an ips row: it announces the address, unless the
\* call fails (see Ingest).
SeeAddress(ip) ==
    /\ ip \notin known
    /\ known' = known \union {ip}
    /\ \/ XAdd(ip, FALSE, 0) /\ UNCHANGED faults
       \/ Fault /\ missed' = missed \union {ip} /\ UNCHANGED redis
    /\ UNCHANGED <<row, hinted, worker, gaveUp, fails>>

\* CACHE_TTL_DAYS pass.
Age(ip) ==
    /\ row[ip] \in Answers
    /\ row' = [row EXCEPT ![ip] = "stale"]
    /\ UNCHANGED <<known, hinted, redis, worker, history, faults>>

\* Redis restarts without its data, or evicts the stream.
LoseRedis ==
    /\ Fault
    /\ Lose(Waiting \union pending)
    /\ stream' = <<>>
    /\ unread' = 0
    /\ pending' = {}
    /\ group' = FALSE
    /\ UNCHANGED <<store, worker, gaveUp, fails>>

-----------------------------------------------------------------------------
(* consume and reclaim_loop *)

Running == phase # "down"

\* Mutant: reclaim_loop makes one pass only.
RestOnce(l) == IF l = "consume" THEN "read" ELSE "done"

\* Where a loop goes when its batch is finished.
Rest(l) == IF l = "consume" THEN "read" ELSE "sleep"

Goto(l, s) == at' = [at EXCEPT ![l] = s] /\ UNCHANGED batch

\* Mutant: XREADGROUP with NOACK.
DeliverNoAck(got) == UNCHANGED pending

\* The group remembers what it has handed out.
Deliver(got) == pending' = pending \union got

\* XREADGROUP returns entries nobody has seen, and marks them pending.  A read
\* that was blocking when the stop came may still bring some.
Read ==
    /\ Running
    /\ at["consume"] = "read"
    /\ group
    /\ unread > 0
    /\ LET n   == IF unread < BatchMax THEN unread ELSE BatchMax
           got == SubSeq(stream, Delivered + 1, Delivered + n)
       IN  /\ batch' = [batch EXCEPT !["consume"] = got]
           /\ unread' = unread - n
           /\ Deliver(ToSet(got))
    /\ at' = [at EXCEPT !["consume"] = "check"]
    /\ UNCHANGED <<store, stream, group, phase, refreshing, history, faults>>

\* It raises: always when the group is gone, else because of Redis.
ReadFails ==
    /\ Running
    /\ at["consume"] = "read"
    /\ IF group THEN Fault ELSE UNCHANGED faults
    /\ Goto("consume", "reconnect")
    /\ UNCHANGED <<store, redis, phase, refreshing, history>>

\* Nothing came for a while, and the worker is to stop.
ReadStops ==
    /\ phase = "stopping"
    /\ at["consume"] = "read"
    /\ Goto("consume", "done")
    /\ UNCHANGED <<store, redis, phase, refreshing, history, faults>>

\* Mutant: the group is created at start only.
RegroupNever == UNCHANGED <<group, faults>>

\* A new group starts at the oldest entry.  Creating it may fail, silently.
Regroup == \/ group' = TRUE /\ UNCHANGED faults
           \/ Fault /\ UNCHANGED group

\* After a backoff: create the group again if need be, and go on.
Reconnect ==
    /\ Running
    /\ at["consume"] = "reconnect"
    /\ Regroup
    /\ Goto("consume", IF phase = "stopping" THEN "done" ELSE "read")
    /\ UNCHANGED <<store, stream, unread, pending, phase, refreshing, history>>

\* XAUTOCLAIM: take over entries that have been pending for long enough, by
\* whoever took them first -- a worker that died or the consumer next door.
ClaimAll(S) ==
    /\ Running
    /\ at["reclaim"] = "sleep"
    /\ S # {}
    /\ Cardinality(S) <= BatchMax
    /\ batch' = [batch EXCEPT !["reclaim"] = SetToSeq(S)]
    /\ at' = [at EXCEPT !["reclaim"] = "check"]
    /\ UNCHANGED <<store, redis, phase, refreshing, history, faults>>

Claim == \E S \in SUBSET pending : ClaimAll(S)

-----------------------------------------------------------------------------
(* handle_message *)

Msg(l) == Head(batch[l])

\* Is the row in Postgres still good?  Only an entry of refresh_loop insists.
Check(l) ==
    /\ Running
    /\ at[l] = "check"
    /\ Goto(l, IF ~ Msg(l).force /\ row[Msg(l).ip] \in Answers THEN "ack" ELSE "lookup")
    /\ UNCHANGED <<store, redis, phase, refreshing, history, faults>>

Upserts(ip, answer) == /\ row' = [row EXCEPT ![ip] = answer]
                       /\ UNCHANGED <<known, hinted>>

Hints(ip) == /\ hinted' = hinted \union {ip}
             /\ UNCHANGED <<known, row>>

\* provider.enrich() answers and the row is written.
Lookup(l) ==
    /\ Running
    /\ at[l] = "lookup"
    /\ \E answer \in Answers :
           /\ Upserts(Msg(l).ip, answer)
           /\ Goto(l, IF answer = "attacker" THEN "hint" ELSE "ack")
    /\ UNCHANGED <<redis, phase, refreshing, history, faults>>

\* Raise threat_score of a known attacker.
Hint(l) ==
    /\ Running
    /\ at[l] = "hint"
    /\ Hints(Msg(l).ip)
    /\ Goto(l, "ack")
    /\ UNCHANGED <<redis, phase, refreshing, history, faults>>

\* A call that fails may have taken effect all the same.
Effect(l) ==
    \/ UNCHANGED store
    \/ at[l] = "lookup" /\ \E answer \in Answers : Upserts(Msg(l).ip, answer)
    \/ at[l] = "hint" /\ Hints(Msg(l).ip)

\* Mutants: one attempt too few, one too many.
LastTryEarly(e) == e.attempt + 2 >= MaxAttempts
LastTryLate(e) == e.attempt >= MaxAttempts

LastTry(e) == e.attempt + 1 >= MaxAttempts

\* A transient failure: queue the address again, or give up on it.
CallFails(l) ==
    /\ Running
    /\ at[l] \in {"check", "lookup", "hint"}
    /\ fails[Msg(l).ip] < MaxFails
    /\ Effect(l)
    /\ fails' = [fails EXCEPT ![Msg(l).ip] = @ + 1]
    /\ IF LastTry(Msg(l))
       THEN Goto(l, "ack") /\ gaveUp' = gaveUp \union {Msg(l).ip}
       ELSE Goto(l, "requeue") /\ UNCHANGED gaveUp
    /\ UNCHANGED <<redis, phase, refreshing, missed, faults>>

\* A permanent one (a value Postgres rejects): log it and drop the entry.
CallRejected(l) ==
    /\ Running
    /\ at[l] \in {"check", "lookup", "hint"}
    /\ Fault
    /\ Lose({Msg(l)})
    /\ Goto(l, "ack")
    /\ UNCHANGED <<store, redis, phase, refreshing, gaveUp, fails>>

\* After the backoff: XADD the address with its next attempt.
Requeue(l) ==
    /\ Running
    /\ at[l] = "requeue"
    /\ XAdd(Msg(l).ip, Msg(l).force, Msg(l).attempt + 1)
    /\ Goto(l, "ack")
    /\ UNCHANGED <<store, phase, refreshing, gaveUp, fails, faults>>

\* The XADD fails; the exception is suppressed.
RequeueFails(l) ==
    /\ Running
    /\ at[l] = "requeue"
    /\ Fault
    /\ Lose({Msg(l)})
    /\ Goto(l, "ack")
    /\ UNCHANGED <<store, redis, phase, refreshing, gaveUp, fails>>

\* XACK, whose failure leaves the entry pending, and on to the next message --
\* unless consume finds that the worker is to stop.
Ack(l) ==
    /\ Running
    /\ at[l] = "ack"
    /\ \/ pending' = pending \ {Msg(l)} /\ UNCHANGED faults
       \/ Fault /\ UNCHANGED pending
    /\ IF l = "consume" /\ phase = "stopping"
       THEN /\ at' = [at EXCEPT ![l] = "done"]
            /\ batch' = [batch EXCEPT ![l] = <<>>]
       ELSE /\ at' = [at EXCEPT ![l] = IF Len(batch[l]) = 1 THEN Rest(l) ELSE "check"]
            /\ batch' = [batch EXCEPT ![l] = Tail(@)]
    /\ UNCHANGED <<store, stream, unread, group, phase, refreshing, history>>

-----------------------------------------------------------------------------
(* refresh_loop *)

Missing == {ip \in known : row[ip] = "none"}
Due     == {ip \in known : row[ip] \in {"none", "stale", "other"}}

\* Select what is due, addresses without a row first, REFRESH_BATCH of them.  A
\* stale row counts only if its address was seen lately, another answer only if
\* it was deferred.
SelectDue ==
    /\ Running
    /\ refreshing = {}
    /\ \E S \in SUBSET Due :
           /\ S # {}
           /\ Cardinality(S) <= RefreshMax
           /\ ~ Missing \subseteq S => S \subseteq Missing /\ Cardinality(S) = RefreshMax
           /\ refreshing' = S
    /\ UNCHANGED <<store, redis, phase, at, batch, history, faults>>

QueueDue ==
    /\ Running
    /\ \E ip \in refreshing :
           /\ XAdd(ip, TRUE, 0)
           /\ refreshing' = refreshing \ {ip}
    /\ UNCHANGED <<store, phase, at, batch, gaveUp, fails, faults>>

\* An XADD fails: the rest of the selection waits for the next hour.
RefreshFails ==
    /\ Running
    /\ refreshing # {}
    /\ Fault
    /\ refreshing' = {}
    /\ UNCHANGED <<store, redis, phase, at, batch, history>>

-----------------------------------------------------------------------------
(* main *)

Idle == /\ at' = [l \in Loops |-> Rest(l)]
        /\ batch' = [l \in Loops |-> <<>>]
        /\ refreshing' = {}

\* The worker starts: ensure_group, then its loops.
Boot ==
    /\ phase = "down"
    /\ phase' = "up"
    /\ group' = TRUE
    /\ Idle
    /\ UNCHANGED <<store, stream, unread, pending, history, faults>>

\* SIGTERM, or a loop that ended.
Stop ==
    /\ phase = "up"
    /\ Fault
    /\ phase' = "stopping"
    /\ UNCHANGED <<store, redis, at, batch, refreshing, history>>

\* consume has returned or its 30 s are over: every task is cancelled.  One that
\* was in the middle of a message acknowledges it on the way out, if that still
\* works; the rest of its batch stays pending.
Halt ==
    /\ phase = "stopping"
    /\ phase' = "down"
    /\ \E acks \in SUBSET {l \in Loops : at[l] \in Handling} :
           LET cut == {Msg(l) : l \in {k \in acks : at[k] # "ack"}}
           IN  /\ pending' = pending \ {Msg(l) : l \in acks}
               /\ Lose(cut)
    /\ Idle
    /\ UNCHANGED <<store, stream, unread, group, gaveUp, fails, faults>>

\* The watchdog's os._exit, an OOM kill, a power cut.
Kill ==
    /\ Running
    /\ Fault
    /\ phase' = "down"
    /\ Idle
    /\ UNCHANGED <<store, redis, history>>

-----------------------------------------------------------------------------

QueueInit ==
    /\ known = {}
    /\ row = [ip \in Addrs |-> "none"]
    /\ hinted = {}
    /\ stream = <<>>
    /\ unread = 0
    /\ pending = {}
    /\ group = FALSE
    /\ phase = "down"
    /\ at = [l \in Loops |-> Rest(l)]
    /\ batch = [l \in Loops |-> <<>>]
    /\ refreshing = {}
    /\ missed = {}
    /\ gaveUp = {}
    /\ fails = [ip \in Addrs |-> 0]
    /\ faults = 0

Handle(l) == \/ Check(l)
             \/ Lookup(l)
             \/ Hint(l)
             \/ CallFails(l)
             \/ CallRejected(l)
             \/ Requeue(l)
             \/ RequeueFails(l)
             \/ Ack(l)

Consume == Read \/ ReadFails \/ ReadStops \/ Reconnect

Refresh == SelectDue \/ QueueDue \/ RefreshFails

World == \/ \E ip \in Addrs : SeeAddress(ip) \/ Age(ip)
         \/ LoseRedis

QueueNext == \/ World
             \/ Consume
             \/ Claim
             \/ \E l \in Loops : Handle(l)
             \/ Refresh
             \/ Boot
             \/ Stop
             \/ Halt
             \/ Kill

QueueSpec == QueueInit /\ [][QueueNext]_queueVars

\* Every loop runs on: calls have timeouts, sleeps end, a container that exited
\* is started, and XAUTOCLAIM's cursor comes round to every entry that stays
\* pending.
FairQueueSpec ==
    /\ QueueSpec
    /\ WF_queueVars(Consume)
    /\ \A l \in Loops : WF_queueVars(Handle(l))
    /\ WF_queueVars(Refresh)
    /\ WF_queueVars(Boot)
    /\ WF_queueVars(Halt)
    /\ \A i \in Ids : SF_queueVars(\E S \in SUBSET pending :
                                       i \in {e.id : e \in S} /\ ClaimAll(S))

-----------------------------------------------------------------------------
(* Properties *)

\* Every variable stays in its range; a loop has a batch exactly while it is
\* handling messages.
QueueTypeOK ==
    /\ known \subseteq Addrs /\ hinted \subseteq Addrs
    /\ row \in [Addrs -> Answers \union {"none", "stale"}]
    /\ stream \in Seq(Entries) /\ Len(stream) <= StreamMax
    /\ unread \in 0 .. Len(stream)
    /\ pending \subseteq InStream \ Waiting
    /\ group \in BOOLEAN
    /\ phase \in {"down", "up", "stopping"}
    /\ at \in [Loops -> Stages]
    /\ \A l \in Loops : /\ batch[l] \in Seq(Entries)
                        /\ batch[l] # <<>> <=> at[l] \in Handling
    /\ refreshing \subseteq Addrs
    /\ missed \subseteq Addrs /\ gaveUp \subseteq Addrs
    /\ fails \in [Addrs -> 0 .. MaxFails]
    /\ faults \in 0 .. MaxFaults

\* Entries whose outcome is still open in a loop's hands.
Open(l) == IF at[l] = "ack" THEN InBatch(l) \ {Msg(l)} ELSE InBatch(l)

\* "Anything in flight when a worker is killed ... stays in the group's pending
\* list": an address without a row is in the stream, pending, or being handled,
\* unless an entry of it is known to have gone without an answer.  Two loops may
\* have the same entry, one may acknowledge it under the other.
NothingForgotten ==
    \A ip \in known :
        row[ip] = "none" =>
            ip \in AddrsOf(Waiting \union pending \union UNION {Open(l) : l \in Loops})
                       \union missed \union gaveUp

\* "Re-queued, up to MAX_ATTEMPTS, and only then given up on": however its
\* entries are duplicated, reclaimed and trimmed, an address is given up on only
\* after MaxAttempts lookups of it have failed.
GivenUpLast ==
    \A ip \in gaveUp : fails[ip] >= MaxAttempts

\* An address the pipeline has seen gets its row in the end, also when its entry
\* was lost with Redis, dropped, or never written.
EventuallyEnriched ==
    \A ip \in Addrs : ip \in known ~> row[ip] # "none"

\* Nothing stays in the pending list for ever.
PendingDrains ==
    \A i \in Ids :
        []<>(i \notin {e.id : e \in pending})

\* "Feed threat hint back to the IP record": once nothing is left to be done for
\* an address whose row says attacker, its threat_score was raised, unless the
\* address was reported as given up on or dropped.
HintFollows ==
    \A ip \in known :
        row[ip] = "attacker"
            => \/ ip \in hinted \union gaveUp \union missed
               \/ ip \in AddrsOf(Waiting \union pending \union Holding)
==============================================================================
