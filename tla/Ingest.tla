-------------------------------- MODULE Ingest --------------------------------
(***************************************************************************)
(* The writing side of pipeline/ingestor.py: the consumer() tasks that     *)
(* take records off the shared queue and carry each through three separate *)
(* stores -- the events row, the ips row, the Redis streams -- with no     *)
(* transaction around them, retrying the whole of _handle when any call    *)
(* fails in a way retry.is_transient() calls transient.                    *)
(*                                                                         *)
(* A failed call may or may not have taken effect: a statement timeout or  *)
(* a connection lost after the server committed look the same to the       *)
(* caller.  The Redis client (retry_on_timeout) sends a command again by   *)
(* itself, so one XADD may append several entries, whether it fails in the *)
(* end or not.  Records arrive in any order and any number of times,       *)
(* because a tail replays from its checkpoint.                             *)
(*                                                                         *)
(* The key of events is (ts, event_id).  The id is derived from the        *)
(* record; the timestamp is the record's own or, if that cannot be parsed, *)
(* whatever the clock says when the row is written.  A row is therefore a  *)
(* record with a stamp.                                                    *)
(***************************************************************************)
EXTENDS Integers, Sequences, FiniteSets

CONSTANTS Records,     \* records the tails may queue
          NoRecord,    \* a consumer without work
          Ips,         \* source addresses
          IpOf,        \* [Records -> Ips]
          Stamps,      \* timestamps; bound: what the clock may say
          StampsOf,    \* [Records -> SUBSET Stamps]: what _parse_ts may return for a record,
                       \* one stamp if the record has a usable one
          Ignored,     \* records that are no event: other types, own or private source
          Sends,       \* how often the Redis client sends one command, at most
          Consumers,   \* INGEST_CONSUMERS tasks
          MaxAttempts, \* INGEST_ITEM_MAX_ATTEMPTS
          QueueMax,    \* INGEST_QUEUE_MAX
          MaxRestarts  \* bound: restarts of the process

ASSUME IngestAssumption ==
    /\ NoRecord \notin Records
    /\ IpOf \in [Records -> Ips]
    /\ StampsOf \in [Records -> (SUBSET Stamps) \ {{}}]
    /\ Ignored \subseteq Records
    /\ IsFiniteSet(Records) /\ IsFiniteSet(Stamps) /\ IsFiniteSet(Consumers)
    /\ {MaxAttempts, QueueMax, Sends} \subseteq Nat \ {0}
    /\ MaxRestarts \in Nat

VARIABLES
    queue,     \* records between the tails and the consumers
    job,       \* [Consumers -> Records or NoRecord]: the record in hand
    stage,     \* [Consumers -> Stages]: the call _handle is at
    attempt,   \* [Consumers -> 1..MaxAttempts]
    row,       \* [Consumers -> Rows or NoRecord]: the row this attempt inserted
    isNew,     \* [Consumers -> BOOLEAN]: what _upsert_ip returned
    stored,    \* rows in events
    ipCount,   \* [Ips -> Nat]: ips.event_count, 0 where there is no row
    published, \* [Rows -> Nat]: entries on the events stream
    announced, \* [Ips -> Nat]: entries on the enrich:queue stream
    counted,   \* history: rows counted in an ips row
    dropped,   \* history: records given up on, with a log line
    ignored,   \* history: records found to be no event
    restarts   \* restarts of the process so far

work   == <<job, stage, attempt, row, isNew>>
stores == <<stored, ipCount, published, announced, counted>>
outcome == <<dropped, ignored>>
ingestVars == <<queue, work, stores, outcome, restarts>>

\* get: waiting on the queue.  The others are the call being made, or backoff,
\* the sleep between two attempts.
Stages == {"get", "insert", "upsert", "publish", "announce", "backoff"}
Calls  == {"insert", "upsert", "publish", "announce"}

Rows == Records \X Stamps

\* The keys a record may be inserted under.
RowsOf(r) == {r} \X StampsOf[r]

\* The address a row is about.
SourceIp == [w \in Rows |-> IpOf[w[1]]]

-----------------------------------------------------------------------------
(* One record through _handle *)

\* consumer(): take a record.
TakeRecord(c) ==
    /\ stage[c] = "get"
    /\ queue # <<>>
    /\ job' = [job EXCEPT ![c] = Head(queue)]
    /\ queue' = Tail(queue)
    /\ stage' = [stage EXCEPT ![c] = "insert"]
    /\ attempt' = [attempt EXCEPT ![c] = 1]
    /\ UNCHANGED <<row, isNew, stores, outcome, restarts>>

\* task_done(): the consumer is free again.
Finish(c) ==
    /\ job' = [job EXCEPT ![c] = NoRecord]
    /\ stage' = [stage EXCEPT ![c] = "get"]
    /\ row' = [row EXCEPT ![c] = NoRecord]
    /\ isNew' = [isNew EXCEPT ![c] = FALSE]
    /\ UNCHANGED attempt

Goto(c, s) == /\ stage' = [stage EXCEPT ![c] = s]
              /\ UNCHANGED <<job, attempt>>

\* The normalizer or the source filter says this is no event.
Ignore(c) ==
    /\ stage[c] = "insert"
    /\ job[c] \in Ignored
    /\ ignored' = ignored \union {job[c]}
    /\ Finish(c)
    /\ UNCHANGED <<queue, stores, dropped, restarts>>

\* What each call does to its store when it takes effect; an XADD appends n
\* entries.
InsertRow(w) == /\ stored' = stored \union {w}
                /\ UNCHANGED <<ipCount, published, announced, counted>>

CountIp(w) == /\ ipCount' = [ipCount EXCEPT ![SourceIp[w]] = @ + 1]
              /\ counted' = counted \union {w}
              /\ UNCHANGED <<stored, published, announced>>

PublishEvent(w, n) == /\ published' = [published EXCEPT ![w] = @ + n]
                      /\ UNCHANGED <<stored, ipCount, announced, counted>>

AnnounceIp(w, n) == /\ announced' = [announced EXCEPT ![SourceIp[w]] = @ + n]
                    /\ UNCHANGED <<stored, ipCount, published, counted>>

\* INSERT ... ON CONFLICT DO NOTHING RETURNING: the row is new.
Insert(c) ==
    /\ stage[c] = "insert"
    /\ job[c] \notin Ignored
    /\ \E w \in RowsOf(job[c]) \ stored :
           /\ InsertRow(w)
           /\ row' = [row EXCEPT ![c] = w]
    /\ Goto(c, "upsert")
    /\ UNCHANGED <<queue, isNew, outcome, restarts>>

\* Mutant: a conflicting insert falls through to the ips row.
InsertConflictFallsThrough(c) ==
    /\ stage[c] = "insert"
    /\ job[c] \notin Ignored
    /\ \E w \in RowsOf(job[c]) \intersect stored : row' = [row EXCEPT ![c] = w]
    /\ Goto(c, "upsert")
    /\ UNCHANGED <<queue, isNew, stores, outcome, restarts>>

\* Mutant: a conflicting insert still publishes, in case the attempt that
\* stored the row did not get that far.
InsertConflictPublishes(c) ==
    /\ stage[c] = "insert"
    /\ job[c] \notin Ignored
    /\ \E w \in RowsOf(job[c]) \intersect counted : row' = [row EXCEPT ![c] = w]
    /\ Goto(c, "publish")
    /\ UNCHANGED <<queue, isNew, stores, outcome, restarts>>

\* A row with this key is there already: nothing else is done for the record.
InsertConflict(c) ==
    /\ stage[c] = "insert"
    /\ job[c] \notin Ignored
    /\ RowsOf(job[c]) \intersect stored # {}
    /\ Finish(c)
    /\ UNCHANGED <<queue, stores, outcome, restarts>>

\* _upsert_ip: count the event; xmax = 0 tells whether the row is new.
Upsert(c) ==
    /\ stage[c] = "upsert"
    /\ CountIp(row[c])
    /\ isNew' = [isNew EXCEPT ![c] = ipCount[SourceIp[row[c]]] = 0]
    /\ Goto(c, "publish")
    /\ UNCHANGED <<queue, row, outcome, restarts>>

\* XADD events; a first-seen address goes on to the enrichment queue.
Publish(c) ==
    /\ stage[c] = "publish"
    /\ \E n \in 1 .. Sends : PublishEvent(row[c], n)
    /\ IF isNew[c] THEN Goto(c, "announce") /\ UNCHANGED <<row, isNew>>
                   ELSE Finish(c)
    /\ UNCHANGED <<queue, outcome, restarts>>

\* XADD enrich:queue.
Announce(c) ==
    /\ stage[c] = "announce"
    /\ \E n \in 1 .. Sends : AnnounceIp(row[c], n)
    /\ Finish(c)
    /\ UNCHANGED <<queue, outcome, restarts>>

-----------------------------------------------------------------------------
(* Failures *)

\* The effect of the call consumer c is at, should the server have applied it.
Effect(c) ==
    CASE stage[c] = "insert"  -> \E w \in RowsOf(job[c]) : InsertRow(w)
      [] stage[c] = "upsert"  -> CountIp(row[c])
      [] stage[c] = "publish" -> \E n \in 1 .. Sends : PublishEvent(row[c], n)
      [] OTHER                -> \E n \in 1 .. Sends : AnnounceIp(row[c], n)

\* Mutant: one attempt too many.
CallFailsOneMore(c) ==
    /\ stage[c] \in Calls
    /\ job[c] \notin Ignored
    /\ Effect(c) \/ UNCHANGED stores
    /\ IF attempt[c] > MaxAttempts
       THEN /\ dropped' = dropped \union {job[c]}
            /\ Finish(c)
       ELSE /\ row' = [row EXCEPT ![c] = NoRecord]
            /\ isNew' = [isNew EXCEPT ![c] = FALSE]
            /\ Goto(c, "backoff")
            /\ UNCHANGED dropped
    /\ UNCHANGED <<queue, ignored, restarts>>

\* The call fails as transient, with or without having taken effect.  The
\* record is retried after a backoff until its attempts are used up.
CallFails(c) ==
    /\ stage[c] \in Calls
    /\ job[c] \notin Ignored
    /\ Effect(c) \/ UNCHANGED stores
    /\ IF attempt[c] >= MaxAttempts
       THEN /\ dropped' = dropped \union {job[c]}
            /\ Finish(c)
       ELSE /\ row' = [row EXCEPT ![c] = NoRecord]
            /\ isNew' = [isNew EXCEPT ![c] = FALSE]
            /\ Goto(c, "backoff")
            /\ UNCHANGED dropped
    /\ UNCHANGED <<queue, ignored, restarts>>

\* The call is refused for good (a value Postgres rejects, a command Redis
\* refuses): log the record and move on.
CallRejected(c) ==
    /\ stage[c] \in Calls
    /\ job[c] \notin Ignored
    /\ dropped' = dropped \union {job[c]}
    /\ Finish(c)
    /\ UNCHANGED <<queue, stores, ignored, restarts>>

\* Mutant: the retry of a record that is stored goes straight to the ips row,
\* as if that proved that the later calls had not happened.
RetryBehindInsert(c) ==
    /\ stage[c] = "backoff"
    /\ attempt' = [attempt EXCEPT ![c] = @ + 1]
    /\ \/ /\ RowsOf(job[c]) \intersect stored = {}
          /\ stage' = [stage EXCEPT ![c] = "insert"]
          /\ UNCHANGED row
       \/ /\ \E w \in RowsOf(job[c]) \intersect stored : row' = [row EXCEPT ![c] = w]
          /\ stage' = [stage EXCEPT ![c] = "upsert"]
    /\ UNCHANGED <<queue, job, isNew, stores, outcome, restarts>>

\* The backoff is over: _handle starts from the top.
Retry(c) ==
    /\ stage[c] = "backoff"
    /\ attempt' = [attempt EXCEPT ![c] = @ + 1]
    /\ stage' = [stage EXCEPT ![c] = "insert"]
    /\ UNCHANGED <<queue, job, row, isNew, stores, outcome, restarts>>

\* The process goes down and every consumer forgets its record.
ForgetWork ==
    /\ job' = [c \in Consumers |-> NoRecord]
    /\ stage' = [c \in Consumers |-> "get"]
    /\ attempt' = [c \in Consumers |-> 1]
    /\ row' = [c \in Consumers |-> NoRecord]
    /\ isNew' = [c \in Consumers |-> FALSE]

-----------------------------------------------------------------------------
(* The specification, with tails that may queue anything *)

Arrive(r) ==
    /\ Len(queue) < QueueMax
    /\ queue' = Append(queue, r)
    /\ UNCHANGED <<work, stores, outcome, restarts>>

Restart ==
    /\ restarts < MaxRestarts
    /\ restarts' = restarts + 1
    /\ queue' = <<>>
    /\ ForgetWork
    /\ UNCHANGED <<stores, outcome>>

WorkInit ==
    /\ job = [c \in Consumers |-> NoRecord]
    /\ stage = [c \in Consumers |-> "get"]
    /\ attempt = [c \in Consumers |-> 1]
    /\ row = [c \in Consumers |-> NoRecord]
    /\ isNew = [c \in Consumers |-> FALSE]
    /\ stored = {}
    /\ ipCount = [ip \in Ips |-> 0]
    /\ published = [w \in Rows |-> 0]
    /\ announced = [ip \in Ips |-> 0]
    /\ counted = {}
    /\ dropped = {}
    /\ ignored = {}

IngestInit == /\ WorkInit
              /\ queue = <<>>
              /\ restarts = 0

ConsumerStep(c) ==
    \/ TakeRecord(c)
    \/ Ignore(c)
    \/ Insert(c)
    \/ InsertConflict(c)
    \/ Upsert(c)
    \/ Publish(c)
    \/ Announce(c)
    \/ CallFails(c)
    \/ CallRejected(c)
    \/ Retry(c)

IngestNext == \/ \E c \in Consumers : ConsumerStep(c)
              \/ \E r \in Records : Arrive(r)
              \/ Restart

IngestSpec == IngestInit /\ [][IngestNext]_ingestVars

-----------------------------------------------------------------------------
(* Properties *)

\* Every variable stays in its range.
IngestTypeOK ==
    /\ queue \in Seq(Records)
    /\ job \in [Consumers -> Records \union {NoRecord}]
    /\ stage \in [Consumers -> Stages]
    /\ \A c \in Consumers : stage[c] # "get" => job[c] \in Records
    /\ attempt \in [Consumers -> 1 .. MaxAttempts]
    /\ isNew \in [Consumers -> BOOLEAN]
    /\ row \in [Consumers -> Rows \union {NoRecord}]
    /\ {stored, counted} \subseteq SUBSET Rows
    /\ published \in [Rows -> Nat]
    /\ {announced, ipCount} \subseteq [Ips -> Nat]
    /\ {dropped, ignored} \subseteq SUBSET Records
    /\ restarts \in 0 .. MaxRestarts

\* "_upsert_ip increments event_count, so replaying it would inflate per-IP
\* counts": an address is never credited with more events than it has rows,
\* whatever is replayed, retried after an ambiguous failure, or handled by two
\* consumers at once.
CountNeverInflated ==
    \A ip \in Ips :
        ipCount[ip] <= Cardinality({w \in stored : SourceIp[w] = ip})

\* The ingestor keeps the ledger's promise: through replays, ambiguous failures
\* and two consumers at once no two calls count a row or publish it, none
\* publishes what was not counted, and no two announce an address.  More than
\* one entry of a row or an address can only come from one call that the client
\* sent again, more than one row of a record only from a record without a
\* timestamp of its own.
Ledger == INSTANCE EventLedger
LedgerKept == Ledger!LSpec

\* What a consumer has dealt with, one way or another.
Recorded == {w[1] : w \in stored}
Handled == Recorded \union dropped \union ignored

\* "ON CONFLICT DO NOTHING makes ingest idempotent": a record has one row.  No run checks
\* it: ingest_twice.cfg, with a record whose timestamp does not parse, finds it violated.
StoredOnce == \A v, w \in stored : v[1] = w[1] => v = w

\* "Transient failures ... are retried with backoff, because dropping the event
\* would lose it for good": a stored record that no consumer is working on any
\* more, and that was not reported as dropped, has reached the bus.
StoredReachesBus ==
    \A w \in stored :
        w[1] \notin dropped /\ (\A c \in Consumers : job[c] # w[1])
            => published[w] > 0
==============================================================================
