# getarp in TLA+

A specification of the parts of getarp in which order, concurrency and failure
matter: TLA+ modules written from the code, small instances checked by TLC, and
theorems checked by TLAPS. getarp is a honeypot platform; sensor logs flow
through an ingestor into Postgres and Redis, two workers enrich and analyse what
arrives, and an API serves it to a dashboard.

    sensors --append--> log files --tail--> queue --> consumers --+--> events   (Postgres)
    (Suricata, Cowrie,       ^               |                    +--> ips      (Postgres)
     extra services)         |          checkpoints               +--> events stream       --> analytics
                       rotate-logs.sh                             +--> enrich:queue stream --> enrichment

## Inventory

| component | code | state it keeps | operations | modelled |
|---|---|---|---|---|
| sensor tails | `pipeline/ingestor.py` 243-463 | open handle, position, line counter, a checkpoint file per log | open and resume, read, block on the queue, catch up, notice rotation, drain, reopen, fail and start over | `SensorTail` |
| log rotation | `deploy/rotate-logs.sh`, Cowrie itself | the files of the log volume | move aside, touch, SIGHUP, gzip | `SensorTail` |
| consumers | `pipeline/ingestor.py` 514-694, `pipeline/retry.py` | record in hand, attempt | insert, upsert, publish, announce, retry, give up | `Ingest` |
| pipeline process | `pipeline/ingestor.py` 748-800 | queue, tasks | boot, drain, stop, be killed | `Pipeline` |
| heartbeats, watchdog | `*/heartbeat.py`, `*/healthcheck.py` | a file per loop | beat, check, exit | `Watchdog` |
| enrichment worker | `enrichment/worker.py` | consumer group (pending entries), enrichment rows | read, enrich, re-queue, acknowledge, reclaim, refresh | `EnrichQueue` |
| enrichment providers | `enrichment/providers.py`, `base.py` | caches, daily budgets, cooldowns | gate, look up, merge | `Lookups` |
| enrichment feeds | `enrichment/feeds.py` | feed table, in-memory copy, database files | load, refresh, look up | `Feeds` |
| analytics engine | `analytics/engine.py`, `behavioral/profiler.py` | windows, profiles, dirty set | handle event, evict, flush, merge, collect | `ProfileStore`, `Detectors` |
| detectors | `analytics/correlation/*` | time of the last report per source | detect, deduplicate, prune | `Detectors` |
| status, reports, retention | `analytics/engine.py` 318-522 | none of their own | periodic queries | no |
| API sessions | `api/main.py`, `auth.py`, `ratelimit.py` | failure counters, tickets, revoked tokens, connection count | log in, log out, ticket, connect, close | no |
| API settings | `api/routers/admin.py` | settings table | validate, store; services read at start | no |
| API data, docker | `api/routers/{data,honeypot,crowdsec,docker_ops}.py` | none | queries, proxying, a restart call | no |
| schema, migrations | `db/init.sql`, `db/migrate.sh` | schema, ledger of migrations | apply once | no |
| extra services | `honeypot/extra-services/services.py` | none | `log_event` | its writes, in `SensorTail` |
| host scripts, frontend | `deploy/`, `maintenance/`, `frontend/` | none shared | administration, display | no |

What is hard in each, and what makes it correct:

* **Tails.** Everything happens between two polls: the log is renamed, the
  writer goes on writing to the renamed file, the successor appears, the archive
  takes the old one away. The queue blocks, reads fail, the process dies.
  Correct means: reading never jumps over a record; a checkpoint never passes a
  record that was not handed on; a restart reads at most a bounded number of
  records again; a rotated file is read to its end; everything readable is
  eventually read.
* **Consumers.** Three commits per record and no transaction around them, several
  consumers, calls that fail after they took effect, replays. Correct means: a row
  is counted at most once, published at most once and only then; an address is
  announced at most once, after that; no record holds a consumer for ever; a stored
  record reaches the bus.
* **The process.** Checkpoints vouch for records that are still in memory.
  Correct means: whatever a checkpoint has passed is stored or accounted for, an
  orderly shutdown loses nothing.
* **Watchdog.** A beat must come from the loop it stands for, and a loop that
  waits for an outage to end must not look hung.
* **Enrichment worker.** Entries are taken, re-queued and acknowledged in
  separate calls to a Redis that may lose everything. Correct means: every
  address is enriched, pending, queued or found again by the hourly refresh; it is
  given up on only after all its attempts.
* **Providers.** Budgets and cooldowns are checked before an await and counted
  after it, by two loops. Correct means: the requests of a day exceed the budget by no
  more than those under way, a listing survives every other answer, a lookup is
  deferred for a reason and only while there is one.
* **Feeds.** Table, memory and files are replaced one after the other, with
  lookups in between. Correct means: each holds one complete copy, memory is never
  ahead of what a restart goes back to, the latest version is served in the end.
* **Analytics.** The dirty set is swapped and written over several awaits while
  events arrive and profiles are evicted. Correct means: nothing about a source
  ever goes backwards, and every change is written in the end.
* **Detectors.** Windows are trimmed, capped and collected while findings are
  written. Correct means: what reaches a threshold is reported, once per window
  and again after it.
* **API.** Counters, tickets and revocations are read and written in separate
  calls. Correct means: a limit is a limit, a ticket works once, a revoked token
  never works again; a setting that is accepted does not stop a service.

## Modules

| module | what it is |
|---|---|
| `SensorTail` | the tails, their checkpoints, the log volume, rotation, writers |
| `EventLedger` | abstract: the stages a record may go through, each at most once |
| `Ingest` | the consumers and the three stores; implements `EventLedger` |
| `Ingest_proofs` | proofs about it |
| `Pipeline` | `main()`: tails and consumers on one queue, boot, shutdown, kill |
| `Pipeline_proofs` | proofs about `SensorTail`, and about `Pipeline` from those about its two parts |
| `Watchdog` | heartbeats, thresholds and restarts of the pipeline, on a clock |
| `Watchdog_proofs` | proofs about it |
| `EnrichQueue` | the enrichment worker's loops over its Redis consumer group |
| `EnrichQueue_proofs` | proofs about it |
| `Lookups` | what a lookup asks, spends and answers: gate, budgets, cooldowns, caches, merge |
| `Lookups_proofs` | proofs about it |
| `Feeds` | the loop that refreshes blocklists and geo databases under their readers |
| `Feeds_proofs` | proofs about it |
| `Detectors` | analytics: windows, scan and attack detection, findings |
| `Detectors_proofs` | proofs about it |
| `ProfileLedger` | abstract: a row of `behavior_profiles` only grows and says nothing its events did not |
| `ProfileStore` | analytics: profiles, dirty set, flush, eviction, shutdown; implements `ProfileLedger` |
| `ProfileStore_proofs` | proofs about it |
| `MC...` | one per checked module: its instances for TLC |

`Pipeline` EXTENDS `SensorTail` and INSTANCEs `Ingest`: the queue is one
variable of both, `SensorTail!Put` fills it and `Ingest!TakeRecord` empties it,
and the counter of failures is shared. `SensorTail` alone has `Take` for a
consumer, `Ingest` alone has `Arrive` for the tails; both allow more than the
composition does. The three parts of enrichment meet in tables and in memory only and are
modules of their own: `EnrichQueue` leaves open what a lookup answers, `Lookups`
leaves open when an entry is acknowledged and takes the feeds' index as given, which
is what `Feeds` is about. In the same way `Detectors` and `ProfileStore` are the two
halves of `handle_event`, which share no state, and `Watchdog` has the timing of the
loops whose work is in `SensorTail` and `Ingest`.

### SensorTail

A file is an inode number. Lengths and positions count half lines, which is as
much of a byte offset as the properties can tell apart: a whole line is two
halves, and a file of odd length ends in a line that is still being written. A
record is the pair of an inode number and the number of its line under that
inode, so a record names the place it was written at and two are never mixed up.
`base` counts the lines of earlier contents when an inode number is used again.

`pc` is where `_tail_once` stands between two awaits: `wait` (the exists() loop),
`read` (main loop), `put` and `dput` (blocked in `queue.put` in the main and the
drain loop), `idle` (asleep at end of file), `drain`, `reopen`. One action is one
pass from await to await; a checkpoint the code writes in that stretch is part of
the action. `OpenPath` is open, `_resume_position` and the first
`_save_checkpoint`. `TailFails` is any exception, which `tail()` answers by
running `_tail_once` again, from the checkpoint. `LineDone` is the counter and the
checkpoint every `CHECKPOINT_EVERY_LINES` lines; it does nothing in the drain
loop, as in the code. The writes themselves may fail (`DiskFaults`), silently, as
`_save_checkpoint` does.

The world moves at any time: a sensor appends a line, in one write or in two
(`TornWrites` names the sensors of which a reader may see that); rotation moves a log aside and creates its successor in two
steps, and the writer reopens in a third; Cowrie does all of it itself
(`SelfRotating`). The writer's reopening creates the file when it falls between
the move and the touch. `services.py` opens its log for each write, which is a
reopening at any time.

`enqueued`, `skipped`, `torn` and `drained` are history: what was put on the
queue, what `_resume_position` reported as lost, what was read in two pieces, and
which files were closed as drained, with a note whether a sensor still had the file
open then. `DrainedFully` is about those that none had: Cowrie's always, a log that
`rotate-logs.sh` moved away only if its sensor has reopened by then.

Left out: a complete line that is not JSON counts as ignored; a sensor that
writes the newline of a line apart from it; heartbeats; the length of sleeps;
truncation of a followed log in place, which nothing getarp installs does (the
main loop would not notice it: it compares inodes only).

### EventLedger and Ingest

`EventLedger` is what a reader of the stores may rely on. Its unit is the row of
`events`, which has the key `(ts, event_id)`: a row is stored, then counted
(`event_count` grows with that and with nothing else), then published, each at most
once, and an address is announced at most once, after one of its rows was published.
The streams are counters: a publication or an announcement is one call, and a second
call would be a step the ledger does not have. What a reader of the stream finds of a
call are up to `Sends` entries, because the Redis client sends a command again that
timed out (`retry_on_timeout`, `ingestor.py:744`) and every one of those may have been
executed. It does not promise progress.

In `Ingest` a consumer's `stage` is the call it is about to make; each call is
one action, because each is a commit of its own. A row is a record with a stamp:
`StampsOf` gives a record the one timestamp it carries, or any the clock may say, where
`_parse_ts` falls back to `now()` (`ingestor.py:688-694`) and each attempt has another
key. `row` is the row this attempt inserted. `CallFails` is a transient
failure: the call's effect happened or did not, and the record is retried from
the top or given up on after `MaxAttempts`. `CallRejected` is a permanent failure.
`Arrive` puts any record on the queue any number of times, which covers every
replay. Stream trimming and the retention of a year are outside the model.

### Pipeline

`phase` is `main()`: down, up, draining. `Boot` starts the tails, `BeginShutdown`
cancels them (a record a tail is blocked with goes), `Drained` is `queue.join()`
returning, `DrainTimeout` the drain window closing first, `Kill` the watchdog's
`os._exit` or worse. `lost` collects what was in memory when the process was cut
off.

### EnrichQueue

`stream` is what Redis keeps, `unread` how many entries at its end the group has
not handed out, `pending` what was handed out and not acknowledged. XADD trims
from the old end, read or not; the approximate trimming of the code
(`approximate=True`) is exact here. XAUTOCLAIM drops pending entries that were
trimmed; the model drops them with the trimming.

Both loops run `handle_message`, and `at` says where each one is: `check`
(`is_fresh`), `lookup` (`provider.enrich` and `upsert`), `hint` (the UPDATE of
`threat_score`), `requeue`, `ack`. `CallFails` is a transient failure of the call
a loop is at, whose effect happened or not; `CallRejected` a permanent one.
`Claim` takes any pending entries, also those the consumer next door has in its
batch, because a batch of 20 slow lookups is idle for longer than
`ENRICH_RECLAIM_IDLE_S`. `SelectDue` and `QueueDue` are the hourly refresh: one query, then
one XADD each. `Halt` cancels the loops: the `finally` of `handle_message` still
acknowledges what was in hand. `LoseRedis` is a restart without persistence
or an LRU eviction of the stream.

What a provider answers is a known attacker or anything else; which answers
were deferred, and how recently an address was seen, is left open in `Due`.
`missed` and `gaveUp` are history: addresses with an entry that ended without an
answer, and those given up on. Left out: beats, settings, the length of backoffs,
malformed addresses (`CallRejected` at once).

### Lookups

`task[t]` is the lookup that loop `t` (consume, reclaim) is in: which address, how
far (`greynoise`, `paid`, `upsert`, `hint`), what the answers so far merge to, who has
deferred. `call[p][t]` is how far it is with AbuseIPDB or VirusTotal: both are
started as tasks (`asyncio.gather`), so that either may come first. An action is what
runs between two awaits: `Start` matches the feeds and stops at GreyNoise or at the
end; `Ask` is the cache, the budget and the cooldown, in this order; `Enter` is
VirusTotal's lock, after those checks; `Reply` is the answer, the count and what the
provider remembers of it. A request that is not answered is not counted, as in the code. `Midnight`, `CooldownEnds` and `Forget` are time. `Restart`
empties all that is memory: budgets, cooldowns, caches. `used` and `starts` are history
and count apart from the code: the requests of a day, under way or answered, and the
processes that worked in it. A day goes from the first question after one midnight to
the first after the next, which is when the code resets its count. VirusTotal's interval
between requests is not modelled.

`Requeue` is `refresh_loop` for an address without a row or with one to be tried
again, `RequeueStale` for an old row. The order of the queue and the batch are in
`EnrichQueue`; here an address is `wanted` or not. An activity below the thresholds is
`low`, one above both is `high`; the hint makes an address `high`, and `Rise` is
everything else that does. A reputation is all that is kept of an answer.

### Feeds

A copy of a blocklist is the set of rows `<<version, chunk>>` it is stored in, so that
half a copy or a mixture of two is a value that `WholeCopies` can tell. `txn` is the
open transaction of `_store`, `index` the dictionaries lookups are answered from. A
database file is an inode and a reader keeps the one it opened: IPinfo's new file is
another inode (`os.replace`), GeoLite's is the old one, truncated and written
(`tar.extract`). `at` is where `feed_refresh_loop` is, `left` the feeds of the round;
`load` is the part at the start. A failure ends the feed at hand and no other. `Kill`
leaves the table and the files as they are. An indicator that is no address, such as a
CIDR range, is in the index and never in the table (`feeds.py:85-90`); no lookup asks for
one, and a copy is what the two have in common.

### Detectors

`handle_event` is split where it awaits: `hand` is the finding that is being written,
`insert` into `scan_events` or `attack_events` and then `score` on `ips`, each of which may
fail, while `Tick` makes everything older and `gc_state` collects. `_reported` is written
before the finding is; `filed`, the age of the last row, is what the properties look at.
Ages stand for times: up to the age that no comparison of the code
tells from a higher one, so the model has no clock that runs out. Windows drop
entries by age, by `WINDOW_MAX_EVENTS` and by evicting the addresses that were
silent longest. `heard`, `told` and `spoiled` are history: the age of the latest event and of
the latest finding of each kind, and the kinds whose last finding did not get its row.
Nothing ties `WINDOW_KEEP_S` to the detectors' windows.

### ProfileLedger and ProfileStore

`ProfileLedger` has two variables, what the engine has seen of an address and its
row: seeing changes the one, writing the other, and the numbers, the class and the commands of a row only grow, and hold nothing that was
not seen. (`avg_session_s` and what else is in the detail blob is overwritten,
`engine.py:204, 215`, and not in the model.) In `ProfileStore` an event is folded
into the profile in memory (`Update`) and marks it dirty; `flush_profiles` takes over
the whole dirty set and writes it, one profile after the other, in two statements,
each of which succeeds, fails, is rejected or takes effect and fails. `Merged` is the
UPSERT: maxima, a union with a cap. Profiles are evicted at `PROFILE_MAX_IPS`,
collected when idle, and start from nothing afterwards. `phase` is `main()`: a stop
lets the consumer finish, cancels the loops and flushes once more, within a bound. `owed` and `lost` are history: the
snapshot due since the last event of an address, and who gave it up before it was written
(an eviction or collection, a refusal, a cancelled flush, the end of the process). What an
address does beyond the cap on its commands is in no snapshot and so not owed. A command
over 300 characters (`Long`) is not found again among those kept and is appended
again. Risk score and class are computed from the
profile as in the code, in tenths; an event is a login or a command, the other
fields go the way of one of these two.

### Watchdog

Time is counted in ticks; no tick passes while a loop has something to do, and every
wait is rounded up to whole ticks, so that an age is never less than in the
program. A loop is at a step, with ticks left to wait there: `get` and `try` for
consumers (an attempt takes up to `CallsMax`, all its timeouts together), `backoff` for both, `put` and
`put drained` for a tail at a full queue, `hung` for a call that never returns.
`Beat` is where the code beats: a consumer while it waits for a record, before an
attempt and after a backoff, a tail when its `put` has returned or it is at the end of its file. `Check`
is the watchdog's turn, `Exit` its `os._exit`, `Start` and `Connected` the restart by
Docker and `_connect_pool`.

## Runs

| run | asks | bounds | distinct states |
|---|---|---|---|
| `tail_restart` | can reading jump, a checkpoint run ahead, a replay exceed its bound, a file be closed unread? | 2 logs, one self-rotating with torn lines and one that is moved away, 3 inodes, 2 lines per file, queue 1, checkpoint every 2, 1 failure | 3 200 000 |
| `ingest_safety` | is the ledger kept, is no count inflated? | 2 consumers, 3 records of one address (one without a timestamp of its own, one no event), 2 stamps, commands sent twice, 2 attempts, 1 restart | 1 630 000 |
| `pipeline_safety` | is everything accounted for, end to end? | 1 log, 2 inodes, 2 lines, the first of a file no event, no record with a timestamp, 2 stamps, 1 consumer, 1 attempt, failing checkpoint writes, 1 failure | 1 330 000 |
| `pipeline_live` | does everything get through, end to end, and no record hold a consumer for ever? | 1 log, 2 inodes, 1 line per file, 1 consumer, 2 attempts, 1 failure | 130 000 |
| `watchdog` | is a restart ever without cause, a hang ever without end? | 1 tail, 1 consumer, queue 1, ticks of 20 s, 4 attempts of up to 180 s, the default thresholds, hangs without limit | 640 000 |
| `enrich_safety` | is an address ever dropped silently or given up on early? | 1 address, stream of 2, batches of 2, 2 attempts, 2 failed lookups, 1 other failure, at most 2 entries alive | 2 300 000 |
| `enrich_live` | is every address enriched in the end, is every pending entry settled? | 1 address, stream of 1, batches of 1, 2 attempts, 1 failed lookup, 1 other failure | 180 000 |
| `lookups` | are budgets, the lock and listings kept, does a deferral have a reason and an end? | 1 address, 2 loops, a budget of 1, either of the paid providers alone (with and without a listing), 1 fault | 390 000 |
| `feeds` | is a copy ever partial or ahead of the table, does every feed follow its publisher? | all 5 feeds, 2 versions, 2 chunks, 3 faults | 820 000 |
| `detectors` | does what reaches a threshold get its row, and only one per window? | 2 addresses for 1 window, 2 ports, thresholds of 2, a window of 3 events, scan window 2 ticks, 1 fault | 850 000 |
| `profiles` | is a change lost without a cause on record, can a row go backwards, is what is dirty written? | 2 addresses for 1 profile, 2 commands, caps of 1, 1 fault, stops without limit | 1 080 000 |
| `profiles_stop` | does an orderly stop save everything? | the same without faults | violated |

A queue of one place is the worst case for blocking: with it every put may block,
in the main loop and in the drain loop. A checkpoint every second line has lines
that are counted and lines that are saved. Three inodes for two logs are one rotation
with the renamed file still there, of either log; the other log's traffic is what
keeps the queue full. Two consumers and two records of one address are the smallest
case in which consumers meet in the `ips` table; one of the two has its own timestamp, so
that its replay conflicts, the other a key per attempt. In `pipeline_safety` what comes
twice is what a tail replays: its one consumer makes one attempt. In `EnrichQueue` addresses meet only where
they trim each other's entries, which the entries of one address do as well, since
the refresh adds new ones; batches of two have a message in hand and one that is
still to come. In `enrich_safety` `Ids` has room for the stream, two batches and new entries; in
`enrich_live` it has one place less than stream, batches and a new entry, so that an XADD may
have to wait for an acknowledgement (with four ids it passes as well, on 325 000 states,
in four minutes). `FewEntries` cuts `enrich_safety` where more than two entries are
unread, pending or in hand at once.

In `lookups` both loops may have the same address in hand, when it is queued again
while it is looked up, which is how they meet in cache, budget and lock; a second
address would add no more of that. With a budget of one, two lookups overdraw it, and
one fault is a restart that forgets it. `Aging` bounds which cached answers grow old. The paid providers share nothing but the
merge, so each instance has one of them; the proofs have both. In `feeds` three
faults let a download, the store after it and the next refresh fail. In `detectors`
one address does everything and the other competes for the only window; three
events are one more than either threshold. In `profiles` every cap is one, so that
each second command or address is over it.
In `watchdog` the thresholds and timeouts are the code's defaults, in ticks of 20 s: a poll of
15 s is rounded up to 40, backoffs to 20, 20, 20, 20, 20, 40 and 60. `CallsMax` is the
longest an attempt may take, two statements of 30 s and two XADDs of 30 s sent twice, which is
more than a consumer's threshold; `RestartForCause` holds all the same, because it
measures an attempt with `calls`. `BeatAssumption`, that an idle consumer beats between two looks
of the watchdog, is about two numbers written into the code (5 s and 15 s).

Logs share nothing but the queue; the theorems hold for any number. In
`pipeline_safety` every record is taken by the consumer, also the one that
is no event, which it drops at once; both ways may be cut off.
Inodes and consumers are interchangeable in the safety runs (symmetry), never in
the liveness runs.

Checkpoint writes fail in `pipeline_safety` and in all proofs but one. They do not in
`tail_restart`, where `ReplayBounded` says how much is read again when the last
checkpoint is on disk, nor in the liveness run: if no checkpoint was ever
written, a restart after a rotation begins at the end of the current file, and
nothing accounts for the rest of the renamed one.

Deadlock is checked in every run: something can always happen, because a tail at
the end of its file goes on polling, events and addresses keep coming, and loops
sleep and wake.

### Where code and text part

`profiles_stop` checks what a comment says and finds it violated by what the code does:
`main()` flushes once more on shutdown, "the difference between a clean restart and one
that quietly loses the last few seconds of every active attacker"
(`engine.py:625-628`). But the flush loop was cancelled before, and what it had
taken over and not yet written is neither dirty any more nor written.

### Known divergences

The rest of what the modelling met, each with the configuration that reproduces
it (`tlc -config <name>.cfg MC<module>.tla`), which stands beside those of the runs:

* `tail_rotate_hup` (SensorTail, `AllDrained`): rotation "does not drop events"
  (`rotate-logs.sh`) -- unless the writer, which reopens on a later SIGHUP, appends to the
  renamed file after the tail has closed it.
* `tail_inode_reuse` (SensorTail, `NoGap`): "two cases lose records and both are logged" --
  an inode number used again is a third.
* `ingest_partial` (Ingest, `StoredReachesBus`): transient failures are retried "because
  dropping the event would lose it" -- a failure behind the insert makes the retry
  stop at its own row.
* `pipeline_drain` (Pipeline, `AtLeastOnce`): "no checkpoint has advanced past" queued
  records -- a checkpoint passes a record when it is queued.
* `enrich_hint` (EnrichQueue, `HintFollows`): known attackers are fed "back to the IP
  record" -- unless the lookup fails between writing the row and raising the score: the
  retry finds the row fresh and stops.
* `feeds_intact` (Feeds, `PreviousIndexIntact`): a refresh "must leave the previous index
  intact when a download fails" (`feeds.py:8-9`) -- `tar.extract` (line 338) truncates
  the very inode that the open GeoLite reader maps.
* `ingest_twice` (Ingest, `StoredOnce`): "ON CONFLICT DO NOTHING makes ingest idempotent"
  (`ingestor.py:616`) -- a record with a timestamp that does not parse gets the time of each
  attempt, and with it another key, another row, another count.
* `watchdog_outage` (Watchdog, `TailsSpared`): an outage must not "look like a hang"
  (`ingestor.py:84-86, 106-109`) -- while Postgres answers with timeouts only, the queue
  fills, a tail blocked in `put` does not beat (`ingestor.py:408`) and is stale after 60 s.
* `watchdog_retry` (Watchdog, `ConsumersSpared`): the consumers' threshold "must clear
  `BACKOFF_MAX_S` plus a retry cycle, or a Postgres outage ... would look like a hang"
  (`ingestor.py:106-109`) -- with the default timeouts the calls of one attempt may take
  30+30+60+60 s without a beat, against a threshold of 120 s.
* `detectors_wide` (Detectors, `WideFanOutSeen`): `admin.py:47-50` accepts any positive scan
  window, but the engine keeps events for `WINDOW_KEEP_S`, 300 s (`engine.py:43`), and a
  fan-out that is slower than that is not seen.
* `profiles_evict` (ProfileStore, `EvictedSaved`): "A profile evicted early is not lost work:
  it has already been persisted" (`engine.py:151-155`) -- unless it is dirty, which the
  eviction makes the engine forget (160).

`tail_live` is a further configuration that passes: `EventuallySettled`, every readable
line of a self-rotated log gets through, on 61 000 states; `pipeline_live` asks the same of
the composition.

Met while reading, and part of the models without a property that says
otherwise:

* A tail that cannot open its log backs off without beating (`ingestor.py:360`), so
  a permission that is wrong for a minute restarts all tails, again and again; the
  drain loop of a rotation (431-439) does not beat either. `RestartForCause` admits
  both.
* A listed address is sent to the paid providers all the same, once the hint has
  made it `high` (`providers.py:710-711`), though a "Tier-1 hit is a verdict".
* The "hard daily budget" (`providers.py:110`) is overdrawn by the requests under way less
  one; a restart begins it anew (`BudgetBounded` has `starts`), and a request whose answer
  does not come is not counted (203, 391), though the provider may count it.
* An XADD may append an entry more than once (`Sends`).
* "Unknown" outweighs "clean" in the merge, so an address that one provider calls
  clean and for which another deferred stays unknown and is queued again every six
  hours. An answer that is an error is cached and not
  deferred. A failed read of the activity counts as inactive. A stale refresh may
  replace a malicious verdict by what is answered now. VirusTotal's cooldown is
  checked before the wait for its lock.
* An IPinfo file that cannot be opened counts as fresh for a day.
* `engine.py:55-58` calls the scan's 60 s the widest window of a detector; the brute
  force window is 120 s. A flood over `WINDOW_MAX_EVENTS` pushes a fan-out out of the
  window (`FanOutSeen` sets those events aside).
* `_reported` is set before the finding is written (`scan_detector.py:26`), so a failed write
  leaves a window without a row. `FanOutSeen` and `CommandSeen` excuse it (`spoiled`), for that
  window and that kind; `KeepsReporting` excuses nothing.
* A torn line is dropped without a log line (`SensorTail`, `torn`).
* Analytics never reclaims pending entries of its consumer group: what it had in
  hand when killed is not seen again.

## Fairness

`FairTailSpec`: each tail that can move does (asyncio runs every ready task, and
every await of the tail is a sleep or a put); a container that has exited is
started (`restart: unless-stopped`); a sensor finishes a line it has begun; whoever
moved a log aside creates its successor (the next command of the script); a
consumer takes from the queue. The sensor itself owes nothing: no fairness on
writing, rotating or compressing. `FairPipelineSpec` adds that each consumer moves,
because every call has a timeout (`command_timeout`, `socket_timeout`) and every
sleep ends, and that a drain ends, by itself or by its window.
After an operator's `docker stop` nobody restarts the container; the liveness
claims are then about the time from its next start.

`FairQueueSpec`: each loop of the worker moves when it can, for the same reasons; a
worker that has exited is started; a shutdown ends. XAUTOCLAIM works through the
pending list with a cursor that comes round, so an entry that is pending again and
again is claimed in the end: strong fairness for each entry, not for each set of
entries. An id is a slot that later entries use again; `PendingDrains` says that
every slot is empty again and again.

`FairLookupSpec`: some loop moves when one can (timeouts on every request); the hourly
refresh comes round to what is due; days end, and so do cooldowns; and a provider
that is asked again and again does not answer 429 for ever, which is strong fairness
of its other answers. Only so can a deferral end: nothing in the code could end it
against a provider that always refuses.

`FairFeedSpec`: the loop moves (`timeout` on every download), and files grow old.
`FairDetectSpec`: statements end and time goes by; the events are free, and
`KeepsReporting` says in its premise which ones it needs. `FairProfileSpec`: the flush loop
runs when it is ready, and the waits of `main()` are bounded. `FairWatchSpec`: the
event loop runs what is ready, time goes by, the watchdog comes to its turn, Docker
starts the process and Postgres is there in the end; hangs may come or not, at any
moment, for ever.

Failures are bounded by `MaxFaults` (in `Watchdog` they are not), so the liveness
runs say what happens once failures stop, not that progress is made while they go on.

## Proofs

`Pipeline_proofs`, its first part, about the tails alone (`TailSpec`), for any sensors, inodes, queue
size and bounds:

* `TailTypeCorrect`: `TailSpec => []TailTypeOK`. The invariant is `TypeInv`: with
  the types, that no file outgrows the bound on lines (so that every line is a
  record), that a tail in a reading state has a file, and that exactly a blocked
  tail has a record in hand.
* `NothingPassedOver` and `CheckpointsHold`: if inode numbers are not used again
  (`InodeReuse = FALSE`), `TailSpec => []NoGap` and `TailSpec => []CheckpointCovered`.
  Torn lines and failing checkpoint writes are allowed. The invariant `GapInv` adds
  that positions and checkpoints stay within their file and that inodes have one
  content only. Both are needed: a position beyond the end vouches for lines that
  will be written later, and a second content would be vouched for by the first
  one's checkpoint. The run `tail_inode_reuse` shows that the assumption cannot be
  dropped. The argument is in two lemmas: moving a position is safe when everything
  below the new position is settled or in hand (`MoveStep`), and writing a checkpoint
  is safe when everything below it is settled (`SaveStep`); one step per action then
  shows that the action moves and saves only there. `AdvanceFacts` says that one
  readline passes the end of one line at most.
* `DrainsRotatedFiles`: under the same assumption `TailSpec => []DrainedFully`. `DrainInv`
  adds to `GapInv` whose a file is: the file at a path is open nowhere but in its own
  sensor and tail (`OwnInv`), half a line stands only where a writer is at work, and
  a drained file that its sensor had let go of is at no path and in no writer's
  hands, so it will never grow again.
* `ReplaysLittle`: if checkpoint writes succeed (`DiskFaults = FALSE`),
  `TailSpec => []ReplayBounded`, reuse of inode numbers or not. The assumption says what
  the promise is about: what is read again is counted from the last checkpoint on
  disk, and a tail that cannot write one gets away from it without bound. `ReplayInv`
  says that the counter of lines bounds how far the position is ahead of the
  checkpoint (`LagInv`), and, for the live log, that nothing is queued from beyond
  `CHECKPOINT_EVERY_LINES` behind it, and nothing at all if the checkpoint is not in
  that file (`WindowInv`); the second part is what a rotation and a resumption from a
  foreign checkpoint need.

`Ingest_proofs`, for any consumers, addresses, queue size and number of attempts,
any finite sets of records and stamps, and any number of times the client sends a command:

* `IngestTypeCorrect`: `IngestSpec => []IngestTypeOK`. To the types the invariant
  adds that a consumer in a backoff has an attempt left, without which `Retry`
  would leave the range.
* `LedgerImplemented`: `IngestSpec => LedgerKept`, every step is a step of
  `EventLedger` or leaves its variables alone; since the streams are counters there, a second
  call for a row or an address would be neither. The invariant (`LedgerInv`) says whose
  a row is: what is published was counted and what is counted was stored
  (`Nested`); a consumer behind the insert is where its row is (`InHand`); no two
  of them have the same row (`Alone`), which is what the unique key gives;
  and a consumer that found its address new is the only one and has not announced
  it yet (`FirstSeen`), which is what the row lock of the upsert gives. `LeaveStep`
  covers every way to let go of a record, failures that took effect included, so
  that only three actions need an argument of their own.
* `CountsHonest`: `IngestSpec => []CountNeverInflated`. Since every step is a step of the
  ledger, an address's count is the number of its rows counted (`CountInv`),
  and those are stored.

The second part of `Pipeline_proofs` puts the two together. Every step of the process is a step of the
tails, a step of one consumer or cuts them off where they are (`WriterSteps`,
`CutOff`), so the invariants of the tails and of `Ingest_proofs` hold in the
pipeline without a proof of their own:

* `PipelineTypeCorrect`: `PipelineSpec => []PipelineTypeOK`.
* `LedgerEndToEnd`: `PipelineSpec => LedgerKept`, that is, also tails, shutdowns and kills
  leave the ledger's variables alone.
* `EndToEnd`: if inode numbers are not used again, `PipelineSpec => []Accounted`. The
  invariant `QueueInv` says what becomes of a record once it is queued: it is in
  memory, dealt with, or was cut off (`QueuedAccounted`), and a consumer that waits
  for work has none (`EmptyHands`). `GapInv` says that what a checkpoint has passed was
  queued, skipped or torn; the two make `Accounted`.

`ProfileStore_proofs`, for any addresses, commands and caps:

* `ProfileTypeCorrect`: `ProfileSpec => []ProfileTypeOK`, the cap on profiles included.
* `NothingUntracked`: `ProfileSpec => []UnsavedTracked`. The invariant (`TrackInv`) adds
  `InFlight`: what is owed to an address in memory is the snapshot of its profile as it
  is now, what is dirty without being in memory has been given up, and behind the first
  statement of a flush the row covers the snapshot. So an eviction, which takes a dirty
  profile's changes with it, can only happen with its cause on record. That rows only grow and that covering is
  transitive (`CoversTransitive`, `SavedKept`) carries "saved" over the writes of other
  profiles and of older snapshots; an event makes its address dirty (`FoldTracked`).
* `ProfileLedgerImplemented`: `ProfileSpec => ProfileLedgerKept`. `HonestInv` says that memory,
  snapshots and rows hold nothing that was not seen; a step then either sees, or
  writes one row that grows (`MergeWithin`), or leaves both variables alone.

`Lookups_proofs`, for any addresses, loops, quotas and settings:

* `LookupTypeCorrect`: `LookupSpec => []LookupTypeOK`. The type invariant is inductive because
  it couples the two variables of a lookup: a loop has a call of a provider that has a
  key exactly while its lookup is at `paid`, so an answer always finds the
  lookup it belongs to.
* `OneAtATimeHolds`: `LookupSpec => []OneAtATime`, and `BudgetHolds`: `LookupSpec =>
  []BudgetBounded`. Both rest on `StepKinds`: all steps but five send, answer and count
  nothing (`Quiet`). For the budget the invariant has two parts. `CountBounded`: the
  counter of the process and the requests under way together stay below the quota plus the
  loops, because a request is let through only below the quota, when fewer than all loops
  can be under way besides, and an answer takes one away from those under way
  before it adds one to the count (`AskBudget`, `ReplyBudget`). `DayInv`: the requests of a
  day are at most an allowance (quota plus loops less one) for each process of the day before
  the present one, plus its counter, plus what is on the way; a restart is what turns
  counter and requests on the way into one more allowance. It is kept by every
  kind of step (`AskDay`, `EnterDay`, `ReplyDay`, `RestartDay`), and the two make the bound
  (`DayBudget`).
* `ListingPrevails`: `LookupSpec => []ListedIsVerdict`. The invariant (`VerdictInv`) is that a
  lookup of a listed address is malicious from its first step; merging cannot undo
  it (`MaliciousStays`).
* `DefersForCause`: `LookupSpec => DeferredForCause`. What a provider keeps in its cache is never
  an answer that defers (`CachedNoStub`), and of the answers to a request only a 429 does, which
  makes the provider hold off in the same step.

`EnrichQueue_proofs`, for any addresses, stream length, batch size and number of attempts:

* `QueueTypeCorrect`: `QueueSpec => []QueueTypeOK`. Two things are needed to make it
  inductive: no two places of the stream have the same entry id (`Distinct`), which
  XADD's new ids give, and a loop that is about to queue again has attempts left.
* `NoneForgotten`: `QueueSpec => []NothingForgotten`. What counts in the invariant (`KeptInv`)
  is the entries an address can still rely on (`Live`): in the stream or pending, and
  not about to be acknowledged with an answer known (`Decided`). `KeptBy` says what a step has to
  respect, that an entry leaves `Live` only with a row, another entry or a report;
  `GotoKeeps` and `StillLive` are the two ways in which nearly all actions do. That one loop
  may acknowledge an entry under another is covered: what matters is not
  who has the entry but that whoever decided it has left something behind.
* `GivesUpLast`: `QueueSpec => []GivenUpLast`. An entry carries its number of attempts with it
  through queueing, reclaiming and trimming; `TriesInv` says that each copy of it, wherever it is,
  counts no more than its address had failures.

`Feeds_proofs`, for any feeds in any order of priority, versions and chunks:

* `FeedTypeCorrect`: `FeedSpec => []FeedTypeOK`.
* `CopiesWhole`, `TableLeads` and `IPinfoStaysIntact`: `FeedSpec => []WholeCopies`,
  `FeedSpec => []NeverAheadOfTable` and `FeedSpec => []IPinfoIntact`. One invariant (`FeedInv`) has them all:
  the table holds a published copy and the index one no newer (`Backed`); the refresh at
  hand is of a version no older than the stored one, and when it comes to the
  swap the table has it. A copy tells its version (`CopyFacts`), unless nothing was
  published yet. GeoLite's files, which are written in place, are not intact, and
  nothing is claimed of them.

`Watchdog_proofs`, for any numbers of loops, attempts and failures, any timeouts, backoffs and
thresholds; only an idle consumer must beat before the watchdog looks (`BeatAssumption`):

* `WatchTypeCorrect`: `WatchSpec => []WatchTypeOK`.
* `RestartsForCause`: `WatchSpec => []RestartForCause`. `WatchInv` has the age of a consumer's
  file together with the rest of its wait (`InTime`), against the silent calls of its last
  attempt (`calls`): in an attempt they are within `calls`, because it began with a beat;
  in a backoff within `calls` and the longest backoff of that attempt; while it waits for a
  record within `calls` and its idle beat, unless the process has only just come up, where
  the start may have taken any time and the consumer beats before the watchdog's first
  look. Nothing is said of a threshold: whether the calls exceed it is the cause that
  `RestartForCause` asks for.
  A tail that can read is never older than a tick (`LooksInTime`).

`Detectors_proofs`, for any addresses, ports, thresholds, windows, caps and events, `WINDOW_KEEP_S` on either
side of the windows:

* `DetectTypeCorrect`: `DetectSpec => []DetectTypeOK`. That evicting a tenth, at least one,
  makes room for one more is `CapKept`.
* `ScansAreSeen`: `DetectSpec => []FanOutSeen`. The invariant (`WindowsOK`) ties the window of an address
  to what was heard of it: it is sorted by age, and has an entry for every port that was
  heard within `WINDOW_KEEP_S` (`Linked`). Trimming takes a prefix that is overdue and
  perhaps the one entry that the cap pushes out (`AppendedFacts`), a collection only
  windows whose last entry is overdue, and so with it all (`StaleForgets`). What makes the
  threshold within the shorter of `SCAN_WINDOW` and `WINDOW_KEEP_S` is then a fan-out in the
  window that the detector looks at (`ScanSeen`), and marked (`FanOutInv`). From the mark
  to the row: a mark has its row, is the one whose row is being written, or its
  write failed (`FiledInv`, `MarkFiled`); a new mark is at the same time a new finding
  in hand, and a finding leaves the hand with its row or spoiled (`EffectFacts`).
* `CommandsAreSeen`: `DetectSpec => []CommandSeen`. While the scan finding of the same event
  is being written, the command is not reported yet (`CommandInv`); the step that is done with that
  finding, written or not, has the attack detector mark it (`TurnOverFacts`). The way from
  the mark to the row is that of the scans.
* `OneFindingPerWindow`: `DetectSpec => OncePerWindow`. What `_reported` says is when the last
  finding was (`told = reported` in `TypeInv`), although `prune` removes entries: those are of an age
  that nothing tells from never (`PruneKeeps`).

Every invariant and every action property of the runs, the two refinements among them, is stated
by a theorem. Only model-checked is what TLAPS does not prove: the liveness properties.

## Not modelled

* API sessions, settings: state in Redis, in a table and in memory, each read and
  written by single calls; the interesting part is in the validators and in password
  and token checks that the models would have to take as given. They are next in the
  plan.
* Data routers, docker operations, status, reports and retention: queries and
  proxying without state of their own.
* Schema and migrations: SQL and a shell script that the database serialises.
* The beats of the enrichment and analytics workers, `SOURCE_FRESHNESS` and
  `healthcheck.py`: the mechanism is that of `Watchdog`, the first two with other loops, the
  last two reporting only.
* The consumer group of the analytics engine: in `Detectors` and `ProfileStore` events arrive
  one at a time.
* Host scripts, frontend, the protocol front ends of the extra services.

## Plan

1. An abstract specification of `EnrichQueue` in which an address is unknown, waiting, enriched or
   given up on, and the proof that the loops implement it.
2. `ApiSession`, `Settings`, the consumer group of analytics, `Migrate`.
