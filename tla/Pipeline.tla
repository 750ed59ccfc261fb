------------------------------- MODULE Pipeline -------------------------------
(***************************************************************************)
(* The ingestor process as main() builds it: the tails of SensorTail and   *)
(* the consumers of Ingest around one queue, started together, stopped in  *)
(* dependency order on SIGTERM (or when any task ends unexpectedly), or    *)
(* killed outright -- by the watchdog's os._exit, an OOM kill, a host      *)
(* reboot.  The queue and the work in hand are memory; the checkpoints,    *)
(* Postgres and Redis outlive the process.                                 *)
(***************************************************************************)
EXTENDS SensorTail

CONSTANTS Ips,         \* source addresses
          IpOf,        \* [Records -> Ips]
          Stamps,      \* timestamps; bound: what the clock may say
          StampsOf,    \* [Records -> SUBSET Stamps]: what a row of the record may carry
          Ignored,     \* records that are no event
          Sends,       \* how often the Redis client sends one command, at most
          Consumers,   \* consumer tasks
          MaxAttempts  \* INGEST_ITEM_MAX_ATTEMPTS

VARIABLES job, stage, attempt, row, isNew,      \* the consumers, see Ingest
          stored, ipCount, published, announced, counted, dropped, ignored,
          phase,  \* main(): down, up, or draining after SIGTERM
          lost    \* history: records in memory when the process was cut off

I == INSTANCE Ingest WITH MaxRestarts <- MaxFaults, restarts <- faults

writerVars == <<job, stage, attempt, row, isNew, stored, ipCount, published,
                announced, counted, dropped, ignored>>
mainVars == <<phase, lost>>
pipelineVars == <<tailVars, writerVars, mainVars>>

ASSUME PipelineAssumption ==
    /\ IpOf \in [Records -> Ips]
    /\ StampsOf \in [Records -> (SUBSET Stamps) \ {{}}]
    /\ Ignored \subseteq Records
    /\ IsFiniteSet(Inodes) /\ IsFiniteSet(Stamps) /\ IsFiniteSet(Consumers)
    /\ {MaxAttempts, Sends} \subseteq Nat \ {0}

\* Records the process holds and nothing outside it knows of.
InMemory == {queue[k] : k \in 1 .. Len(queue)}
                \union ({job[c] : c \in Consumers} \ {NoRecord})

-----------------------------------------------------------------------------

\* main() starts tails and consumers once the connection pool stands.
Boot ==
    /\ phase = "down"
    /\ StartTails
    /\ phase' = "up"
    /\ UNCHANGED <<queue, writerVars, lost>>

\* SIGTERM, or a task that ended: cancel the tails and let the queue drain.
BeginShutdown ==
    /\ phase = "up"
    /\ faults < MaxFaults
    /\ faults' = faults + 1
    /\ StopTails
    /\ phase' = "draining"
    /\ UNCHANGED <<queue, writerVars, lost>>

\* Mutant: shutdown waits for an empty queue, not for task_done().
DrainedQueueOnly ==
    /\ phase = "draining"
    /\ queue = <<>>
    /\ phase' = "down"
    /\ I!ForgetWork
    /\ UNCHANGED <<tailVars, stored, ipCount, published, announced, counted,
                   dropped, ignored, lost>>

\* queue.join() returned: every record taken is done with.
Drained ==
    /\ phase = "draining"
    /\ queue = <<>>
    /\ \A c \in Consumers : stage[c] = "get"
    /\ phase' = "down"
    /\ I!ForgetWork
    /\ UNCHANGED <<tailVars, stored, ipCount, published, announced, counted,
                   dropped, ignored, lost>>

\* The drain window closes first: consumers are cancelled wherever they are.
DrainTimeout ==
    /\ phase = "draining"
    /\ phase' = "down"
    /\ lost' = lost \union InMemory
    /\ queue' = <<>>
    /\ I!ForgetWork
    /\ UNCHANGED <<disk, reader, ckpt, faults, history, stored, ipCount,
                   published, announced, counted, dropped, ignored>>

\* The process is killed.
Kill ==
    /\ phase = "up"
    /\ Die
    /\ phase' = "down"
    /\ lost' = lost \union InMemory
    /\ I!ForgetWork
    /\ UNCHANGED <<stored, ipCount, published, announced, counted, dropped,
                   ignored>>

World(s) == WorldStep(s) /\ UNCHANGED <<writerVars, mainVars>>

Tailing(s) == TailStep(s) /\ UNCHANGED <<writerVars, mainVars>>

TailError(s) == TailFails(s) /\ UNCHANGED <<writerVars, mainVars>>

Archive == Compress /\ UNCHANGED <<writerVars, mainVars>>

Consuming(c) == /\ phase # "down"
                /\ I!ConsumerStep(c)
                /\ UNCHANGED <<disk, reader, ckpt, faults, history, mainVars>>

PipelineInit == TailInit /\ I!WorkInit /\ phase = "down" /\ lost = {}

\* Everything but failures of the process itself.
OrderlyNext ==
    \/ \E s \in Sensors : World(s) \/ Tailing(s)
    \/ \E c \in Consumers : Consuming(c)
    \/ Archive
    \/ Boot
    \/ BeginShutdown
    \/ Drained
    \/ DrainTimeout

PipelineNext ==
    \/ OrderlyNext
    \/ \E s \in Sensors : TailError(s)
    \/ Kill

PipelineSpec == PipelineInit /\ [][PipelineNext]_pipelineVars

OrderlySpec == PipelineInit /\ [][OrderlyNext]_pipelineVars

FairPipelineSpec ==
    /\ PipelineSpec
    /\ \A s \in Sensors : /\ WF_pipelineVars(Tailing(s))
                          /\ WF_pipelineVars(World(s) /\ WriteRest(s))
                          /\ WF_pipelineVars(World(s) /\ CronTouch(s))
                          /\ WF_pipelineVars(World(s) /\ SelfReopen(s))
    /\ \A c \in Consumers : WF_pipelineVars(Consuming(c))
    /\ WF_pipelineVars(Boot)
    /\ WF_pipelineVars(Drained \/ DrainTimeout)

-----------------------------------------------------------------------------
(* Properties *)

\* Every variable stays in its range.
PipelineTypeOK ==
    /\ TailTypeOK
    /\ I!IngestTypeOK
    /\ phase \in {"down", "up", "draining"}
    /\ lost \subseteq Records

Handled == I!Handled

\* End to end, no record falls between tail, queue, consumer and store: what a
\* checkpoint has passed was stored, ignored or dropped with a log line, was
\* skipped or torn at reading, is in memory, or was in memory at a moment the
\* process was cut off.  In particular a shutdown that drains loses nothing.
Accounted ==
    \A s \in Sensors :
        ckpt[s].ino # NoFile =>
            RecordsBelow(ckpt[s].ino, ckpt[s].off)
                \subseteq Handled \union skipped \union torn \union InMemory \union lost

\* What the consumers promise of every row and address holds for the process
\* as it runs: a replay by a tail, which brings a record back under its own key
\* or, without a timestamp, under another one, a drain and a kill in the middle
\* of a record neither count nor publish a row twice, nor announce an address
\* twice.
LedgerKept == I!LedgerKept

\* A complete line in a followed file ends up stored, ignored, dropped with a
\* log line, logged as skipped, torn, or lost with a process that was cut off.
EventuallyAccounted ==
    \A r \in Records :
        (\E s \in Sensors : /\ fh[s] = r[1]
                            /\ r[2] <= base[r[1]] + Whole(size[r[1]]))
            ~> (r \in Handled \union skipped \union torn \union lost)

\* "Records still queued past the drain window are not lost -- no checkpoint
\* has advanced past them": between two runs of the process, everything the
\* checkpoints will not read again has been dealt with.
AtLeastOnce ==
    phase = "down" =>
        \A s \in Sensors :
            ckpt[s].ino # NoFile =>
                RecordsBelow(ckpt[s].ino, ckpt[s].off)
                    \subseteq Handled \union skipped \union torn
==============================================================================
