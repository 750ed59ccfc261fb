------------------------------- MODULE Watchdog -------------------------------
(***************************************************************************)
(* The liveness mechanism of the pipeline, with time: every tail and every *)
(* consumer touches a heartbeat file of its own, and the watchdog ends the *)
(* process when one of the files is older than its threshold, for Docker   *)
(* to start it again.  heartbeat.py is the same in the three workers.      *)
(*                                                                         *)
(* Time is counted in ticks, every wait rounded up to whole ticks.  No     *)
(* tick passes while a loop has something to do.  What the loops read and  *)
(* write is in the modules SensorTail and Ingest.                          *)
(***************************************************************************)
EXTENDS Integers, Sequences

CONSTANTS Tails, Consumers, \* the loops
          QueueMax,         \* INGEST_QUEUE_MAX
          MaxAttempts,      \* INGEST_ITEM_MAX_ATTEMPTS
          TailStale,        \* PIPELINE_TAIL_STALE_S
          ConsumerStale,    \* PIPELINE_CONSUMER_STALE_S
          Poll,             \* poll_s of the watchdog
          IdleBeat,         \* IDLE_BEAT_S
          CallsMax,         \* the longest that the calls of one attempt take: a timeout each
          Ceiling,          \* backoff before attempt 1, 2, ..., up to BACKOFF_MAX_S
          TailsFail         \* TRUE when reading a log may raise

Loops == Tails \union Consumers

ASSUME WatchAssumption ==
    /\ Tails \intersect Consumers = {}
    /\ {QueueMax, MaxAttempts, TailStale, ConsumerStale, Poll, IdleBeat, CallsMax}
           \subseteq Nat \ {0}
    /\ Ceiling \in Seq(Nat \ {0}) /\ Ceiling # <<>>
    /\ TailsFail \in BOOLEAN

\* Both are written into the code: 5 s and 15 s.
ASSUME BeatAssumption == IdleBeat < Poll

VARIABLES
    phase, \* of the process: "down", "connecting" to Postgres, or "up"
    age,   \* [Loops -> Nat]: of the heartbeat file
    at,    \* [Loops -> Steps]: where the loop is
    left,  \* [Loops -> Nat]: ticks until its wait is over
    tries, \* [Loops -> Nat]: attempts at a record; failures of a tail
    queue, \* how many records are queued
    poll,  \* ticks until the watchdog looks
    calls  \* history, [Consumers -> Nat]: what the calls of the attempt took that is on,
           \* or was the last one before the consumer waits

watchVars == <<phase, age, at, left, tries, queue, poll, calls>>

\* "hung": in a call that never returns.
Steps == {"read", "look", "put", "drain", "put drained", "backoff", "get", "try", "hung"}

Threshold(l) == IF l \in Tails THEN TailStale ELSE ConsumerStale

\* Mutant: the queue takes one record more than it has slots.
HasRoomLate == queue <= QueueMax

HasRoom == queue < QueueMax

\* Mutant: all loops share a file.
BeatShared(l) == age' = [k \in Loops |-> 0]

Beat(l) == age' = [age EXCEPT ![l] = 0]

Silent == UNCHANGED age

Goto(l, step, ticks) ==
    /\ at' = [at EXCEPT ![l] = step]
    /\ left' = [left EXCEPT ![l] = ticks]
    /\ UNCHANGED <<phase, poll>>

BackoffMax(attempt) == Ceiling[IF attempt <= Len(Ceiling) THEN attempt ELSE Len(Ceiling)]

\* delay: half of the ceiling at least.
Delays(attempt) == (BackoffMax(attempt) + 1) \div 2 .. BackoffMax(attempt)

\* The loop l is at a step whose wait is over.
Ready(l, step) == phase = "up" /\ at[l] = step /\ left[l] = 0

-----------------------------------------------------------------------------
(* tail *)

\* At readline(): after the sleep ("look") the file was found in its place.
Reading(t) == Ready(t, "read") \/ Ready(t, "look")

\* A line that parses goes to the queue, and the tail beats when it is there.
ReadLine(t) ==
    /\ Reading(t)
    /\ IF HasRoom
       THEN queue' = queue + 1 /\ Beat(t) /\ Goto(t, "read", 0)
       ELSE UNCHANGED queue /\ Silent /\ Goto(t, "put", 0)
    /\ UNCHANGED tries

PutReturns(t) ==
    /\ Ready(t, "put") /\ HasRoom
    /\ queue' = queue + 1
    /\ Beat(t)
    /\ Goto(t, "read", 0)
    /\ UNCHANGED tries

\* No line, or no file, or a line that does not parse.
CaughtUp(t) ==
    /\ Reading(t)
    /\ Beat(t)
    /\ Goto(t, "look", 1)
    /\ UNCHANGED <<tries, queue>>

\* Rotation: the rest of the old file is queued without a beat.
Rotated(t) ==
    /\ Ready(t, "look")
    /\ Silent
    /\ Goto(t, "drain", 0)
    /\ UNCHANGED <<tries, queue>>

DrainLine(t) ==
    /\ Ready(t, "drain")
    /\ IF HasRoom
       THEN queue' = queue + 1 /\ Goto(t, "drain", 0)
       ELSE UNCHANGED queue /\ Goto(t, "put drained", 0)
    /\ Silent
    /\ UNCHANGED tries

PutDrained(t) ==
    /\ Ready(t, "put drained") /\ HasRoom
    /\ queue' = queue + 1
    /\ Silent
    /\ Goto(t, "drain", 0)
    /\ UNCHANGED tries

DrainDone(t) ==
    /\ Ready(t, "drain")
    /\ Silent
    /\ Goto(t, "read", 0)
    /\ UNCHANGED <<tries, queue>>

\* Backing off, a tail does not beat.  Whether it had run for BACKOFF_RESET_S before is
\* left open.
TailFails(t) ==
    /\ TailsFail
    /\ Reading(t)
    /\ \E n \in {1, tries[t] + 1} :
           /\ n <= Len(Ceiling)
           /\ tries' = [tries EXCEPT ![t] = n]
           /\ \E d \in Delays(n) : Goto(t, "backoff", d)
    /\ Silent
    /\ UNCHANGED queue

Reopen(t) ==
    /\ t \in Tails /\ Ready(t, "backoff")
    /\ Silent
    /\ Goto(t, "read", 0)
    /\ UNCHANGED <<tries, queue>>

-----------------------------------------------------------------------------
(* consumer *)

Try(c) == \E d \in 1 .. CallsMax : Goto(c, "try", d) /\ calls' = [calls EXCEPT ![c] = d]

Get(c) ==
    /\ phase = "up" /\ at[c] = "get" /\ queue > 0
    /\ queue' = queue - 1
    /\ Beat(c)
    /\ tries' = [tries EXCEPT ![c] = 1]
    /\ Try(c)

IdleBeats(c) ==
    /\ Ready(c, "get") /\ queue = 0
    /\ Beat(c)
    /\ Goto(c, "get", IdleBeat)
    /\ calls' = [calls EXCEPT ![c] = 0]
    /\ UNCHANGED <<tries, queue>>

\* The record is done with: handled, or dropped at its last attempt.
Done(c) ==
    /\ Ready(c, "try")
    /\ Silent
    /\ tries' = [tries EXCEPT ![c] = 0]
    /\ Goto(c, "get", IdleBeat)
    /\ UNCHANGED <<queue, calls>>

TryFails(c) ==
    /\ Ready(c, "try") /\ tries[c] < MaxAttempts
    /\ Silent
    /\ \E d \in Delays(tries[c]) : Goto(c, "backoff", d)
    /\ UNCHANGED <<tries, queue, calls>>

\* Mutant: a consumer that backs off beats for new records only.
BackedOffSilent(c) == Silent

\* Backing off is progress, not a stall.
BackedOff(c) == Beat(c)

TryAgain(c) ==
    /\ c \in Consumers /\ Ready(c, "backoff")
    /\ BackedOff(c)
    /\ tries' = [tries EXCEPT ![c] = @ + 1]
    /\ Try(c)
    /\ UNCHANGED queue

-----------------------------------------------------------------------------
(* The process *)

Stale == {l \in Loops : age[l] > Threshold(l)}

\* The watchdog finds every file young and sleeps again.
Check ==
    /\ phase = "up" /\ poll = 0 /\ Stale = {}
    /\ poll' = Poll
    /\ UNCHANGED <<phase, age, at, left, tries, queue, calls>>

\* A loop: what it does at the start.
Begin(l) == IF l \in Tails THEN "read" ELSE "get"

\* os._exit: the files stay.
Exit ==
    /\ phase = "up" /\ poll = 0 /\ Stale # {}
    /\ phase' = "down"
    /\ at' = [l \in Loops |-> Begin(l)]
    /\ left' = [l \in Loops |-> IF l \in Tails THEN 0 ELSE IdleBeat]
    /\ tries' = [l \in Loops |-> 0]
    /\ queue' = 0
    /\ poll' = Poll
    /\ calls' = [c \in Consumers |-> 0]
    /\ UNCHANGED age

\* Docker starts the process; start() seeds the files before Postgres is there.
Start ==
    /\ phase = "down"
    /\ phase' = "connecting"
    /\ age' = [l \in Loops |-> 0]
    /\ UNCHANGED <<at, left, tries, queue, poll, calls>>

\* _connect_pool returns.  The watchdog sleeps before it looks.
Connected ==
    /\ phase = "connecting"
    /\ phase' = "up"
    /\ UNCHANGED <<age, at, left, tries, queue, poll, calls>>

Hang(l) ==
    /\ phase = "up"
    /\ Silent
    /\ Goto(l, "hung", 0)
    /\ UNCHANGED <<tries, queue, calls>>

TailStep(t) == /\ \/ ReadLine(t) \/ PutReturns(t) \/ CaughtUp(t)
                  \/ Rotated(t) \/ DrainLine(t) \/ PutDrained(t) \/ DrainDone(t)
                  \/ TailFails(t) \/ Reopen(t)
               /\ UNCHANGED calls

ConsumerStep(c) == Get(c) \/ IdleBeats(c) \/ Done(c) \/ TryFails(c) \/ TryAgain(c)

\* Somebody can do something at once.
Busy == \/ poll = 0
        \/ \E t \in Tails : at[t] \in {"read", "look", "drain", "backoff"} /\ left[t] = 0
        \/ \E t \in Tails : at[t] \in {"put", "put drained"} /\ HasRoom
        \/ \E c \in Consumers : at[c] \in {"get", "try", "backoff"} /\ left[c] = 0
        \/ \E c \in Consumers : at[c] = "get" /\ queue > 0

Older(n, limit) == IF n <= limit THEN n + 1 ELSE n
Sooner(n)       == IF n > 0 THEN n - 1 ELSE 0

Tick ==
    /\ phase = "connecting" \/ (phase = "up" /\ ~ Busy)
    /\ age' = [l \in Loops |-> Older(age[l], Threshold(l))]
    /\ IF phase = "up"
       THEN /\ left' = [l \in Loops |-> Sooner(left[l])]
            /\ poll' = poll - 1
       ELSE UNCHANGED <<left, poll>>
    /\ UNCHANGED <<phase, at, tries, queue, calls>>

WatchInit ==
    /\ phase = "down"
    /\ age = [l \in Loops |-> 0]
    /\ at = [l \in Loops |-> Begin(l)]
    /\ left = [l \in Loops |-> IF l \in Tails THEN 0 ELSE IdleBeat]
    /\ tries = [l \in Loops |-> 0]
    /\ queue = 0
    /\ poll = Poll
    /\ calls = [c \in Consumers |-> 0]

Process == \/ \E t \in Tails : TailStep(t)
           \/ \E c \in Consumers : ConsumerStep(c)
           \/ Check \/ Exit

WatchNext == \/ Process
             \/ Start
             \/ Connected
             \/ Tick
             \/ \E l \in Loops : Hang(l)

WatchSpec == WatchInit /\ [][WatchNext]_watchVars

\* The event loop runs what is ready and time goes by; the watchdog comes to its turn, the
\* restart policy starts the process, and Postgres is there in the end.  Nothing is
\* assumed of hangs.
FairWatchSpec ==
    /\ WatchSpec
    /\ \A c \in Consumers : WF_watchVars(ConsumerStep(c))
    /\ \A t \in Tails : WF_watchVars(TailStep(t))
    /\ WF_watchVars(Check \/ Exit)
    /\ WF_watchVars(Start) /\ WF_watchVars(Connected) /\ WF_watchVars(Tick)

-----------------------------------------------------------------------------
(* Properties *)

\* Every variable stays in its range, and the queue within its slots.
WatchTypeOK ==
    /\ phase \in {"down", "connecting", "up"}
    /\ \A l \in Loops : age[l] \in 0 .. Threshold(l) + 1
    /\ at \in [Loops -> Steps]
    /\ left \in [Loops -> Nat] /\ tries \in [Loops -> Nat]
    /\ \A c \in Consumers : tries[c] <= MaxAttempts
    /\ queue \in 0 .. QueueMax
    /\ poll \in 0 .. Poll
    /\ calls \in [Consumers -> 0 .. CallsMax]

\* How long a consumer may be silent where it is: for the calls of one attempt, and for
\* one wait after it.
Silence(c) == calls[c] + CASE at[c] = "backoff" -> BackoffMax(tries[c])
                           [] at[c] = "get"     -> IdleBeat
                           [] OTHER             -> 0

\* "A Postgres outage (during which the consumers are working exactly as intended)" must
\* not "look like a hang": whenever the watchdog looks, also after a long start, what is
\* past its threshold is a wedged loop, a tail that could not go on reading, or a consumer
\* with one attempt whose calls, with the one backoff or idle wait after them, exceed the
\* threshold alone; never a consumer for the attempts and backoffs of a record together,
\* nor a tail at the end of its file.
RestartForCause ==
    phase = "up" /\ poll = 0
        => \A l \in Stale : \/ at[l] = "hung"
                            \/ l \in Tails /\ at[l] # "look"
                            \/ l \in Consumers /\ Silence(l) > ConsumerStale

\* A loop that hangs ends the process, whatever the other loops do, and so its hang.
HangEnds == \A l \in Loops : (at[l] = "hung") ~> (at[l] # "hung")

\* "The consumer threshold must clear BACKOFF_MAX_S plus a retry cycle": as long as no loop
\* is wedged, the watchdog finds no consumer stale.
ConsumersSpared ==
    phase = "up" /\ poll = 0 /\ (\A l \in Loops : at[l] # "hung")
        => \A c \in Consumers : age[c] <= ConsumerStale

\* "A full queue is not data loss: the tails block on put()": as long as no loop is wedged,
\* the watchdog finds no tail stale.
TailsSpared ==
    phase = "up" /\ poll = 0 /\ (\A l \in Loops : at[l] # "hung")
        => \A t \in Tails : age[t] <= TailStale
==============================================================================
