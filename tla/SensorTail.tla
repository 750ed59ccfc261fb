------------------------------ MODULE SensorTail ------------------------------
(***************************************************************************)
(* How pipeline/ingestor.py follows the sensors' JSON-lines logs: one      *)
(* tail() per sensor file, the bounded queue they share, the checkpoint    *)
(* each keeps on disk, and the world around them -- the sensor that        *)
(* appends, the rotation that renames the file away, the process that      *)
(* stops and starts.                                                       *)
(*                                                                         *)
(* A file is an inode number.  Lengths and read positions are counted in   *)
(* half lines: a whole line is two halves, an odd length is a line still   *)
(* being written.  A record is named by the place it was written at, the   *)
(* pair <<inode, n>> for the n-th line ever written under that inode       *)
(* number, so two records are never confused.                              *)
(***************************************************************************)
EXTENDS Integers, Sequences, FiniteSets

CONSTANTS Sensors,         \* the followed files: eve.json, cowrie.json, ...
          Inodes,          \* inode numbers of the shared log volume
          NoFile,          \* no inode: path missing, handle closed
          NoRecord,        \* the tail holds no record
          QueueMax,        \* INGEST_QUEUE_MAX
          CheckpointEvery, \* CHECKPOINT_EVERY_LINES
          SelfRotating,    \* sensors that rotate their own log (Cowrie)
          TornWrites,      \* sensors of whose lines a reader may see half
          InodeReuse,      \* may the file system hand out a freed inode again?
          DiskFaults,      \* may a checkpoint write fail?
          MaxLines,        \* bound: lines ever written under one inode
          MaxFaults        \* bound: process stops plus tail exceptions

ASSUME TailAssumption ==
    /\ SelfRotating \subseteq Sensors
    /\ TornWrites \subseteq Sensors
    /\ NoFile \notin Inodes
    /\ QueueMax \in Nat \ {0}
    /\ CheckpointEvery \in Nat \ {0}
    /\ MaxLines \in Nat
    /\ MaxFaults \in Nat
    /\ {InodeReuse, DiskFaults} \subseteq BOOLEAN
    /\ NoRecord \notin Inodes \X (1 .. MaxLines)

Records == Inodes \X (1 .. MaxLines)
Handles == Inodes \union {NoFile}

VARIABLES
    \* the log volume and the sensors writing to it
    path,     \* [Sensors -> Handles]: the inode the log's path names
    wfd,      \* [Sensors -> Handles]: the inode the sensor writes to
    renamed,  \* inodes of rotated files not yet compressed away
    size,     \* [Inodes -> Nat]: length in half lines
    base,     \* [Inodes -> Nat]: lines of earlier contents of that inode
    \* the tails
    pc,       \* [Sensors -> States]: where _tail_once is
    fh,       \* [Sensors -> Handles]: the open handle
    pos,      \* [Sensors -> Nat]: fh.tell() in half lines
    hand,     \* record a tail is blocked on queue.put() with
    unsaved,  \* lines read since the last checkpoint
    ckpt,     \* the checkpoint file: inode and offset
    queue,    \* records between the tails and the consumers
    faults,   \* process stops and tail exceptions so far
    \* history: what became of the records
    enqueued, \* records put on the queue at least once
    skipped,  \* records whose loss _resume_position logs
    torn,     \* records read in two pieces, neither of them parseable
    drained   \* <<inode, base, let>> of the contents closed after a drain:
              \* let, that no sensor had that inode open any more

disk    == <<path, wfd, renamed, size, base>>
reader  == <<pc, fh, pos, hand, unsaved>>
history == <<enqueued, skipped, torn, drained>>
tailVars == <<disk, reader, ckpt, queue, faults, history>>

\* off: not running.  wait: at the exists() loop.  read: in the main loop.
\* put, dput: blocked on a full queue in the main / drain loop.  idle: asleep
\* at end of file.  drain: emptying a rotated-out file.  reopen: waiting for
\* its successor.
States == {"off", "wait", "read", "put", "idle", "drain", "dput", "reopen"}

NoCheckpoint == [ino |-> NoFile, off |-> 0]

-----------------------------------------------------------------------------
(* Lines and positions *)

Whole(h) == h \div 2         \* whole lines in h halves
Begun(h) == (h + 1) \div 2   \* lines of which at least half is there

\* Where readline() stops from position p in a file of h halves: behind the
\* next newline, or at the end of the file when the line has none yet.
NextPos(p, h) == IF p % 2 = 0 /\ h >= p + 2 THEN p + 2 ELSE p + 1

\* Does that readline() return one whole line?
ReadsWhole(p, h) == p % 2 = 0 /\ h >= p + 2

LineAt(i, p) == <<i, base[i] + p \div 2 + 1>>

\* Everything ever begun under inode i.
RecordsOf(i) == {<<i, n>> : n \in 1 .. base[i] + Begun(size[i])}

\* The records of the present content of file i up to position p.
RecordsBelow(i, p) ==
    RecordsOf(i) \intersect {<<i, n>> : n \in base[i] + 1 .. base[i] + Whole(p)}

-----------------------------------------------------------------------------
(* The log volume: sensors and rotation *)

Linked == renamed \union {path[s] : s \in Sensors}

Open == {wfd[s] : s \in Sensors} \union {fh[s] : s \in Sensors}

Free(i) == /\ i \in Inodes \ (Linked \union Open)
           /\ InodeReuse \/ (size[i] = 0 /\ base[i] = 0)

\* Bound: a log is moved aside only while an inode is left for its successor.
InodeLeft == Cardinality({i \in Inodes : Free(i)})
                 > Cardinality({s \in Sensors : path[s] = NoFile})

\* A new, empty file appears at sensor s's path.
CreateAt(s, i) ==
    /\ Free(i)
    /\ path' = [path EXCEPT ![s] = i]
    /\ base' = [base EXCEPT ![i] = @ + Begun(size[i])]
    /\ size' = [size EXCEPT ![i] = 0]

CanWrite(s) == /\ wfd[s] # NoFile
               /\ base[wfd[s]] + Begun(size[wfd[s]]) < MaxLines
               /\ size[wfd[s]] % 2 = 0

\* The sensor appends one line.
WriteLine(s) ==
    /\ CanWrite(s)
    /\ size' = [size EXCEPT ![wfd[s]] = @ + 2]
    /\ UNCHANGED <<path, wfd, renamed, base, reader, ckpt, queue, faults, history>>

\* A line longer than the writer's buffer reaches the file in two writes.
WritePart(s) ==
    /\ s \in TornWrites
    /\ CanWrite(s)
    /\ size' = [size EXCEPT ![wfd[s]] = @ + 1]
    /\ UNCHANGED <<path, wfd, renamed, base, reader, ckpt, queue, faults, history>>

WriteRest(s) ==
    /\ wfd[s] # NoFile
    /\ size[wfd[s]] % 2 = 1
    /\ size' = [size EXCEPT ![wfd[s]] = @ + 1]
    /\ UNCHANGED <<path, wfd, renamed, base, reader, ckpt, queue, faults, history>>

\* rotate(): mv the non-empty log aside ...
CronMove(s) ==
    /\ s \notin SelfRotating
    /\ path[s] # NoFile
    /\ size[path[s]] > 0
    /\ InodeLeft
    /\ renamed' = renamed \union {path[s]}
    /\ path' = [path EXCEPT ![s] = NoFile]
    /\ UNCHANGED <<wfd, size, base, reader, ckpt, queue, faults, history>>

\* ... and touch its successor, which the writer does not know of yet.
CronTouch(s) ==
    /\ s \notin SelfRotating
    /\ path[s] = NoFile
    /\ \E i \in Inodes : CreateAt(s, i)
    /\ UNCHANGED <<wfd, renamed, reader, ckpt, queue, faults, history>>

\* The writer opens its path: Suricata on SIGHUP, services.py before a write.
\* Opening for append creates the file when rotation has just moved it away.
WriterReopen(s) ==
    /\ s \notin SelfRotating
    /\ wfd[s] # path[s] \/ path[s] = NoFile
    /\ wfd[s] # NoFile => size[wfd[s]] % 2 = 0
    /\ \/ /\ path[s] # NoFile
          /\ wfd' = [wfd EXCEPT ![s] = path[s]]
          /\ UNCHANGED <<path, size, base>>
       \/ /\ path[s] = NoFile
          /\ \E i \in Inodes : /\ CreateAt(s, i)
                               /\ wfd' = [wfd EXCEPT ![s] = i]
    /\ UNCHANGED <<renamed, reader, ckpt, queue, faults, history>>

\* Cowrie closes its log, renames it, and opens a new one.
SelfMove(s) ==
    /\ s \in SelfRotating
    /\ path[s] # NoFile
    /\ size[path[s]] > 0
    /\ InodeLeft
    /\ size[path[s]] % 2 = 0
    /\ renamed' = renamed \union {path[s]}
    /\ path' = [path EXCEPT ![s] = NoFile]
    /\ wfd' = [wfd EXCEPT ![s] = NoFile]
    /\ UNCHANGED <<size, base, reader, ckpt, queue, faults, history>>

SelfReopen(s) ==
    /\ s \in SelfRotating
    /\ path[s] = NoFile
    /\ \E i \in Inodes : /\ CreateAt(s, i)
                         /\ wfd' = [wfd EXCEPT ![s] = i]
    /\ UNCHANGED <<renamed, reader, ckpt, queue, faults, history>>

\* gzip replaces a rotated file by its archive; the inode goes once nobody
\* holds it open.
Compress ==
    /\ \E i \in renamed : renamed' = renamed \ {i}
    /\ UNCHANGED <<path, wfd, size, base, reader, ckpt, queue, faults, history>>

-----------------------------------------------------------------------------
(* The tails *)

\* _save_checkpoint: atomic, and silent when the state directory is not
\* writable.
SaveCheckpoint(s, i, p) ==
    \/ ckpt' = [ckpt EXCEPT ![s] = [ino |-> i, off |-> p]]
    \/ DiskFaults /\ UNCHANGED ckpt

\* Mutants: the inode in the checkpoint is not compared; every start seeks to
\* the end, which is what tail() did before there were checkpoints.
ResumePosAnyInode(s, i) ==
    IF ckpt[s] = NoCheckpoint THEN size[i]
    ELSE IF ckpt[s].off > size[i] THEN 0 ELSE ckpt[s].off

ResumePosAtEnd(s, i) == size[i]

\* _resume_position: where reading starts in file i.
ResumePos(s, i) ==
    IF ckpt[s] = NoCheckpoint THEN size[i]
    ELSE IF ckpt[s].ino # i \/ ckpt[s].off > size[i] THEN 0
    ELSE ckpt[s].off

\* The records _resume_position reports as not ingested: the backlog of a
\* first start, the rest of a file that rotated away while down.
ResumeSkips(s, i) ==
    CASE ckpt[s] = NoCheckpoint -> RecordsOf(i)
      [] ckpt[s].ino \notin {i, NoFile} -> RecordsOf(ckpt[s].ino)
      [] OTHER -> {}

\* _tail_once up to its main loop: open the path, find the place, persist it.
OpenPath(s) ==
    /\ pc[s] = "wait"
    /\ path[s] # NoFile
    /\ LET i == path[s]
           p == ResumePos(s, i)
       IN  /\ fh' = [fh EXCEPT ![s] = i]
           /\ pos' = [pos EXCEPT ![s] = p]
           /\ SaveCheckpoint(s, i, p)
           /\ skipped' = skipped \union ResumeSkips(s, i)
    /\ pc' = [pc EXCEPT ![s] = "read"]
    /\ unsaved' = [unsaved EXCEPT ![s] = 0]
    /\ UNCHANGED <<disk, hand, queue, faults, enqueued, torn, drained>>

\* Mutant: one record too many fits.
PutOverfull(r) == /\ Len(queue) <= QueueMax
                  /\ queue' = Append(queue, r)
                  /\ enqueued' = enqueued \union {r}

\* queue.put(): at once if there is room.
Put(r) == /\ Len(queue) < QueueMax
          /\ queue' = Append(queue, r)
          /\ enqueued' = enqueued \union {r}

\* Mutant: the checkpoint is written one line late.
LineDoneLate(s, p) ==
    IF pc[s] \in {"read", "put"}
    THEN IF unsaved[s] >= CheckpointEvery
         THEN /\ SaveCheckpoint(s, fh[s], p)
              /\ unsaved' = [unsaved EXCEPT ![s] = 0]
         ELSE /\ unsaved' = [unsaved EXCEPT ![s] = @ + 1]
              /\ UNCHANGED ckpt
    ELSE UNCHANGED <<unsaved, ckpt>>

\* After a line of the main loop has been dealt with: count it, and write a
\* checkpoint at position p when CheckpointEvery of them have gone by.  The
\* drain loop does neither.
LineDone(s, p) ==
    IF pc[s] \in {"read", "put"}
    THEN IF unsaved[s] + 1 >= CheckpointEvery
         THEN /\ SaveCheckpoint(s, fh[s], p)
              /\ unsaved' = [unsaved EXCEPT ![s] = 0]
         ELSE /\ unsaved' = [unsaved EXCEPT ![s] = @ + 1]
              /\ UNCHANGED ckpt
    ELSE UNCHANGED <<unsaved, ckpt>>

AtLine(s) == /\ pc[s] \in {"read", "drain"}
             /\ pos[s] < size[fh[s]]

Advance(s) == pos' = [pos EXCEPT ![s] = NextPos(pos[s], size[fh[s]])]

\* readline() returns a whole line and its record goes onto the queue.
ReadRecord(s) ==
    /\ AtLine(s)
    /\ ReadsWhole(pos[s], size[fh[s]])
    /\ Advance(s)
    /\ Put(LineAt(fh[s], pos[s]))
    /\ LineDone(s, pos'[s])
    /\ UNCHANGED <<disk, pc, fh, hand, faults, skipped, torn, drained>>

\* Mutant: the line is counted before put() has returned.
ReadBlockedCounted(s) ==
    /\ AtLine(s)
    /\ ReadsWhole(pos[s], size[fh[s]])
    /\ Len(queue) >= QueueMax
    /\ Advance(s)
    /\ hand' = [hand EXCEPT ![s] = LineAt(fh[s], pos[s])]
    /\ LineDone(s, pos'[s])
    /\ pc' = [pc EXCEPT ![s] = IF @ = "read" THEN "put" ELSE "dput"]
    /\ UNCHANGED <<disk, fh, queue, faults, history>>

\* The same with a full queue: the tail blocks, record in hand.
ReadBlocked(s) ==
    /\ AtLine(s)
    /\ ReadsWhole(pos[s], size[fh[s]])
    /\ Len(queue) >= QueueMax
    /\ Advance(s)
    /\ hand' = [hand EXCEPT ![s] = LineAt(fh[s], pos[s])]
    /\ pc' = [pc EXCEPT ![s] = IF @ = "read" THEN "put" ELSE "dput"]
    /\ UNCHANGED <<disk, fh, unsaved, ckpt, queue, faults, history>>

\* readline() returns part of a line, which _parse gives up on.
ReadFragment(s) ==
    /\ AtLine(s)
    /\ ~ ReadsWhole(pos[s], size[fh[s]])
    /\ Advance(s)
    /\ torn' = torn \union {LineAt(fh[s], pos[s])}
    /\ LineDone(s, pos'[s])
    /\ UNCHANGED <<disk, pc, fh, hand, queue, faults, enqueued, skipped, drained>>

\* A consumer made room.
PutHand(s) ==
    /\ pc[s] \in {"put", "dput"}
    /\ Put(hand[s])
    /\ hand' = [hand EXCEPT ![s] = NoRecord]
    /\ LineDone(s, pos[s])
    /\ pc' = [pc EXCEPT ![s] = IF @ = "put" THEN "read" ELSE "drain"]
    /\ UNCHANGED <<disk, fh, pos, faults, skipped, torn, drained>>

\* Caught up: persist the position if it moved, then sleep.
CaughtUp(s) ==
    /\ pc[s] = "read"
    /\ pos[s] >= size[fh[s]]
    /\ IF unsaved[s] > 0 THEN SaveCheckpoint(s, fh[s], pos[s])
                         ELSE UNCHANGED ckpt
    /\ unsaved' = [unsaved EXCEPT ![s] = 0]
    /\ pc' = [pc EXCEPT ![s] = "idle"]
    /\ UNCHANGED <<disk, fh, pos, hand, queue, faults, history>>

\* After the sleep: stat() the path.  Another inode there means the open file
\* has been rotated out; a missing path is tried again a second later.
CheckRotation(s) ==
    /\ pc[s] = "idle"
    /\ pc' = [pc EXCEPT ![s] =
                 IF path[s] \notin {NoFile, fh[s]} THEN "drain" ELSE "read"]
    /\ UNCHANGED <<disk, fh, pos, hand, unsaved, ckpt, queue, faults, history>>

Gone(i) == <<i, base[i], \A s \in Sensors : wfd[s] # i>>

\* Mutant: the rotated-out file is closed without draining it.
DrainDoneAtOnce(s) ==
    /\ pc[s] = "drain"
    /\ fh' = [fh EXCEPT ![s] = NoFile]
    /\ pc' = [pc EXCEPT ![s] = "reopen"]
    /\ drained' = drained \union {Gone(fh[s])}
    /\ UNCHANGED <<disk, pos, hand, unsaved, ckpt, queue, faults, enqueued, skipped, torn>>

\* The rotated-out file has nothing more: close it.
DrainDone(s) ==
    /\ pc[s] = "drain"
    /\ pos[s] >= size[fh[s]]
    /\ fh' = [fh EXCEPT ![s] = NoFile]
    /\ pc' = [pc EXCEPT ![s] = "reopen"]
    /\ drained' = drained \union {Gone(fh[s])}
    /\ UNCHANGED <<disk, pos, hand, unsaved, ckpt, queue, faults, enqueued, skipped, torn>>

\* Open the successor and record it at offset 0.
OpenNext(s) ==
    /\ pc[s] = "reopen"
    /\ path[s] # NoFile
    /\ fh' = [fh EXCEPT ![s] = path[s]]
    /\ pos' = [pos EXCEPT ![s] = 0]
    /\ unsaved' = [unsaved EXCEPT ![s] = 0]
    /\ SaveCheckpoint(s, path[s], 0)
    /\ pc' = [pc EXCEPT ![s] = "read"]
    /\ UNCHANGED <<disk, hand, queue, faults, history>>

\* open(), stat() or readline() raises: tail() backs off and calls _tail_once
\* again, which starts from the checkpoint.
TailFails(s) ==
    /\ pc[s] \in {"read", "idle", "drain", "reopen"}
    /\ faults < MaxFaults
    /\ faults' = faults + 1
    /\ pc' = [pc EXCEPT ![s] = "wait"]
    /\ fh' = [fh EXCEPT ![s] = NoFile]
    /\ UNCHANGED <<disk, pos, hand, unsaved, ckpt, queue, history>>

-----------------------------------------------------------------------------
(* The process around the tails *)

\* main() creates the tail tasks.
StartTails ==
    /\ \A s \in Sensors : pc[s] = "off"
    /\ pc' = [s \in Sensors |-> "wait"]
    /\ UNCHANGED <<disk, fh, pos, hand, unsaved, ckpt, faults, history>>

\* Cancelled or killed, a tail forgets its handle and the record in its hand.
StopTails ==
    /\ \E s \in Sensors : pc[s] # "off"
    /\ pc' = [s \in Sensors |-> "off"]
    /\ fh' = [s \in Sensors |-> NoFile]
    /\ hand' = [s \in Sensors |-> NoRecord]
    /\ UNCHANGED <<disk, pos, unsaved, ckpt, history>>

\* The process dies: the queue is memory.
Die == /\ StopTails
       /\ faults < MaxFaults
       /\ faults' = faults + 1
       /\ queue' = <<>>

\* A consumer takes the next record.
Take == /\ queue # <<>>
        /\ queue' = Tail(queue)
        /\ UNCHANGED <<disk, reader, ckpt, faults, history>>

-----------------------------------------------------------------------------

TailInit ==
    /\ path \in [Sensors -> Inodes]
    /\ \A s, t \in Sensors : s # t => path[s] # path[t]
    /\ wfd = path
    /\ renamed = {}
    /\ size = [i \in Inodes |-> 0]
    /\ base = [i \in Inodes |-> 0]
    /\ pc = [s \in Sensors |-> "off"]
    /\ fh = [s \in Sensors |-> NoFile]
    /\ pos = [s \in Sensors |-> 0]
    /\ hand = [s \in Sensors |-> NoRecord]
    /\ unsaved = [s \in Sensors |-> 0]
    /\ ckpt = [s \in Sensors |-> NoCheckpoint]
    /\ queue = <<>>
    /\ faults = 0
    /\ enqueued = {}
    /\ skipped = {}
    /\ torn = {}
    /\ drained = {}

\* What sensors and rotation do.
WorldStep(s) ==
    \/ WriteLine(s)
    \/ WritePart(s)
    \/ WriteRest(s)
    \/ CronMove(s)
    \/ CronTouch(s)
    \/ WriterReopen(s)
    \/ SelfMove(s)
    \/ SelfReopen(s)

\* What one tail does.
TailStep(s) ==
    \/ OpenPath(s)
    \/ ReadRecord(s)
    \/ ReadBlocked(s)
    \/ ReadFragment(s)
    \/ PutHand(s)
    \/ CaughtUp(s)
    \/ CheckRotation(s)
    \/ DrainDone(s)
    \/ OpenNext(s)

TailNext ==
    \/ \E s \in Sensors : WorldStep(s) \/ TailStep(s) \/ TailFails(s)
    \/ Compress
    \/ StartTails /\ UNCHANGED queue
    \/ Die
    \/ Take

TailSpec == TailInit /\ [][TailNext]_tailVars

\* The event loop runs every tail that can run and takes from the queue, a
\* container that exited is started again, a line once begun is finished, and
\* whoever moved a log aside goes on to create its successor.
TailFairness ==
    /\ \A s \in Sensors : WF_tailVars(TailStep(s))
    /\ \A s \in Sensors : WF_tailVars(WriteRest(s))
    /\ \A s \in Sensors : WF_tailVars(CronTouch(s)) /\ WF_tailVars(SelfReopen(s))
    /\ WF_tailVars(StartTails /\ UNCHANGED queue)
    /\ WF_tailVars(Take)

FairTailSpec == TailSpec /\ TailFairness

-----------------------------------------------------------------------------
(* Properties *)

\* Every variable stays in its range.
TailTypeOK ==
    /\ path \in [Sensors -> Handles]
    /\ wfd \in [Sensors -> Handles]
    /\ renamed \subseteq Inodes
    /\ size \in [Inodes -> Nat]
    /\ base \in [Inodes -> Nat]
    /\ pc \in [Sensors -> States]
    /\ fh \in [Sensors -> Handles]
    /\ pos \in [Sensors -> Nat]
    /\ hand \in [Sensors -> Records \union {NoRecord}]
    /\ unsaved \in [Sensors -> Nat]
    /\ ckpt \in [Sensors -> [ino : Handles, off : Nat]]
    /\ queue \in Seq(Records)
    /\ faults \in 0 .. MaxFaults
    /\ {enqueued, skipped, torn} \subseteq SUBSET Records
    /\ drained \subseteq Inodes \X Nat \X BOOLEAN
    /\ Len(queue) <= QueueMax

\* Records of which the tail owes nobody anything any more.
Settled == enqueued \union skipped \union torn

\* Reading never jumps: each record below the read position of an open file
\* was queued, is in the tail's hand, was logged as skipped, or was torn.
NoGap ==
    \A s \in Sensors :
        fh[s] # NoFile =>
            RecordsBelow(fh[s], pos[s]) \subseteq Settled \union {hand[s]}

\* A checkpoint never runs ahead of the queue: whatever a restart from it
\* would not read again has been handed to the consumers (or is settled
\* otherwise), also when the tail is blocked on a full queue, has failed and
\* started over, or the process has died anywhere.
CheckpointCovered ==
    \A s \in Sensors :
        ckpt[s].ino # NoFile =>
            RecordsBelow(ckpt[s].ino, ckpt[s].off) \subseteq Settled

\* CHECKPOINT_EVERY_LINES is the "bound on how much gets re-read after an
\* unclean stop": as long as the checkpoint names the live log, fewer queued
\* records than that lie beyond it, whatever stops came before.
ReplayWindow(s) ==
    {r \in enqueued : /\ r[1] = ckpt[s].ino
                      /\ r[2] > base[r[1]] + Whole(ckpt[s].off)}

ReplayBounded ==
    \A s \in Sensors :
        path[s] = ckpt[s].ino =>
            Cardinality(ReplayWindow(s)) < CheckpointEvery

\* Every record of the contents d is settled, up to the last one.
Emptied(d) ==
    base[d[1]] = d[2] => RecordsBelow(d[1], size[d[1]] + 1) \subseteq Settled

\* rotate-logs.sh: "The pipeline tails by inode and drains the renamed file
\* before reopening, so rotation does not drop events".  Once the tail has
\* moved on from a rotated file that its sensor had let go of, every record of
\* that file is settled.
DrainedFully == \A d \in drained : d[3] => Emptied(d)

\* The comment as it stands.  It does not hold of a sensor that learns of the
\* rotation later than the tail: see tail_rotate_hup.cfg.
AllDrained == \A d \in drained : Emptied(d)

\* A line that stands complete in the file a tail has open reaches the queue,
\* or its loss is logged, or it was torn -- also through a full queue, a
\* rotation in the meantime, failures of the tail and restarts.
EventuallySettled ==
    \A r \in Records :
        (\E s \in Sensors : /\ fh[s] = r[1]
                            /\ r[2] <= base[r[1]] + Whole(size[r[1]]))
            ~> (r \in Settled)
==============================================================================
