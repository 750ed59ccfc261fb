--------------------------- MODULE Pipeline_proofs ---------------------------
(***************************************************************************)
(* Proofs about SensorTail, for any sensors, inodes and bounds, and about  *)
(* Pipeline, the composition of the tails and the consumers: its types,    *)
(* that no record falls between tail, queue, consumer and store, and that  *)
(* the whole process keeps the event ledger.                               *)
(*                                                                         *)
(* The part about the tails is about TailSpec and rests on TailAssumption  *)
(* alone.  What follows uses it, and what Ingest_proofs shows of the       *)
(* consumers: each step of the process is a step of the tails, of a        *)
(* consumer, or cuts them off.                                             *)
(***************************************************************************)
EXTENDS Pipeline, FiniteSetTheorems, TLAPS

IP == INSTANCE Ingest_proofs WITH MaxRestarts <- MaxFaults, restarts <- faults

-----------------------------------------------------------------------------
(* The tails: arithmetic of half lines *)

\* readline() moves forward, stays within the file, and passes the end of one
\* line at most; the line it is on has been begun.
LEMMA NextPosFacts ==
    ASSUME NEW p \in Nat, NEW h \in Nat, p < h
    PROVE  /\ NextPos(p, h) \in Nat
           /\ NextPos(p, h) <= h
           /\ Whole(p) <= Whole(NextPos(p, h))
           /\ Whole(NextPos(p, h)) <= Whole(p) + 1
           /\ Whole(p) + 1 <= Begun(h)
           /\ p \div 2 = Whole(p)
<1>1. p = 2 * (p \div 2) + (p % 2) /\ p \div 2 \in Nat /\ p % 2 \in {0, 1}
  OBVIOUS
<1>2. h = 2 * (h \div 2) + (h % 2) /\ h \div 2 \in Nat /\ h % 2 \in {0, 1}
  OBVIOUS
<1>3. (h + 1) \div 2 = h \div 2 + (h % 2)
  BY <1>2
<1>4. (p + 1) \div 2 = p \div 2 + (p % 2) /\ (p + 2) \div 2 = p \div 2 + 1
  BY <1>1
<1> QED
  BY <1>1, <1>2, <1>3, <1>4 DEF NextPos, Whole, Begun

\* The lines of a file are whole ones and at most one more that is begun.
LEMMA LineCounts ==
    ASSUME NEW h \in Nat
    PROVE  /\ Whole(h) \in Nat
           /\ Begun(h) \in Nat
           /\ Whole(h) <= Begun(h)
           /\ Begun(h) <= Begun(h + 1)
           /\ h % 2 = 0 => Begun(h + 1) = Begun(h) + 1 /\ Begun(h + 2) = Begun(h) + 1
           /\ h % 2 = 1 => Begun(h + 1) = Begun(h)
           /\ Begun(0) = 0 /\ Whole(0) = 0
  BY DEF Whole, Begun

\* A longer file has at least as many lines.
LEMMA WholeMonotone ==
    ASSUME NEW p \in Nat, NEW h \in Nat, p <= h
    PROVE  Whole(p) <= Begun(h)
  BY DEF Whole, Begun

-----------------------------------------------------------------------------
(* The tails: type correctness *)

\* States in which a tail has a file open, and a record in its hand.
Reading == {"read", "put", "idle", "drain", "dput"}
Blocked == {"put", "dput"}

\* A line never outgrows the bound, an open tail has a file, and only a
\* blocked tail holds a record.
TypeInv ==
    /\ TailTypeOK
    /\ \A i \in Inodes : base[i] + Begun(size[i]) <= MaxLines
    /\ \A s \in Sensors : pc[s] \in Reading => fh[s] \in Inodes
    /\ \A s \in Sensors : IF pc[s] \in Blocked THEN hand[s] \in Records
                                               ELSE hand[s] = NoRecord

\* Everything begun under an inode is a record within the bound.
LEMMA RecordsOfType ==
    ASSUME TypeInv, NEW i \in Inodes
    PROVE  RecordsOf(i) \subseteq Records
<1>1. base[i] \in Nat /\ size[i] \in Nat /\ base[i] + Begun(size[i]) <= MaxLines
  BY DEF TypeInv, TailTypeOK
<1>2. Begun(size[i]) \in Nat
  BY <1>1, LineCounts
<1>3. ASSUME NEW n \in 1 .. base[i] + Begun(size[i])
      PROVE  n \in 1 .. MaxLines
  BY <1>1, <1>2, TailAssumption
<1> QED
  BY <1>3 DEF RecordsOf, Records

\* The line a tail is at is a record.
LEMMA LineAtType ==
    ASSUME TypeInv, NEW s \in Sensors, AtLine(s)
    PROVE  /\ LineAt(fh[s], pos[s]) \in Records
           /\ NextPos(pos[s], size[fh[s]]) \in Nat
           /\ fh[s] \in Inodes
<1> DEFINE i == fh[s]
<1>1. i \in Inodes /\ pos[s] \in Nat /\ size[i] \in Nat /\ base[i] \in Nat
      /\ pos[s] < size[i]
  BY DEF TypeInv, TailTypeOK, AtLine, Reading
<1>2. base[i] + Begun(size[i]) <= MaxLines
  BY <1>1 DEF TypeInv
<1>3. /\ NextPos(pos[s], size[i]) \in Nat
      /\ Whole(pos[s]) + 1 <= Begun(size[i])
      /\ pos[s] \div 2 = Whole(pos[s])
  BY <1>1, NextPosFacts
<1>4. Whole(pos[s]) \in Nat /\ Begun(size[i]) \in Nat
  BY <1>1, LineCounts
<1>5. base[i] + pos[s] \div 2 + 1 \in 1 .. MaxLines
  BY <1>1, <1>2, <1>3, <1>4, TailAssumption
<1> QED
  BY <1>1, <1>3, <1>5 DEF LineAt, Records

\* A checkpoint write leaves a checkpoint.
LEMMA SaveCheckpointType ==
    ASSUME TypeInv, NEW s \in Sensors, NEW i \in Handles, NEW p \in Nat,
           SaveCheckpoint(s, i, p)
    PROVE  ckpt' \in [Sensors -> [ino : Handles, off : Nat]]
<1>1. [ino |-> i, off |-> p] \in [ino : Handles, off : Nat]
  OBVIOUS
<1>2. ckpt \in [Sensors -> [ino : Handles, off : Nat]]
  BY DEF TypeInv, TailTypeOK
<1>3. CASE ckpt' = [ckpt EXCEPT ![s] = [ino |-> i, off |-> p]]
  BY <1>1, <1>2, <1>3
<1>4. CASE UNCHANGED ckpt
  BY <1>2, <1>4
<1> QED
  BY <1>3, <1>4 DEF SaveCheckpoint

LEMMA LineDoneType ==
    ASSUME TypeInv, NEW s \in Sensors, NEW p \in Nat, LineDone(s, p)
    PROVE  /\ ckpt' \in [Sensors -> [ino : Handles, off : Nat]]
           /\ unsaved' \in [Sensors -> Nat]
<1>1. fh[s] \in Handles /\ unsaved \in [Sensors -> Nat]
      /\ ckpt \in [Sensors -> [ino : Handles, off : Nat]]
  BY DEF TypeInv, TailTypeOK
<1> QED
  BY <1>1, SaveCheckpointType DEF LineDone

LEMMA PutType ==
    ASSUME TypeInv, NEW r \in Records, Put(r)
    PROVE  /\ queue' \in Seq(Records)
           /\ Len(queue') <= QueueMax
           /\ enqueued' \subseteq Records
  BY TailAssumption DEF TypeInv, TailTypeOK, Put

\* Creating a file keeps every inode within the bound.
LEMMA CreateAtType ==
    ASSUME TypeInv, NEW s \in Sensors, NEW i \in Inodes, CreateAt(s, i)
    PROVE  /\ path' \in [Sensors -> Handles]
           /\ size' \in [Inodes -> Nat]
           /\ base' \in [Inodes -> Nat]
           /\ \A j \in Inodes : base'[j] + Begun(size'[j]) <= MaxLines
<1>1. base[i] \in Nat /\ size[i] \in Nat /\ base[i] + Begun(size[i]) <= MaxLines
  BY DEF TypeInv, TailTypeOK
<1>2. Begun(size[i]) \in Nat /\ Begun(0) = 0
  BY <1>1, LineCounts
<1> QED
  BY <1>1, <1>2, TailAssumption DEF CreateAt, TypeInv, TailTypeOK, Handles

LEMMA TypeInit == TailInit => TypeInv
<1> SUFFICES ASSUME TailInit PROVE TypeInv
  OBVIOUS
<1>1. NoCheckpoint \in [ino : Handles, off : Nat]
  BY DEF NoCheckpoint, Handles
<1>2. Begun(0) = 0
  BY LineCounts
<1>3. TailTypeOK
  BY <1>1, TailAssumption DEF TailInit, TailTypeOK, Handles, States
<1> QED
  BY <1>2, <1>3, TailAssumption
     DEF TailInit, TypeInv, Reading, Blocked

\* Writers, rotation and compression leave the tails alone.
LEMMA WorldTypeStep ==
    ASSUME TypeInv, NEW s \in Sensors, WorldStep(s)
    PROVE  TypeInv'
<1>1. /\ path \in [Sensors -> Handles] /\ wfd \in [Sensors -> Handles]
      /\ renamed \subseteq Inodes
      /\ size \in [Inodes -> Nat] /\ base \in [Inodes -> Nat]
      /\ \A i \in Inodes : base[i] + Begun(size[i]) <= MaxLines
  BY DEF TypeInv, TailTypeOK
<1>2. UNCHANGED <<reader, ckpt, queue, faults, history>>
  BY DEF WorldStep, WriteLine, WritePart, WriteRest, CronMove, CronTouch,
         WriterReopen, SelfMove, SelfReopen
<1>3. SUFFICES /\ path' \in [Sensors -> Handles]
               /\ wfd' \in [Sensors -> Handles]
               /\ renamed' \subseteq Inodes
               /\ size' \in [Inodes -> Nat]
               /\ base' \in [Inodes -> Nat]
               /\ \A i \in Inodes : base'[i] + Begun(size'[i]) <= MaxLines
  BY <1>2 DEF TypeInv, TailTypeOK, reader, history
<1>4. CASE WriteLine(s) \/ WritePart(s) \/ WriteRest(s)
  <2> DEFINE i == wfd[s]
  <2>1. i \in Inodes /\ base[i] \in Nat /\ size[i] \in Nat
    BY <1>1, <1>4 DEF WriteLine, WritePart, WriteRest, CanWrite, Handles
  <2>2. UNCHANGED <<path, wfd, renamed, base>>
    BY <1>4 DEF WriteLine, WritePart, WriteRest
  <2>3. PICK n \in Nat : /\ size' = [size EXCEPT ![i] = n]
                         /\ base[i] + Begun(n) <= MaxLines
    <3> DEFINE h == size[i]
    <3>0. /\ Begun(h) \in Nat
          /\ (h % 2 = 0) => Begun(h + 1) = Begun(h) + 1 /\ Begun(h + 2) = Begun(h) + 1
          /\ (h % 2 = 1) => Begun(h + 1) = Begun(h)
      BY <2>1, LineCounts
    <3>1. CASE WriteLine(s)
      <4>1. base[i] + Begun(h + 2) <= MaxLines
        BY <2>1, <3>0, <3>1, TailAssumption DEF WriteLine, CanWrite
      <4>2. size' = [size EXCEPT ![i] = h + 2] /\ h + 2 \in Nat
        BY <2>1, <3>1 DEF WriteLine
      <4> QED
        BY <4>1, <4>2, Zenon
    <3>2. CASE WritePart(s)
      <4>1. base[i] + Begun(h + 1) <= MaxLines
        BY <2>1, <3>0, <3>2, TailAssumption DEF WritePart, CanWrite
      <4>2. size' = [size EXCEPT ![i] = h + 1] /\ h + 1 \in Nat
        BY <2>1, <3>2 DEF WritePart
      <4> QED
        BY <4>1, <4>2, Zenon
    <3>3. CASE WriteRest(s)
      <4>1. base[i] + Begun(h + 1) <= MaxLines
        BY <1>1, <2>1, <3>0, <3>3 DEF WriteRest
      <4>2. size' = [size EXCEPT ![i] = h + 1] /\ h + 1 \in Nat
        BY <2>1, <3>3 DEF WriteRest
      <4> QED
        BY <4>1, <4>2, Zenon
    <3> QED
      BY <1>4, <3>1, <3>2, <3>3
  <2> QED
    BY <1>1, <2>1, <2>2, <2>3
<1>5. CASE CronMove(s)
  BY <1>1, <1>5 DEF CronMove, Handles
<1>6. CASE CronTouch(s)
  BY <1>1, <1>6, CreateAtType DEF CronTouch
<1>7. CASE WriterReopen(s)
  BY <1>1, <1>7, CreateAtType DEF WriterReopen, Handles
<1>8. CASE SelfMove(s)
  BY <1>1, <1>8 DEF SelfMove, Handles
<1>9. CASE SelfReopen(s)
  BY <1>1, <1>9, CreateAtType DEF SelfReopen, Handles
<1> QED
  BY <1>4, <1>5, <1>6, <1>7, <1>8, <1>9 DEF WorldStep

\* A tail's step keeps its handle, its position and its record in range.
LEMMA TailTypeStep ==
    ASSUME TypeInv, NEW s \in Sensors, TailStep(s) \/ TailFails(s)
    PROVE  TypeInv'
<1> USE DEF Reading, Blocked, States
<1>1. /\ pc \in [Sensors -> States] /\ fh \in [Sensors -> Handles]
      /\ pos \in [Sensors -> Nat] /\ unsaved \in [Sensors -> Nat]
      /\ hand \in [Sensors -> Records \union {NoRecord}]
      /\ path \in [Sensors -> Handles] /\ size \in [Inodes -> Nat]
      /\ base \in [Inodes -> Nat]
      /\ ckpt \in [Sensors -> [ino : Handles, off : Nat]]
      /\ faults \in 0 .. MaxFaults
      /\ \A t \in Sensors : pc[t] \in Reading => fh[t] \in Inodes
      /\ \A t \in Sensors : IF pc[t] \in Blocked THEN hand[t] \in Records
                                                 ELSE hand[t] = NoRecord
  BY DEF TypeInv, TailTypeOK
<1>2. UNCHANGED disk
  BY DEF TailStep, TailFails, OpenPath, ReadRecord, ReadBlocked, ReadFragment,
         PutHand, CaughtUp, CheckRotation, DrainDone, OpenNext
<1>3. CASE OpenPath(s)
  <2> DEFINE i == path[s]  p == ResumePos(s, i)
  <2>1. i \in Inodes /\ p \in Nat
    BY <1>1, <1>3 DEF OpenPath, ResumePos, Handles
  <2>2. ResumeSkips(s, i) \subseteq Records
    BY <1>1, <2>1, RecordsOfType DEF ResumeSkips, Handles
  <2>3. ckpt' \in [Sensors -> [ino : Handles, off : Nat]]
    BY <1>3, <2>1, SaveCheckpointType DEF OpenPath, Handles
  <2>4. skipped' \subseteq Records
    BY <1>3, <2>2 DEF OpenPath, TypeInv, TailTypeOK
  <2> QED
    BY <1>1, <1>2, <1>3, <2>1, <2>3, <2>4
       DEF OpenPath, TypeInv, TailTypeOK, disk, Handles
<1>4. CASE ReadRecord(s)
  <2>1. LineAt(fh[s], pos[s]) \in Records /\ NextPos(pos[s], size[fh[s]]) \in Nat
    BY <1>4, LineAtType DEF ReadRecord
  <2>2. pos' \in [Sensors -> Nat] /\ pos'[s] \in Nat
    BY <1>1, <1>4, <2>1 DEF ReadRecord, Advance
  <2>3. /\ ckpt' \in [Sensors -> [ino : Handles, off : Nat]]
        /\ unsaved' \in [Sensors -> Nat]
    BY <1>4, <2>2, LineDoneType DEF ReadRecord
  <2>4. queue' \in Seq(Records) /\ Len(queue') <= QueueMax /\ enqueued' \subseteq Records
    BY <1>4, <2>1, PutType DEF ReadRecord
  <2> QED
    BY <1>1, <1>2, <1>4, <2>2, <2>3, <2>4
       DEF ReadRecord, TypeInv, TailTypeOK, disk
<1>5. CASE ReadBlocked(s)
  <2>1. LineAt(fh[s], pos[s]) \in Records /\ NextPos(pos[s], size[fh[s]]) \in Nat
    BY <1>5, LineAtType DEF ReadBlocked
  <2>2. pos' \in [Sensors -> Nat]
    BY <1>1, <1>5, <2>1 DEF ReadBlocked, Advance
  <2> QED
    BY <1>1, <1>2, <1>5, <2>1, <2>2
       DEF ReadBlocked, AtLine, TypeInv, TailTypeOK, disk, history
<1>6. CASE ReadFragment(s)
  <2>1. LineAt(fh[s], pos[s]) \in Records /\ NextPos(pos[s], size[fh[s]]) \in Nat
    BY <1>6, LineAtType DEF ReadFragment
  <2>2. pos' \in [Sensors -> Nat] /\ pos'[s] \in Nat
    BY <1>1, <1>6, <2>1 DEF ReadFragment, Advance
  <2>3. /\ ckpt' \in [Sensors -> [ino : Handles, off : Nat]]
        /\ unsaved' \in [Sensors -> Nat]
    BY <1>6, <2>2, LineDoneType DEF ReadFragment
  <2> QED
    BY <1>1, <1>2, <1>6, <2>1, <2>2, <2>3
       DEF ReadFragment, TypeInv, TailTypeOK, disk
<1>7. CASE PutHand(s)
  <2>1. hand[s] \in Records
    BY <1>1, <1>7 DEF PutHand
  <2>2. /\ ckpt' \in [Sensors -> [ino : Handles, off : Nat]]
        /\ unsaved' \in [Sensors -> Nat]
    BY <1>1, <1>7, LineDoneType DEF PutHand
  <2>3. queue' \in Seq(Records) /\ Len(queue') <= QueueMax /\ enqueued' \subseteq Records
    BY <1>7, <2>1, PutType DEF PutHand
  <2> QED
    BY <1>1, <1>2, <1>7, <2>2, <2>3
       DEF PutHand, TypeInv, TailTypeOK, disk
<1>8. CASE CaughtUp(s)
  <2>1. ckpt' \in [Sensors -> [ino : Handles, off : Nat]]
    BY <1>1, <1>8, SaveCheckpointType DEF CaughtUp
  <2> QED
    BY <1>1, <1>2, <1>8, <2>1
       DEF CaughtUp, TypeInv, TailTypeOK, disk, history
<1>9. CASE CheckRotation(s)
  BY <1>1, <1>2, <1>9 DEF CheckRotation, TypeInv, TailTypeOK, disk, history
<1>10. CASE DrainDone(s)
  <2>1. fh[s] \in Inodes
    BY <1>10 DEF DrainDone, TypeInv, Reading
  <2>2. Gone(fh[s]) \in Inodes \X Nat \X BOOLEAN
    BY <2>1 DEF Gone, TypeInv, TailTypeOK
  <2>. QED
    BY <1>1, <1>2, <1>10, <2>2 DEF DrainDone, TypeInv, TailTypeOK, disk, Handles
<1>11. CASE OpenNext(s)
  <2>1. ckpt' \in [Sensors -> [ino : Handles, off : Nat]]
    BY <1>1, <1>11, SaveCheckpointType DEF OpenNext
  <2> QED
    BY <1>1, <1>2, <1>11, <2>1
       DEF OpenNext, TypeInv, TailTypeOK, disk, history, Handles
<1>12. CASE TailFails(s)
  <2>1. faults' \in 0 .. MaxFaults
    BY <1>1, <1>12, TailAssumption DEF TailFails
  <2>2. pc' \in [Sensors -> States] /\ fh' \in [Sensors -> Handles]
    BY <1>1, <1>12 DEF TailFails, Handles
  <2>3. /\ \A t \in Sensors : pc'[t] \in Reading => fh'[t] \in Inodes
        /\ \A t \in Sensors : IF pc'[t] \in Blocked THEN hand[t] \in Records
                                                    ELSE hand[t] = NoRecord
    BY <1>1, <1>12 DEF TailFails
  <2> QED
    BY <1>2, <1>12, <2>1, <2>2, <2>3
       DEF TailFails, TypeInv, TailTypeOK, disk, history
<1> QED
  BY <1>3, <1>4, <1>5, <1>6, <1>7, <1>8, <1>9, <1>10, <1>11, <1>12 DEF TailStep

LEMMA TypeStep == TypeInv /\ [TailNext]_tailVars => TypeInv'
<1> SUFFICES ASSUME TypeInv, [TailNext]_tailVars PROVE TypeInv'
  OBVIOUS
<1>1. CASE \E s \in Sensors : WorldStep(s) \/ TailStep(s) \/ TailFails(s)
  BY <1>1, WorldTypeStep, TailTypeStep
<1>2. CASE Compress
  BY <1>2 DEF Compress, TypeInv, TailTypeOK, reader, history
<1>3. CASE StartTails /\ UNCHANGED queue
  BY <1>3 DEF StartTails, TypeInv, TailTypeOK, disk, history, Reading, Blocked, States
<1>4. CASE Die
  <2>1. /\ pc' = [s \in Sensors |-> "off"] /\ fh' = [s \in Sensors |-> NoFile]
        /\ hand' = [s \in Sensors |-> NoRecord] /\ queue' = <<>>
        /\ UNCHANGED <<disk, pos, unsaved, ckpt, history>>
    BY <1>4 DEF Die, StopTails
  <2>2. faults' \in 0 .. MaxFaults
    BY <1>4, TailAssumption DEF Die, TypeInv, TailTypeOK
  <2>3. /\ pc' \in [Sensors -> States] /\ fh' \in [Sensors -> Handles]
        /\ hand' \in [Sensors -> Records \union {NoRecord}]
        /\ queue' \in Seq(Records) /\ Len(queue') <= QueueMax
    BY <2>1, TailAssumption DEF States, Handles
  <2>4. \A s \in Sensors : pc'[s] \notin Reading \union Blocked /\ hand'[s] = NoRecord
    BY <2>1 DEF Reading, Blocked
  <2> QED
    BY <2>1, <2>2, <2>3, <2>4 DEF TypeInv, TailTypeOK, disk, history, Blocked
<1>5. CASE Take
  <2>1. queue' \in Seq(Records) /\ Len(queue') <= QueueMax
    BY <1>5, TailAssumption DEF Take, TypeInv, TailTypeOK
  <2> QED
    BY <1>5, <2>1 DEF Take, TypeInv, TailTypeOK, disk, reader, history
<1>6. CASE UNCHANGED tailVars
  BY <1>6 DEF tailVars, TypeInv, TailTypeOK, disk, reader, history
<1> QED
  BY <1>1, <1>2, <1>3, <1>4, <1>5, <1>6 DEF TailNext

\* Every variable of the tails stays in range, for any number of sensors and
\* inodes and whatever the bounds.
THEOREM TailTypeCorrect == TailSpec => []TailTypeOK
<1>1. TypeInv => TailTypeOK
  BY DEF TypeInv
<1> QED
  BY <1>1, TypeInit, TypeStep, PTL DEF TailSpec

-----------------------------------------------------------------------------
(* The tails: nothing is passed over, as long as inode numbers are not used again *)

Upto(i, p) == {<<i, n>> : n \in 1 .. Whole(p)}

PositionInv ==
    \A s \in Sensors :
        fh[s] \in Inodes => /\ pos[s] <= size[fh[s]]
                           /\ Upto(fh[s], pos[s]) \subseteq Settled \union {hand[s]}

CheckpointInv ==
    \A s \in Sensors :
        ckpt[s].ino \in Inodes =>
            /\ ckpt[s].off <= size[ckpt[s].ino]
            /\ Upto(ckpt[s].ino, ckpt[s].off) \subseteq Settled

\* The inductive invariant.  Positions and checkpoints stay within their file
\* and inodes have one content only; without the former a checkpoint could
\* vouch for lines that are written later, without the latter for the lines of
\* another file.
GapInv == /\ TypeInv
          /\ \A i \in Inodes : base[i] = 0
          /\ PositionInv
          /\ CheckpointInv

LEMMA BelowIsUpto ==
    ASSUME NEW i \in Inodes, NEW p \in Nat, base[i] = 0
    PROVE  RecordsBelow(i, p) \subseteq Upto(i, p)
<1>1. Whole(p) \in Nat
  BY LineCounts
<1> QED
  BY <1>1 DEF RecordsBelow, RecordsOf, Upto

LEMMA GapInvImplies == GapInv => NoGap /\ CheckpointCovered
<1> SUFFICES ASSUME GapInv PROVE NoGap /\ CheckpointCovered
  OBVIOUS
<1>1. /\ fh \in [Sensors -> Handles] /\ pos \in [Sensors -> Nat]
      /\ ckpt \in [Sensors -> [ino : Handles, off : Nat]]
      /\ \A i \in Inodes : base[i] = 0
  BY DEF GapInv, TypeInv, TailTypeOK
<1>2. NoGap
  BY <1>1, BelowIsUpto DEF GapInv, PositionInv, NoGap, Handles
<1>3. CheckpointCovered
  <2> SUFFICES ASSUME NEW s \in Sensors, ckpt[s].ino # NoFile
               PROVE  RecordsBelow(ckpt[s].ino, ckpt[s].off) \subseteq Settled
    BY DEF CheckpointCovered
  <2>1. ckpt[s].ino \in Inodes /\ ckpt[s].off \in Nat
    BY <1>1 DEF Handles
  <2>2. Upto(ckpt[s].ino, ckpt[s].off) \subseteq Settled
    BY <2>1 DEF GapInv, CheckpointInv
  <2> QED
    BY <1>1, <2>1, <2>2, BelowIsUpto
<1> QED
  BY <1>2, <1>3

LEMMA GapInit == TailInit => GapInv
  BY TypeInit, TailAssumption
     DEF GapInv, TailInit, PositionInv, CheckpointInv, NoCheckpoint

\* What a checkpoint write needs to be safe.
LEMMA SaveStep ==
    ASSUME GapInv, UNCHANGED size, Settled \subseteq Settled',
           NEW s \in Sensors, NEW i \in Inodes, NEW p \in Nat,
           p <= size[i], Upto(i, p) \subseteq Settled', SaveCheckpoint(s, i, p)
    PROVE  CheckpointInv'
<1>1. ckpt \in [Sensors -> [ino : Handles, off : Nat]]
  BY DEF GapInv, TypeInv, TailTypeOK
<1>2. CASE ckpt' = [ckpt EXCEPT ![s] = [ino |-> i, off |-> p]]
  <2> SUFFICES ASSUME NEW t \in Sensors, ckpt'[t].ino \in Inodes
               PROVE  /\ ckpt'[t].off <= size[ckpt'[t].ino]
                      /\ Upto(ckpt'[t].ino, ckpt'[t].off) \subseteq Settled'
    BY DEF CheckpointInv, Upto, Whole
  <2>1. CASE t = s
    BY <1>1, <1>2, <2>1
  <2>2. CASE t # s
    <3>1. ckpt'[t] = ckpt[t]
      BY <1>1, <1>2, <2>2
    <3> QED
      BY <3>1 DEF GapInv, CheckpointInv
  <2> QED
    BY <2>1, <2>2
<1>3. CASE UNCHANGED ckpt
  BY <1>3 DEF GapInv, CheckpointInv, Upto, Whole
<1> QED
  BY <1>2, <1>3 DEF SaveCheckpoint

LEMMA KeepStep ==
    ASSUME GapInv, UNCHANGED <<size, ckpt>>, Settled \subseteq Settled'
    PROVE  CheckpointInv'
  BY DEF GapInv, CheckpointInv, Upto, Whole

LEMMA LineDoneStep ==
    ASSUME GapInv, UNCHANGED size, Settled \subseteq Settled',
           NEW s \in Sensors, NEW p \in Nat, fh[s] \in Inodes,
           p <= size[fh[s]], Upto(fh[s], p) \subseteq Settled', LineDone(s, p)
    PROVE  CheckpointInv'
  BY SaveStep, KeepStep DEF LineDone

\* What moving a read position needs to be safe.
LEMMA MoveStep ==
    ASSUME GapInv, UNCHANGED size, Settled \subseteq Settled', NEW s \in Sensors,
           \A t \in Sensors \ {s} :
               fh'[t] = fh[t] /\ pos'[t] = pos[t] /\ hand'[t] = hand[t],
           fh'[s] \in Inodes =>
               /\ pos'[s] <= size[fh'[s]]
               /\ Upto(fh'[s], pos'[s]) \subseteq Settled' \union {hand'[s]}
    PROVE  PositionInv'
<1> SUFFICES ASSUME NEW t \in Sensors, fh'[t] \in Inodes
             PROVE  /\ pos'[t] <= size[fh'[t]]
                    /\ Upto(fh'[t], pos'[t]) \subseteq Settled' \union {hand'[t]}
  BY DEF PositionInv, Upto, Whole
<1>1. CASE t = s
  BY <1>1
<1>2. CASE t # s
  BY <1>2 DEF GapInv, PositionInv
<1> QED
  BY <1>1, <1>2

\* The lines up to a position within the file are records.
LEMMA UptoRecords ==
    ASSUME TypeInv, NEW i \in Inodes, NEW p \in Nat, base[i] = 0, p <= size[i]
    PROVE  Upto(i, p) \subseteq Records
<1>1. size[i] \in Nat /\ base[i] + Begun(size[i]) <= MaxLines
  BY DEF TypeInv, TailTypeOK
<1>2. Whole(p) <= Begun(size[i])
  BY <1>1, WholeMonotone
<1>3. Whole(p) \in Nat /\ Begun(size[i]) \in Nat
  BY <1>1, LineCounts
<1>4. \A n \in 1 .. Whole(p) : n \in 1 .. MaxLines
  BY <1>1, <1>2, <1>3, TailAssumption
<1> QED
  BY <1>4 DEF Upto, Records

\* One readline() adds at most the line it was at.
LEMMA AdvanceFacts ==
    ASSUME GapInv, NEW s \in Sensors, AtLine(s), Advance(s)
    PROVE  /\ fh[s] \in Inodes
           /\ pos'[s] \in Nat
           /\ pos'[s] <= size[fh[s]]
           /\ \A t \in Sensors \ {s} : pos'[t] = pos[t]
           /\ hand[s] = NoRecord
           /\ Upto(fh[s], pos'[s]) \subseteq Settled \union {LineAt(fh[s], pos[s])}
<1> DEFINE i == fh[s]  p == pos[s]  q == NextPos(p, size[i])
<1>1. /\ i \in Inodes /\ p \in Nat /\ size[i] \in Nat /\ base[i] = 0 /\ p < size[i]
      /\ pos \in [Sensors -> Nat] /\ hand[s] = NoRecord
  BY DEF GapInv, TypeInv, TailTypeOK, AtLine, Reading, Blocked
<1>2. /\ q \in Nat /\ q <= size[i]
      /\ Whole(q) <= Whole(p) + 1 /\ p \div 2 = Whole(p)
      /\ Whole(p) + 1 <= Begun(size[i])
  BY <1>1, NextPosFacts
<1>3. Whole(p) \in Nat /\ Whole(q) \in Nat /\ Begun(size[i]) \in Nat
  BY <1>1, <1>2, LineCounts
<1>4. pos'[s] = q /\ \A t \in Sensors \ {s} : pos'[t] = pos[t]
  BY <1>1 DEF Advance
<1>5. Upto(i, q) \subseteq Upto(i, p) \union {LineAt(i, p)}
  BY <1>1, <1>2, <1>3 DEF Upto, LineAt
<1>6. Upto(i, p) \subseteq Settled
  <2>1. Upto(i, p) \subseteq Records
    BY <1>1, UptoRecords DEF GapInv
  <2>2. NoRecord \notin Records
    BY TailAssumption DEF Records
  <2>3. Upto(i, p) \subseteq Settled \union {NoRecord}
    BY <1>1 DEF GapInv, PositionInv
  <2> QED
    BY <2>1, <2>2, <2>3
<1> QED
  BY <1>1, <1>2, <1>4, <1>5, <1>6

\* Where _tail_once starts reading, everything before is settled or reported.
LEMMA ResumeStep ==
    ASSUME GapInv, NEW s \in Sensors, NEW i \in Inodes
    PROVE  /\ ResumePos(s, i) \in Nat
           /\ ResumePos(s, i) <= size[i]
           /\ Upto(i, ResumePos(s, i)) \subseteq Settled \union ResumeSkips(s, i)
<1>1. /\ ckpt[s] \in [ino : Handles, off : Nat] /\ size[i] \in Nat
      /\ base[i] = 0
  BY DEF GapInv, TypeInv, TailTypeOK
<1>2. CASE ckpt[s] = NoCheckpoint
  <2>1. Whole(size[i]) \in Nat /\ Begun(size[i]) \in Nat
        /\ Whole(size[i]) <= Begun(size[i])
    BY <1>1, LineCounts
  <2>2. Upto(i, size[i]) \subseteq RecordsOf(i)
    BY <1>1, <2>1 DEF Upto, RecordsOf
  <2> QED
    <3>1. ResumePos(s, i) = size[i]
      BY <1>2 DEF ResumePos
    <3>2. ckpt[s].ino = NoFile
      BY <1>2 DEF NoCheckpoint
    <3>3. ResumeSkips(s, i) = RecordsOf(i)
      BY <1>2, <3>2 DEF ResumeSkips
    <3> QED
      BY <1>1, <2>2, <3>1, <3>3
<1>3. CASE ckpt[s] # NoCheckpoint /\ (ckpt[s].ino # i \/ ckpt[s].off > size[i])
  <2>1. ResumePos(s, i) = 0
    BY <1>3 DEF ResumePos
  <2>2. Upto(i, 0) = {}
    BY LineCounts DEF Upto
  <2> QED
    BY <1>1, <2>1, <2>2
<1>4. CASE ckpt[s] # NoCheckpoint /\ ckpt[s].ino = i /\ ~ (ckpt[s].off > size[i])
  <2>1. ResumePos(s, i) = ckpt[s].off
    BY <1>4 DEF ResumePos
  <2>2. Upto(i, ckpt[s].off) \subseteq Settled
    BY <1>4 DEF GapInv, CheckpointInv
  <2> QED
    BY <1>1, <1>4, <2>1, <2>2
<1> QED
  BY <1>2, <1>3, <1>4

\* Without reuse, files only grow, and no file is emptied.
LEMMA FilesGrow ==
    ASSUME GapInv, InodeReuse = FALSE, NEW s \in Sensors, WorldStep(s)
    PROVE  \A i \in Inodes : size[i] <= size'[i] /\ base'[i] = 0
<1>1. /\ size \in [Inodes -> Nat] /\ base \in [Inodes -> Nat]
      /\ \A i \in Inodes : base[i] = 0
      /\ wfd[s] \in Handles
  BY DEF GapInv, TypeInv, TailTypeOK
<1>2. ASSUME NEW i \in Inodes, CreateAt(s, i)
      PROVE  \A j \in Inodes : size[j] <= size'[j] /\ base'[j] = 0
  <2>1. size[i] = 0 /\ Begun(0) = 0
    BY <1>2, LineCounts DEF CreateAt, Free
  <2> QED
    BY <1>1, <1>2, <2>1 DEF CreateAt
<1>3. CASE WriteLine(s)
  BY <1>1, <1>3 DEF WriteLine, CanWrite, Handles
<1>4. CASE WritePart(s)
  BY <1>1, <1>4 DEF WritePart, CanWrite, Handles
<1>5. CASE WriteRest(s)
  BY <1>1, <1>5 DEF WriteRest, Handles
<1>6. CASE CronMove(s) \/ SelfMove(s)
  BY <1>1, <1>6 DEF CronMove, SelfMove
<1>7. CASE CronTouch(s) \/ SelfReopen(s)
  BY <1>2, <1>7 DEF CronTouch, SelfReopen
<1>8. CASE WriterReopen(s)
  BY <1>1, <1>2, <1>8 DEF WriterReopen
<1> QED
  BY <1>3, <1>4, <1>5, <1>6, <1>7, <1>8 DEF WorldStep

LEMMA WorldGapStep ==
    ASSUME GapInv, InodeReuse = FALSE, NEW s \in Sensors, WorldStep(s)
    PROVE  GapInv'
<1>1. TypeInv'
  BY WorldTypeStep DEF GapInv
<1>2. UNCHANGED <<pc, fh, pos, hand, ckpt, enqueued, skipped, torn>>
  BY DEF WorldStep, WriteLine, WritePart, WriteRest, CronMove, CronTouch,
         WriterReopen, SelfMove, SelfReopen, reader, history
<1>3. \A i \in Inodes : /\ size[i] <= size'[i] /\ base'[i] = 0
                        /\ size[i] \in Nat /\ size'[i] \in Nat
  BY <1>1, FilesGrow DEF GapInv, TypeInv, TailTypeOK
<1>4. \A s_1 \in Sensors : pos[s_1] \in Nat /\ ckpt[s_1].off \in Nat
  BY DEF GapInv, TypeInv, TailTypeOK
<1>5. PositionInv'
  BY <1>2, <1>3, <1>4 DEF GapInv, PositionInv, Settled, Upto, Whole
<1>6. CheckpointInv'
  BY <1>2, <1>3, <1>4 DEF GapInv, CheckpointInv, Settled, Upto, Whole
<1> QED
  BY <1>1, <1>3, <1>5, <1>6 DEF GapInv

\* One step of a tail: the position moves over settled records only, and a
\* checkpoint is written for a position whose record has reached the queue.
LEMMA TailGapStep ==
    ASSUME GapInv, NEW s \in Sensors, TailStep(s) \/ TailFails(s)
    PROVE  GapInv'
<1>1. /\ TypeInv' /\ TypeInv
      /\ pc \in [Sensors -> States] /\ fh \in [Sensors -> Handles]
      /\ pos \in [Sensors -> Nat] /\ size \in [Inodes -> Nat]
      /\ hand \in [Sensors -> Records \union {NoRecord}]
      /\ path \in [Sensors -> Handles]
      /\ \A t \in Sensors : pc[t] \in Reading => fh[t] \in Inodes
      /\ \A i \in Inodes : base[i] = 0
      /\ NoFile \notin Inodes
  BY TailTypeStep, TailAssumption DEF GapInv, TypeInv, TailTypeOK
<1>2. UNCHANGED <<size, base>>
  BY DEF TailStep, TailFails, OpenPath, ReadRecord, ReadBlocked, ReadFragment,
         PutHand, CaughtUp, CheckRotation, DrainDone, OpenNext, disk
<1>3. SUFFICES PositionInv' /\ CheckpointInv'
  BY <1>1, <1>2 DEF GapInv
<1>4. CASE OpenPath(s)
  <2> DEFINE i == path[s]  p == ResumePos(s, i)
  <2>1. i \in Inodes
    BY <1>1, <1>4 DEF OpenPath, Handles
  <2>2. /\ p \in Nat /\ p <= size[i]
        /\ Upto(i, p) \subseteq Settled \union ResumeSkips(s, i)
    BY <2>1, ResumeStep
  <2>3. Settled \union ResumeSkips(s, i) \subseteq Settled'
    BY <1>4 DEF OpenPath, Settled
  <2>4. /\ fh'[s] = i /\ pos'[s] = p
        /\ \A t \in Sensors \ {s} :
              fh'[t] = fh[t] /\ pos'[t] = pos[t] /\ hand'[t] = hand[t]
    BY <1>1, <1>4 DEF OpenPath
  <2>5. PositionInv'
    BY <1>2, <2>2, <2>3, <2>4, MoveStep
  <2>6. CheckpointInv'
    BY <1>2, <1>4, <2>1, <2>2, <2>3, SaveStep DEF OpenPath
  <2> QED
    BY <2>5, <2>6
<1>5. CASE ReadRecord(s)
  <2> DEFINE r == LineAt(fh[s], pos[s])
  <2>1. /\ fh[s] \in Inodes /\ pos'[s] \in Nat /\ pos'[s] <= size[fh[s]]
        /\ \A t \in Sensors \ {s} : pos'[t] = pos[t]
        /\ Upto(fh[s], pos'[s]) \subseteq Settled \union {r}
    BY <1>5, AdvanceFacts DEF ReadRecord
  <2>2. UNCHANGED <<fh, hand>> /\ Settled \union {r} \subseteq Settled'
    BY <1>5 DEF ReadRecord, Put, Settled
  <2>3. PositionInv'
    BY <1>2, <2>1, <2>2, MoveStep
  <2>4. CheckpointInv'
    BY <1>2, <1>5, <2>1, <2>2, LineDoneStep DEF ReadRecord
  <2> QED
    BY <2>3, <2>4
<1>6. CASE ReadBlocked(s)
  <2> DEFINE r == LineAt(fh[s], pos[s])
  <2>1. /\ fh[s] \in Inodes /\ pos'[s] <= size[fh[s]]
        /\ \A t \in Sensors \ {s} : pos'[t] = pos[t]
        /\ Upto(fh[s], pos'[s]) \subseteq Settled \union {r}
    BY <1>6, AdvanceFacts DEF ReadBlocked
  <2>2. UNCHANGED <<fh, ckpt, enqueued, skipped, torn>>
    BY <1>6 DEF ReadBlocked, history
  <2>3. hand'[s] = r /\ \A t \in Sensors \ {s} : hand'[t] = hand[t]
    BY <1>1, <1>6 DEF ReadBlocked
  <2>4. Settled' = Settled
    BY <2>2 DEF Settled
  <2>5. PositionInv'
    BY <1>2, <2>1, <2>2, <2>3, <2>4, MoveStep
  <2>6. CheckpointInv'
    BY <1>2, <2>2, <2>4, KeepStep
  <2> QED
    BY <2>5, <2>6
<1>7. CASE ReadFragment(s)
  <2> DEFINE r == LineAt(fh[s], pos[s])
  <2>1. /\ fh[s] \in Inodes /\ pos'[s] \in Nat /\ pos'[s] <= size[fh[s]]
        /\ \A t \in Sensors \ {s} : pos'[t] = pos[t]
        /\ Upto(fh[s], pos'[s]) \subseteq Settled \union {r}
    BY <1>7, AdvanceFacts DEF ReadFragment
  <2>2. UNCHANGED <<fh, hand>> /\ Settled \union {r} \subseteq Settled'
    BY <1>7 DEF ReadFragment, Settled
  <2>3. PositionInv'
    BY <1>2, <2>1, <2>2, MoveStep
  <2>4. CheckpointInv'
    BY <1>2, <1>7, <2>1, <2>2, LineDoneStep DEF ReadFragment
  <2> QED
    BY <2>3, <2>4
<1>8. CASE PutHand(s)
  <2>1. fh[s] \in Inodes
    BY <1>1, <1>8 DEF PutHand, Reading
  <2>2. UNCHANGED <<fh, pos>> /\ Settled \union {hand[s]} \subseteq Settled'
    BY <1>8 DEF PutHand, Put, Settled
  <2>3. /\ pos[s] \in Nat /\ pos[s] <= size[fh[s]]
        /\ Upto(fh[s], pos[s]) \subseteq Settled'
    BY <1>1, <2>1, <2>2 DEF GapInv, PositionInv
  <2>4. \A t \in Sensors \ {s} : hand'[t] = hand[t]
    BY <1>1, <1>8 DEF PutHand
  <2>5. PositionInv'
    BY <1>2, <2>2, <2>3, <2>4, MoveStep
  <2>6. CheckpointInv'
    BY <1>2, <1>8, <2>1, <2>2, <2>3, LineDoneStep DEF PutHand
  <2> QED
    BY <2>5, <2>6
<1>9. CASE CaughtUp(s)
  <2>1. UNCHANGED <<fh, pos, hand, enqueued, skipped, torn>>
    BY <1>9 DEF CaughtUp, history
  <2>2. Settled' = Settled
    BY <2>1 DEF Settled
  <2>3. PositionInv'
    BY <1>2, <2>1, <2>2 DEF GapInv, PositionInv, Upto, Whole
  <2>4. fh[s] \in Inodes /\ hand[s] = NoRecord /\ NoRecord \notin Records
    BY <1>1, <1>9, TailAssumption DEF CaughtUp, Reading, Blocked, TypeInv, Records
  <2>5. /\ pos[s] \in Nat /\ pos[s] <= size[fh[s]]
        /\ Upto(fh[s], pos[s]) \subseteq Settled \union {NoRecord}
    BY <1>1, <2>4 DEF GapInv, PositionInv
  <2>6. Upto(fh[s], pos[s]) \subseteq Records
    BY <1>1, <2>4, <2>5, UptoRecords
  <2>7. CheckpointInv'
    BY <1>2, <1>9, <2>1, <2>2, <2>4, <2>5, <2>6, SaveStep, KeepStep DEF CaughtUp
  <2> QED
    BY <2>3, <2>7
<1>10. CASE CheckRotation(s)
  <2>1. UNCHANGED <<fh, pos, hand, ckpt, enqueued, skipped, torn>>
    BY <1>10 DEF CheckRotation, history
  <2> QED
    BY <1>2, <2>1 DEF GapInv, PositionInv, CheckpointInv, Settled, Upto, Whole
<1>11. CASE DrainDone(s) \/ TailFails(s)
  <2>1. UNCHANGED <<pos, hand, ckpt, enqueued, skipped, torn>>
    BY <1>11 DEF DrainDone, TailFails, history
  <2>2. Settled' = Settled
    BY <2>1 DEF Settled
  <2>3. fh'[s] = NoFile /\ \A t \in Sensors \ {s} : fh'[t] = fh[t]
    BY <1>1, <1>11 DEF DrainDone, TailFails
  <2>4. PositionInv'
    BY <1>1, <1>2, <2>1, <2>2, <2>3, MoveStep
  <2>5. CheckpointInv'
    BY <1>2, <2>1, <2>2, KeepStep
  <2> QED
    BY <2>4, <2>5
<1>12. CASE OpenNext(s)
  <2>1. path[s] \in Inodes
    BY <1>1, <1>12 DEF OpenNext, Handles
  <2>2. UNCHANGED <<hand, enqueued, skipped, torn>>
    BY <1>12 DEF OpenNext, history
  <2>3. Settled' = Settled
    BY <2>2 DEF Settled
  <2>4. /\ fh'[s] = path[s] /\ pos'[s] = 0
        /\ \A t \in Sensors \ {s} : fh'[t] = fh[t] /\ pos'[t] = pos[t]
    BY <1>1, <1>12 DEF OpenNext
  <2>5. Upto(path[s], 0) = {} /\ 0 <= size[path[s]]
    BY <1>1, <2>1, LineCounts DEF Upto
  <2>6. PositionInv'
    BY <1>2, <2>2, <2>3, <2>4, <2>5, MoveStep
  <2>7. CheckpointInv'
    BY <1>2, <1>12, <2>1, <2>3, <2>5, SaveStep DEF OpenNext
  <2> QED
    BY <2>6, <2>7
<1> QED
  BY <1>4, <1>5, <1>6, <1>7, <1>8, <1>9, <1>10, <1>11, <1>12 DEF TailStep

LEMMA GapStep ==
    ASSUME InodeReuse = FALSE
    PROVE  GapInv /\ [TailNext]_tailVars => GapInv'
<1> SUFFICES ASSUME GapInv, [TailNext]_tailVars PROVE GapInv'
  OBVIOUS
<1>1. CASE \E s \in Sensors : WorldStep(s) \/ TailStep(s) \/ TailFails(s)
  BY <1>1, WorldGapStep, TailGapStep
<1>2. SUFFICES ASSUME ~ \E s \in Sensors : WorldStep(s) \/ TailStep(s) \/ TailFails(s)
               PROVE  GapInv'
  BY <1>1
<1>3. TypeInv'
  BY TypeStep DEF GapInv
<1>4. UNCHANGED <<size, base, ckpt, enqueued, skipped, torn>>
  BY <1>2 DEF TailNext, Compress, StartTails, Die, StopTails, Take, tailVars,
              disk, history
<1>5. UNCHANGED <<fh, pos, hand>> \/ \A s \in Sensors : fh'[s] = NoFile
  BY <1>2 DEF TailNext, Compress, StartTails, Die, StopTails, Take, tailVars, reader
<1>6. NoFile \notin Inodes
  BY TailAssumption
<1>7. PositionInv'
  BY <1>4, <1>5, <1>6 DEF GapInv, PositionInv, Settled, Upto, Whole
<1>8. CheckpointInv'
  BY <1>4 DEF GapInv, CheckpointInv, Settled, Upto, Whole
<1> QED
  BY <1>3, <1>4, <1>7, <1>8 DEF GapInv

\* With fresh inode numbers, reading never jumps over a record, through any
\* number of rotations, failures, restarts and failed checkpoint writes.
THEOREM NothingPassedOver ==
    ASSUME InodeReuse = FALSE
    PROVE  TailSpec => []NoGap
<1>1. TailInit => GapInv
  BY GapInit
<1>2. GapInv /\ [TailNext]_tailVars => GapInv'
  BY GapStep
<1> QED
  BY <1>1, <1>2, GapInvImplies, PTL DEF TailSpec

\* No checkpoint vouches for a record the consumers have not been given,
\* wherever the process dies and whichever checkpoint write fails.
THEOREM CheckpointsHold ==
    ASSUME InodeReuse = FALSE
    PROVE  TailSpec => []CheckpointCovered
<1>1. TailInit => GapInv
  BY GapInit
<1>2. GapInv /\ [TailNext]_tailVars => GapInv'
  BY GapStep
<1> QED
  BY <1>1, <1>2, GapInvImplies, PTL DEF TailSpec

-----------------------------------------------------------------------------
(* The tails: whose file is whose *)

\* The file at a sensor's path is no other sensor's: neither at its path, nor
\* open in its tail or its writer.
OwnInv ==
    \A s, t \in Sensors :
        s # t /\ path[s] # NoFile => path[s] \notin {path[t], fh[t], wfd[t]}

\* A new file is nobody's yet.
LEMMA CreateOwns ==
    ASSUME TypeInv, OwnInv, NEW s \in Sensors, NEW i \in Inodes, CreateAt(s, i),
           UNCHANGED fh,
           wfd' = wfd \/ wfd' = [wfd EXCEPT ![s] = i]
    PROVE  OwnInv'
<1>1. \A t \in Sensors : i \notin {path[t], fh[t], wfd[t]}
  BY DEF CreateAt, Free, Linked, Open
<1>2. path'[s] = i /\ \A t \in Sensors \ {s} : path'[t] = path[t]
  BY DEF CreateAt, TypeInv, TailTypeOK
<1>3. \A t \in Sensors \ {s} : wfd'[t] = wfd[t]
  BY DEF TypeInv, TailTypeOK
<1>4. wfd'[s] = wfd[s] \/ wfd'[s] = i
  BY DEF TypeInv, TailTypeOK
<1> SUFFICES ASSUME NEW u \in Sensors, NEW t \in Sensors, u # t, path'[u] # NoFile
             PROVE  path'[u] \notin {path'[t], fh[t], wfd'[t]}
  BY DEF OwnInv
<1>5. CASE u = s
  BY <1>1, <1>2, <1>3, <1>5
<1>6. CASE t = s
  BY <1>1, <1>2, <1>4, <1>6 DEF OwnInv
<1>7. CASE u # s /\ t # s
  BY <1>2, <1>3, <1>7 DEF OwnInv
<1> QED
  BY <1>5, <1>6, <1>7

LEMMA OwnInit == TailInit => OwnInv
  BY TailAssumption DEF TailInit, OwnInv

LEMMA OwnStep ==
    ASSUME TypeInv, OwnInv, [TailNext]_tailVars
    PROVE  OwnInv'
<1>1. /\ path \in [Sensors -> Handles] /\ wfd \in [Sensors -> Handles]
      /\ fh \in [Sensors -> Handles]
  BY DEF TypeInv, TailTypeOK
<1>2. ASSUME NEW s \in Sensors, WorldStep(s)
      PROVE  OwnInv'
  <2>1. UNCHANGED fh
    BY <1>2 DEF WorldStep, WriteLine, WritePart, WriteRest, CronMove, CronTouch,
                WriterReopen, SelfMove, SelfReopen, reader
  <2>2. CASE WriteLine(s) \/ WritePart(s) \/ WriteRest(s)
    BY <2>1, <2>2 DEF OwnInv, WriteLine, WritePart, WriteRest
  <2>3. CASE CronMove(s)
    BY <1>1, <2>1, <2>3 DEF OwnInv, CronMove
  <2>4. CASE CronTouch(s)
    BY <2>1, <2>4, CreateOwns DEF CronTouch
  <2>5. CASE WriterReopen(s)
    <3>1. CASE path[s] = NoFile
      BY <2>1, <2>5, <3>1, CreateOwns DEF WriterReopen
    <3>2. CASE path[s] # NoFile
      <4>1. UNCHANGED path /\ wfd' = [wfd EXCEPT ![s] = path[s]]
        BY <2>5, <3>2 DEF WriterReopen
      <4> QED
        BY <1>1, <2>1, <4>1 DEF OwnInv
    <3> QED
      BY <3>1, <3>2
  <2>6. CASE SelfMove(s)
    BY <1>1, <2>1, <2>6 DEF OwnInv, SelfMove
  <2>7. CASE SelfReopen(s)
    BY <2>1, <2>7, CreateOwns DEF SelfReopen
  <2> QED
    BY <1>2, <2>2, <2>3, <2>4, <2>5, <2>6, <2>7 DEF WorldStep
<1>3. ASSUME NEW s \in Sensors, TailStep(s) \/ TailFails(s)
      PROVE  OwnInv'
  <2>1. UNCHANGED <<path, wfd>>
    BY <1>3 DEF TailStep, TailFails, OpenPath, ReadRecord, ReadBlocked,
                ReadFragment, PutHand, CaughtUp, CheckRotation, DrainDone,
                OpenNext, disk
  <2>2. fh' = fh \/ fh' = [fh EXCEPT ![s] = path[s]] \/ fh' = [fh EXCEPT ![s] = NoFile]
    BY <1>3 DEF TailStep, TailFails, OpenPath, ReadRecord, ReadBlocked,
                ReadFragment, PutHand, CaughtUp, CheckRotation, DrainDone, OpenNext
  <2> QED
    BY <1>1, <2>1, <2>2 DEF OwnInv
<1>4. CASE Compress \/ (StartTails /\ UNCHANGED queue) \/ Take \/ UNCHANGED tailVars
  BY <1>4 DEF Compress, StartTails, Take, tailVars, disk, reader, OwnInv
<1>5. CASE Die
  BY <1>5 DEF Die, StopTails, disk, OwnInv
<1> QED
  BY <1>2, <1>3, <1>4, <1>5 DEF TailNext

-----------------------------------------------------------------------------
(* The tails: a rotated file is emptied before it is closed *)

\* The inductive invariant.  Half a line stands only where a writer is still at
\* work, and only a file that has been moved away, which is never an empty one,
\* is drained; so a file that its sensor has let go of ends in a whole line,
\* and no path and no writer ever has that file again.
DrainInv ==
    /\ GapInv
    /\ OwnInv
    /\ \A s \in SelfRotating : wfd[s] = path[s]
    /\ \A i \in Inodes : size[i] % 2 = 1 => \E s \in Sensors : wfd[s] = i
    /\ \A s \in Sensors : fh[s] \notin {NoFile, path[s]} => size[fh[s]] > 0
    /\ \A s \in Sensors : pc[s] \in {"drain", "dput"} => fh[s] # path[s]
    /\ \A d \in drained :
          d[3] => /\ size[d[1]] > 0
                  /\ \A s \in Sensors : d[1] \notin {path[s], wfd[s]}
                  /\ Upto(d[1], size[d[1]]) \subseteq Settled

LEMMA DrainInvImplies == DrainInv => DrainedFully
<1> SUFFICES ASSUME DrainInv, NEW d \in drained, d[3]
             PROVE  RecordsBelow(d[1], size[d[1]] + 1) \subseteq Settled
  BY DEF DrainedFully, Emptied
<1> DEFINE i == d[1]
<1>1. i \in Inodes /\ size[i] \in Nat /\ base[i] = 0
  BY DEF DrainInv, GapInv, TypeInv, TailTypeOK
<1>2. size[i] % 2 # 1
  BY <1>1 DEF DrainInv
<1>3. Whole(size[i] + 1) = Whole(size[i])
  BY <1>1, <1>2 DEF Whole
<1>4. RecordsBelow(i, size[i] + 1) \subseteq Upto(i, size[i] + 1)
  BY <1>1, BelowIsUpto
<1> QED
  BY <1>3, <1>4 DEF Upto, DrainInv

LEMMA DrainInit == TailInit => DrainInv
  BY GapInit, OwnInit, TailAssumption DEF DrainInv, TailInit

\* A new file is empty, and no file has been drained under its name.
LEMMA CreateDrains ==
    ASSUME DrainInv, InodeReuse = FALSE, NEW s \in Sensors, NEW i \in Inodes,
           CreateAt(s, i), path[s] = NoFile,
           UNCHANGED <<pc, fh, enqueued, skipped, torn, drained>>,
           \/ wfd' = wfd /\ s \notin SelfRotating
           \/ /\ wfd' = [wfd EXCEPT ![s] = i]
              /\ wfd[s] # NoFile => size[wfd[s]] % 2 = 0,
           GapInv', OwnInv'
    PROVE  DrainInv'
<1>1. /\ path \in [Sensors -> Handles] /\ wfd \in [Sensors -> Handles]
      /\ fh \in [Sensors -> Handles] /\ size \in [Inodes -> Nat]
      /\ NoFile \notin Inodes /\ SelfRotating \subseteq Sensors
  BY TailAssumption DEF DrainInv, GapInv, TypeInv, TailTypeOK
<1>2. /\ size[i] = 0 /\ \A t \in Sensors : i \notin {path[t], fh[t], wfd[t]}
  BY DEF CreateAt, Free, Linked, Open
<1>3. size' = size
  BY <1>1, <1>2 DEF CreateAt
<1>4. path'[s] = i /\ \A t \in Sensors \ {s} : path'[t] = path[t]
  BY <1>1 DEF CreateAt
<1>5. /\ \A t \in Sensors \ {s} : wfd'[t] = wfd[t]
      /\ wfd'[s] \in {wfd[s], i}
      /\ s \in SelfRotating => wfd'[s] = i
      /\ wfd'[s] # wfd[s] /\ wfd[s] # NoFile => size[wfd[s]] % 2 = 0
  BY <1>1
<1>6. \A t \in SelfRotating : wfd'[t] = path'[t]
  BY <1>1, <1>4, <1>5 DEF DrainInv
<1>7. ASSUME NEW j \in Inodes, size[j] % 2 = 1 PROVE \E t \in Sensors : wfd'[t] = j
  <2>1. PICK t \in Sensors : wfd[t] = j
    BY <1>7 DEF DrainInv
  <2>2. wfd'[t] = wfd[t]
    BY <1>1, <1>5, <1>7, <2>1
  <2> QED
    BY <2>1, <2>2
<1>8. \A t \in Sensors : fh[t] \notin {NoFile, path'[t]} => size[fh[t]] > 0
  BY <1>1, <1>4 DEF DrainInv
<1>9. \A t \in Sensors : pc[t] \in {"drain", "dput"} => fh[t] # path'[t]
  BY <1>2, <1>4 DEF DrainInv
<1>10. ASSUME NEW d \in drained, d[3]
       PROVE  /\ size[d[1]] > 0
              /\ \A t \in Sensors : d[1] \notin {path'[t], wfd'[t]}
              /\ Upto(d[1], size[d[1]]) \subseteq Settled
  BY <1>2, <1>4, <1>5, <1>10 DEF DrainInv
<1>11. Settled' = Settled
  BY DEF Settled
<1> QED
  BY <1>3, <1>6, <1>7, <1>8, <1>9, <1>10, <1>11 DEF DrainInv, Upto, Whole

\* What a sensor writes goes to a file its writer holds, so to none that is
\* closed for good.
LEMMA WriteDrains ==
    ASSUME DrainInv, NEW s \in Sensors,
           WriteLine(s) \/ WritePart(s) \/ WriteRest(s), GapInv', OwnInv'
    PROVE  DrainInv'
<1> DEFINE i == wfd[s]
<1>1. i \in Inodes /\ size \in [Inodes -> Nat]
  BY TailAssumption DEF DrainInv, GapInv, TypeInv, TailTypeOK, WriteLine, WritePart,
     WriteRest, CanWrite, Handles
<1>2. UNCHANGED <<path, wfd, pc, fh, enqueued, skipped, torn, drained>>
  BY DEF WriteLine, WritePart, WriteRest, reader, history
<1>3. /\ size'[i] > 0
      /\ \A j \in Inodes \ {i} : size'[j] = size[j]
  BY <1>1 DEF WriteLine, WritePart, WriteRest
<1>4. \A j \in Inodes : size'[j] % 2 = 1 => \E t \in Sensors : wfd[t] = j
  BY <1>3 DEF DrainInv
<1>5. ASSUME NEW t \in Sensors, fh[t] \notin {NoFile, path[t]}
      PROVE  size'[fh[t]] > 0
  <2>1. fh[t] \in Inodes
    BY <1>5 DEF DrainInv, GapInv, TypeInv, TailTypeOK, Handles
  <2>2. size[fh[t]] > 0
    BY <1>5 DEF DrainInv
  <2> QED
    BY <1>3, <2>1, <2>2
<1>6. \A d \in drained : d[1] \in Inodes
  BY DEF DrainInv, GapInv, TypeInv, TailTypeOK
<1>7. ASSUME NEW d \in drained, d[3]
      PROVE  /\ size'[d[1]] > 0
             /\ \A t \in Sensors : d[1] \notin {path[t], wfd[t]}
             /\ Upto(d[1], size'[d[1]]) \subseteq Settled
  BY <1>3, <1>6, <1>7 DEF DrainInv
<1>8. Settled' = Settled
  BY <1>2 DEF Settled
<1> QED
  BY <1>2, <1>4, <1>5, <1>7, <1>8 DEF DrainInv, Upto, Whole

LEMMA WorldDrainStep ==
    ASSUME DrainInv, InodeReuse = FALSE, NEW s \in Sensors, WorldStep(s),
           GapInv', OwnInv'
    PROVE  DrainInv'
<1>1. /\ path \in [Sensors -> Handles] /\ wfd \in [Sensors -> Handles]
      /\ fh \in [Sensors -> Handles] /\ size \in [Inodes -> Nat]
      /\ NoFile \notin Inodes /\ SelfRotating \subseteq Sensors
  BY TailAssumption DEF DrainInv, GapInv, TypeInv, TailTypeOK
<1>2. UNCHANGED <<pc, fh, enqueued, skipped, torn, drained>>
  BY DEF WorldStep, WriteLine, WritePart, WriteRest, CronMove, CronTouch,
         WriterReopen, SelfMove, SelfReopen, reader, history
<1>3. Settled' = Settled
  BY <1>2 DEF Settled
<1>4. CASE WriteLine(s) \/ WritePart(s) \/ WriteRest(s)
  BY <1>4, WriteDrains
<1>5. CASE CronMove(s)
  <2>1. /\ UNCHANGED <<wfd, size>> /\ s \notin SelfRotating
        /\ path[s] # NoFile /\ size[path[s]] > 0
        /\ path'[s] = NoFile /\ \A t \in Sensors \ {s} : path'[t] = path[t]
    BY <1>1, <1>5 DEF CronMove
  <2>2. \A d \in drained : d[1] \in Inodes
    BY DEF DrainInv, GapInv, TypeInv, TailTypeOK
  <2>3. \A t \in Sensors : fh[t] \notin {NoFile, path'[t]} => size[fh[t]] > 0
    BY <2>1 DEF DrainInv
  <2>4. \A t \in Sensors : pc[t] \in {"drain", "dput"} => fh[t] # path'[t]
    BY <1>1, <2>1 DEF DrainInv, GapInv, TypeInv, Reading
  <2>5. \A d \in drained : d[3] => \A t \in Sensors : d[1] \notin {path'[t], wfd[t]}
    BY <1>1, <2>1, <2>2 DEF DrainInv
  <2> QED
    BY <1>1, <1>2, <1>3, <2>1, <2>3, <2>4, <2>5 DEF DrainInv, Upto, Whole
<1>6. CASE CronTouch(s)
  BY <1>2, <1>6, CreateDrains DEF CronTouch
<1>7. CASE WriterReopen(s) /\ path[s] = NoFile
  BY <1>2, <1>7, CreateDrains DEF WriterReopen
<1>8. CASE WriterReopen(s) /\ path[s] # NoFile
  <2>1. /\ UNCHANGED <<path, size>> /\ s \notin SelfRotating
        /\ wfd[s] # NoFile => size[wfd[s]] % 2 = 0
        /\ wfd'[s] = path[s] /\ \A t \in Sensors \ {s} : wfd'[t] = wfd[t]
    BY <1>1, <1>8 DEF WriterReopen
  <2>2. ASSUME NEW j \in Inodes, size[j] % 2 = 1 PROVE \E t \in Sensors : wfd'[t] = j
    <3>1. PICK t \in Sensors : wfd[t] = j
      BY <2>2 DEF DrainInv
    <3>2. t # s
      BY <1>1, <2>1, <2>2, <3>1
    <3> QED
      BY <2>1, <3>1, <3>2
  <2>3. \A d \in drained : d[3] => \A t \in Sensors : d[1] \notin {path[t], wfd'[t]}
    BY <2>1 DEF DrainInv
  <2>4. \A t \in SelfRotating : wfd'[t] = path[t]
    BY <1>1, <2>1 DEF DrainInv
  <2> QED
    BY <1>2, <1>3, <2>1, <2>2, <2>3, <2>4 DEF DrainInv, Upto, Whole
<1>9. CASE SelfMove(s)
  <2>1. /\ UNCHANGED size /\ s \in SelfRotating
        /\ path[s] # NoFile /\ size[path[s]] > 0 /\ size[path[s]] % 2 = 0
        /\ path'[s] = NoFile /\ \A t \in Sensors \ {s} : path'[t] = path[t]
        /\ wfd'[s] = NoFile /\ \A t \in Sensors \ {s} : wfd'[t] = wfd[t]
    BY <1>1, <1>9 DEF SelfMove
  <2>2. \A d \in drained : d[1] \in Inodes
    BY DEF DrainInv, GapInv, TypeInv, TailTypeOK
  <2>3. \A t \in Sensors : fh[t] \notin {NoFile, path'[t]} => size[fh[t]] > 0
    BY <2>1 DEF DrainInv
  <2>4. \A t \in Sensors : pc[t] \in {"drain", "dput"} => fh[t] # path'[t]
    BY <1>1, <2>1 DEF DrainInv, GapInv, TypeInv, Reading
  <2>5. \A d \in drained : d[3] => \A t \in Sensors : d[1] \notin {path'[t], wfd'[t]}
    BY <1>1, <2>1, <2>2 DEF DrainInv
  <2>6. ASSUME NEW j \in Inodes, size[j] % 2 = 1 PROVE \E t \in Sensors : wfd'[t] = j
    <3>1. PICK t \in Sensors : wfd[t] = j
      BY <2>6 DEF DrainInv
    <3>2. t # s
      BY <1>1, <2>1, <2>6, <3>1 DEF DrainInv
    <3> QED
      BY <2>1, <3>1, <3>2
  <2>7. \A t \in SelfRotating : wfd'[t] = path'[t]
    BY <1>1, <2>1 DEF DrainInv
  <2> QED
    BY <1>2, <1>3, <2>1, <2>3, <2>4, <2>5, <2>6, <2>7 DEF DrainInv, Upto, Whole
<1>10. CASE SelfReopen(s)
  BY <1>1, <1>2, <1>10, CreateDrains DEF SelfReopen, DrainInv
<1> QED
  BY <1>4, <1>5, <1>6, <1>7, <1>8, <1>9, <1>10 DEF WorldStep

\* A tail opens only its own path, turns to draining only when that path names
\* another file, and closes the drained file at its end.
LEMMA TailDrainStep ==
    ASSUME DrainInv, NEW s \in Sensors, TailStep(s) \/ TailFails(s),
           GapInv', OwnInv'
    PROVE  DrainInv'
<1>1. /\ pc \in [Sensors -> States] /\ fh \in [Sensors -> Handles]
      /\ pos \in [Sensors -> Nat] /\ size \in [Inodes -> Nat]
      /\ NoFile \notin Inodes /\ SelfRotating \subseteq Sensors
  BY TailAssumption DEF DrainInv, GapInv, TypeInv, TailTypeOK
<1>2. UNCHANGED disk
  BY DEF TailStep, TailFails, OpenPath, ReadRecord, ReadBlocked, ReadFragment,
         PutHand, CaughtUp, CheckRotation, DrainDone, OpenNext
<1>3. Settled \subseteq Settled'
  BY DEF TailStep, TailFails, OpenPath, ReadRecord, ReadBlocked, ReadFragment,
         PutHand, CaughtUp, CheckRotation, DrainDone, OpenNext, Put, Settled, history
<1>4. \A t \in Sensors \ {s} : fh'[t] = fh[t] /\ pc'[t] = pc[t]
  BY <1>1 DEF TailStep, TailFails, OpenPath, ReadRecord, ReadBlocked, ReadFragment,
         PutHand, CaughtUp, CheckRotation, DrainDone, OpenNext
<1>5. fh'[s] \in {fh[s], path[s], NoFile}
  BY <1>1 DEF TailStep, TailFails, OpenPath, ReadRecord, ReadBlocked, ReadFragment,
         PutHand, CaughtUp, CheckRotation, DrainDone, OpenNext
<1>6. \A t \in Sensors : fh'[t] \notin {NoFile, path[t]} => size[fh'[t]] > 0
  BY <1>4, <1>5 DEF DrainInv
<1>7. pc'[s] \in {"drain", "dput"} => fh'[s] # path[s]
  <2>1. pc[s] \in {"drain", "dput"} => fh[s] # path[s]
    BY DEF DrainInv
  <2>2. CASE ReadRecord(s) \/ ReadBlocked(s) \/ ReadFragment(s) \/ PutHand(s)
    <3>1. UNCHANGED fh /\ (pc'[s] \in {"drain", "dput"} => pc[s] \in {"drain", "dput"})
      BY <1>1, <2>2 DEF ReadRecord, ReadBlocked, ReadFragment, PutHand, AtLine
    <3> QED
      BY <2>1, <3>1
  <2>3. CASE CheckRotation(s)
    BY <1>1, <2>3 DEF CheckRotation
  <2>4. CASE \/ OpenPath(s) \/ CaughtUp(s) \/ DrainDone(s) \/ OpenNext(s) \/ TailFails(s)
    BY <1>1, <2>4 DEF OpenPath, CaughtUp, DrainDone, OpenNext, TailFails
  <2> QED
    BY <2>2, <2>3, <2>4 DEF TailStep
<1>8. ASSUME NEW d \in drained', d[3]
      PROVE  /\ size[d[1]] > 0
             /\ \A t \in Sensors : d[1] \notin {path[t], wfd[t]}
             /\ Upto(d[1], size[d[1]]) \subseteq Settled'
  <2>1. CASE d \in drained
    BY <1>3, <1>8, <2>1 DEF DrainInv
  <2>2. CASE d \notin drained
    <3> DEFINE i == fh[s]
    <3>1. DrainDone(s)
      BY <2>2 DEF TailStep, TailFails, OpenPath, ReadRecord, ReadBlocked,
         ReadFragment, PutHand, CaughtUp, CheckRotation, DrainDone, OpenNext, history
    <3>2. d = Gone(i)
      BY <2>2, <3>1 DEF DrainDone
    <3>3. d[1] = i /\ \A t \in Sensors : wfd[t] # i
      BY <1>8, <3>2 DEF Gone
    <3>4. /\ i \in Inodes /\ pos[s] >= size[i] /\ pos[s] <= size[i]
          /\ hand[s] = NoRecord /\ path[s] # i
          /\ Upto(i, pos[s]) \subseteq Settled \union {hand[s]}
      BY <3>1 DEF DrainInv, GapInv, TypeInv, PositionInv, DrainDone, Reading, Blocked
    <3>5. pos[s] = size[i] /\ base[i] = 0
      BY <1>1, <3>4 DEF DrainInv, GapInv
    <3>6. Upto(i, size[i]) \subseteq Records /\ NoRecord \notin Records
      BY <1>1, <3>4, <3>5, UptoRecords, TailAssumption DEF DrainInv, GapInv, Records
    <3>7. Upto(i, size[i]) \subseteq Settled
      BY <3>4, <3>5, <3>6
    <3>8. \A t \in Sensors : path[t] # i
      BY <1>1, <3>4 DEF DrainInv, OwnInv
    <3>9. size[i] > 0
      BY <1>1, <3>4 DEF DrainInv
    <3> QED
      BY <1>3, <3>3, <3>7, <3>8, <3>9
  <2> QED
    BY <2>1, <2>2
<1> QED
  BY <1>2, <1>4, <1>6, <1>7, <1>8 DEF DrainInv, disk, Upto, Whole

LEMMA DrainStep ==
    ASSUME InodeReuse = FALSE
    PROVE  DrainInv /\ [TailNext]_tailVars => DrainInv'
<1> SUFFICES ASSUME DrainInv, [TailNext]_tailVars PROVE DrainInv'
  OBVIOUS
<1>1. GapInv' /\ OwnInv'
  BY GapStep, OwnStep DEF DrainInv, GapInv
<1>2. CASE \E s \in Sensors : WorldStep(s) \/ TailStep(s) \/ TailFails(s)
  BY <1>1, <1>2, WorldDrainStep, TailDrainStep
<1>3. CASE Compress \/ (StartTails /\ UNCHANGED queue) \/ Die \/ Take \/ UNCHANGED tailVars
  <2>1. UNCHANGED <<path, wfd, size, enqueued, skipped, torn, drained>>
    BY <1>3 DEF Compress, StartTails, Die, StopTails, Take, tailVars, disk, history
  <2>2. Settled' = Settled
    BY <2>1 DEF Settled
  <2>3. \A s \in Sensors : \/ pc'[s] = pc[s] /\ fh'[s] = fh[s]
                           \/ pc'[s] \notin {"drain", "dput"} /\ fh'[s] \in {fh[s], NoFile}
    BY <1>3 DEF Compress, StartTails, Die, StopTails, Take, tailVars, reader
  <2> QED
    BY <1>1, <2>1, <2>2, <2>3 DEF DrainInv, Upto, Whole
<1> QED
  BY <1>2, <1>3 DEF TailNext

\* Once a tail has moved on from a rotated file that its sensor had let go of,
\* every record of that file is settled: what rotate-logs.sh promises of a
\* rotation, with that condition on it.
THEOREM DrainsRotatedFiles ==
    ASSUME InodeReuse = FALSE
    PROVE  TailSpec => []DrainedFully
<1>1. TailInit => DrainInv
  BY DrainInit
<1>2. DrainInv /\ [TailNext]_tailVars => DrainInv'
  BY DrainStep
<1> QED
  BY <1>1, <1>2, DrainInvImplies, PTL DEF TailSpec

-----------------------------------------------------------------------------
(* The tails: how much a restart reads again, as long as checkpoint writes succeed *)

\* No line behind the n-th of the file at sensor s's path has been queued.
QueuedUpto(s, n) == \A r \in enqueued : r[1] = path[s] => r[2] <= base[path[s]] + n

\* Does sensor s's checkpoint stand in the file at its path?
InLiveLog(s) == ckpt[s].ino = path[s] /\ ckpt[s].off <= size[path[s]]

\* How far behind sensor s's read position its checkpoint is.
LagInv(s) ==
    /\ unsaved[s] < CheckpointEvery
    /\ pc[s] \in Reading => ckpt[s].ino = fh[s]
    /\ pc[s] \in {"read", "put", "idle"} =>
          /\ ckpt[s].off <= pos[s]
          /\ pos[s] <= size[fh[s]]
          /\ Whole(pos[s]) <= Whole(ckpt[s].off) + unsaved[s]
                                + (IF pc[s] = "put" THEN 1 ELSE 0)
    /\ pc[s] \in Blocked =>
          /\ hand[s] = <<fh[s], base[fh[s]] + Whole(pos[s])>>
          /\ Whole(pos[s]) <= Whole(size[fh[s]])
    /\ pc[s] \in {"drain", "dput"} => fh[s] # path[s]

\* What has been queued of the file at sensor s's path.
WindowInv(s) ==
    path[s] # NoFile =>
        QueuedUpto(s, IF InLiveLog(s) THEN Whole(ckpt[s].off) + CheckpointEvery - 1
                                      ELSE 0)

\* The inductive invariant.  The queue is only ever ahead of the checkpoint by
\* the lines counted since, and a file the checkpoint does not name, or that
\* is shorter than it says, has had no line queued yet.
ReplayInv ==
    /\ TypeInv
    /\ OwnInv
    /\ \A s \in Sensors : LagInv(s) /\ WindowInv(s)
    /\ \A s \in Sensors : pc[s] = "reopen" => QueuedUpto(s, 0)
    /\ \A r \in enqueued : r[2] <= base[r[1]] + Whole(size[r[1]])

\* The n lines after line k.
LEMMA LinesAfter ==
    ASSUME NEW k \in Nat, NEW n \in Nat \ {0}
    PROVE  /\ IsFiniteSet(k + 1 .. k + (n - 1))
           /\ Cardinality(k + 1 .. k + (n - 1)) = n - 1
<1>1. PICK a \in Int, b \in Int : a = k + 1 /\ b = k + (n - 1)
  OBVIOUS
<1>2. IsFiniteSet(a .. b) /\ Cardinality(a .. b) = IF a > b THEN 0 ELSE b - a + 1
  BY FS_Interval
<1>3. (IF a > b THEN 0 ELSE b - a + 1) = n - 1
  BY <1>1
<1> QED
  BY <1>1, <1>2, <1>3

LEMMA ReplayInvImplies == ReplayInv => ReplayBounded
<1> SUFFICES ASSUME ReplayInv, NEW s \in Sensors, path[s] = ckpt[s].ino
             PROVE  Cardinality(ReplayWindow(s)) < CheckpointEvery
  BY DEF ReplayBounded
<1> DEFINE i == path[s]
           k == base[i] + Whole(ckpt[s].off)
           W == ReplayWindow(s)
<1>1. /\ CheckpointEvery \in Nat /\ CheckpointEvery > 0 /\ NoFile \notin Inodes
      /\ i \in Handles /\ ckpt[s].off \in Nat
      /\ enqueued \subseteq Records
  BY TailAssumption DEF ReplayInv, TypeInv, TailTypeOK
<1>2. CASE i = NoFile
  <2>1. W = {}
    BY <1>1, <1>2 DEF ReplayWindow, Records
  <2> QED
    BY <1>1, <2>1, FS_EmptySet
<1>3. CASE i # NoFile
  <2>1. i \in Inodes /\ base[i] \in Nat /\ k \in Nat
    <3>1. i \in Inodes
      BY <1>1, <1>3 DEF Handles
    <3>2. base[i] \in Nat
      BY <3>1 DEF ReplayInv, TypeInv, TailTypeOK
    <3>3. Whole(ckpt[s].off) \in Nat
      BY <1>1, LineCounts
    <3> QED
      BY <3>1, <3>2, <3>3
  <2>2. \A r \in W : r[1] = i /\ r[2] \in Nat /\ r[2] > k /\ r = <<i, r[2]>>
    BY <1>1 DEF ReplayWindow, Records
  <2>3. \A r \in W : r[2] <= k + (CheckpointEvery - 1)
    <3>1. QueuedUpto(s, IF InLiveLog(s) THEN Whole(ckpt[s].off) + CheckpointEvery - 1
                                        ELSE 0)
      BY <1>3 DEF ReplayInv, WindowInv
    <3>2. Whole(ckpt[s].off) \in Nat
      BY <1>1, LineCounts
    <3> QED
      BY <1>1, <2>1, <2>2, <3>1, <3>2 DEF QueuedUpto, ReplayWindow
  <2> DEFINE L == k + 1 .. k + (CheckpointEvery - 1)
             f == [r \in W |-> r[2]]
  <2>4. f \in Injection(W, L)
    <3>1. \A r \in W : f[r] \in L
      BY <1>1, <2>1, <2>2, <2>3
    <3>2. f \in [W -> L]
      BY <3>1
    <3>3. ASSUME NEW a \in W, NEW b \in W, f[a] = f[b]
          PROVE  a = b
      <4>1. a = <<i, a[2]>> /\ b = <<i, b[2]>>
        BY <2>2
      <4>2. a[2] = b[2]
        BY <3>3
      <4> QED
        BY <4>1, <4>2
    <3> QED
      BY <3>2, <3>3 DEF Injection, IsInjective
  <2>5. IsFiniteSet(L) /\ Cardinality(L) = CheckpointEvery - 1
    BY <1>1, <2>1, LinesAfter
  <2>6. IsFiniteSet(W) /\ Cardinality(W) <= CheckpointEvery - 1
    <3> HIDE DEF W, L, f
    <3> QED
      BY <2>4, <2>5, FS_Injection
  <2>7. Cardinality(W) \in Nat
    BY <2>6, FS_CardinalityType
  <2> QED
    BY <1>1, <2>6, <2>7
<1> QED
  BY <1>2, <1>3

LEMMA ReplayInit == TailInit => ReplayInv
<1> SUFFICES ASSUME TailInit PROVE ReplayInv
  OBVIOUS
<1>1. \A s \in Sensors : unsaved[s] = 0 /\ pc[s] = "off" /\ CheckpointEvery > 0
  BY TailAssumption DEF TailInit
<1>2. enqueued = {}
  BY DEF TailInit
<1>3. \A s \in Sensors : LagInv(s) /\ WindowInv(s)
  BY <1>1, <1>2 DEF LagInv, WindowInv, QueuedUpto, Reading, Blocked
<1> QED
  BY <1>1, <1>2, <1>3, TypeInit, OwnInit DEF ReplayInv

\* What a step of sensors or rotation does to the files: they grow, or one that
\* nobody has is emptied and appears at a free path.
LEMMA WorldChanges ==
    ASSUME TypeInv, NEW s \in Sensors, WorldStep(s)
    PROVE  \/ /\ UNCHANGED base
              /\ \A j \in Inodes : size[j] <= size'[j]
              /\ \A t \in Sensors : path'[t] \in {path[t], NoFile}
           \/ path[s] = NoFile /\ \E i \in Inodes : CreateAt(s, i)
<1>1. /\ path \in [Sensors -> Handles] /\ size \in [Inodes -> Nat]
      /\ wfd \in [Sensors -> Handles] /\ NoFile \notin Inodes
  BY TailAssumption DEF TypeInv, TailTypeOK
<1>2. CASE WriteLine(s) \/ WritePart(s) \/ WriteRest(s)
  <2>1. wfd[s] \in Inodes /\ UNCHANGED <<path, base>>
    BY <1>1, <1>2 DEF WriteLine, WritePart, WriteRest, CanWrite, Handles
  <2> QED
    BY <1>1, <1>2, <2>1 DEF WriteLine, WritePart, WriteRest
<1>3. CASE CronMove(s) \/ SelfMove(s)
  BY <1>1, <1>3 DEF CronMove, SelfMove
<1>4. CASE CronTouch(s) \/ SelfReopen(s) \/ (WriterReopen(s) /\ path[s] = NoFile)
  BY <1>4 DEF CronTouch, SelfReopen, WriterReopen
<1>5. CASE WriterReopen(s) /\ path[s] # NoFile
  <2>1. UNCHANGED <<path, size, base>>
    BY <1>5 DEF WriterReopen
  <2> QED
    BY <1>1, <2>1
<1> QED
  BY <1>2, <1>3, <1>4, <1>5 DEF WorldStep

\* Longer files have more whole lines.
LEMMA WholeGrows ==
    ASSUME NEW p \in Nat, NEW h \in Nat, p <= h
    PROVE  Whole(p) <= Whole(h) /\ Whole(p) \in Nat /\ Whole(h) \in Nat
  BY DEF Whole

LEMMA WorldReplayStep ==
    ASSUME ReplayInv, NEW s \in Sensors, WorldStep(s), TypeInv', OwnInv'
    PROVE  ReplayInv'
<1>1. /\ UNCHANGED <<pc, fh, pos, hand, unsaved, ckpt, enqueued>>
      /\ TypeInv /\ NoFile \notin Inodes /\ CheckpointEvery \in Nat \ {0}
  BY TailAssumption DEF ReplayInv, WorldStep, WriteLine, WritePart, WriteRest, CronMove,
     CronTouch, WriterReopen, SelfMove, SelfReopen, reader, history
<1>2. /\ path \in [Sensors -> Handles] /\ fh \in [Sensors -> Handles]
      /\ size \in [Inodes -> Nat] /\ base \in [Inodes -> Nat]
      /\ size' \in [Inodes -> Nat] /\ path' \in [Sensors -> Handles]
      /\ pos \in [Sensors -> Nat] /\ enqueued \subseteq Records
      /\ ckpt \in [Sensors -> [ino : Handles, off : Nat]]
      /\ unsaved \in [Sensors -> Nat]
      /\ \A t \in Sensors : pc[t] \in Reading => fh[t] \in Inodes
  BY <1>1 DEF TypeInv, TailTypeOK
<1>3. \A r \in enqueued : r[1] \in Inodes /\ r[2] \in Nat
  BY <1>2, TailAssumption DEF Records
<1>4. \A t \in Sensors : Whole(ckpt[t].off) \in Nat
  BY <1>2, LineCounts
<1>5. CASE /\ UNCHANGED base
           /\ \A j \in Inodes : size[j] <= size'[j]
           /\ \A t \in Sensors : path'[t] \in {path[t], NoFile}
  <2>1. \A j \in Inodes : /\ Whole(size[j]) <= Whole(size'[j])
                          /\ Whole(size[j]) \in Nat /\ Whole(size'[j]) \in Nat
    BY <1>2, <1>5, WholeGrows
  <2>2. \A r \in enqueued : r[2] <= base[r[1]] + Whole(size'[r[1]])
    <3> SUFFICES ASSUME NEW r \in enqueued
                 PROVE  r[2] <= base[r[1]] + Whole(size'[r[1]])
      OBVIOUS
    <3>1. r[2] <= base[r[1]] + Whole(size[r[1]])
      BY DEF ReplayInv
    <3> QED
      BY <1>2, <1>3, <2>1, <3>1
  <2>3. ASSUME NEW t \in Sensors PROVE LagInv(t)'
    <3>1. LagInv(t)
      BY DEF ReplayInv
    <3>2. pc[t] \in Reading => /\ size[fh[t]] \in Nat /\ size'[fh[t]] \in Nat
                               /\ size[fh[t]] <= size'[fh[t]]
                               /\ Whole(pos[t]) \in Nat
                               /\ Whole(size[fh[t]]) <= Whole(size'[fh[t]])
                               /\ Whole(size[fh[t]]) \in Nat
                               /\ Whole(size'[fh[t]]) \in Nat
                               /\ fh[t] # NoFile
      BY <1>1, <1>2, <1>5, <2>1, LineCounts
    <3>3. unsaved[t] < CheckpointEvery /\ (pc[t] \in Reading => ckpt[t].ino = fh[t])
      BY <3>1 DEF LagInv
    <3>4. pc[t] \in {"read", "put", "idle"} =>
              /\ ckpt[t].off <= pos[t]
              /\ pos[t] <= size'[fh[t]]
              /\ Whole(pos[t]) <= Whole(ckpt[t].off) + unsaved[t]
                                    + (IF pc[t] = "put" THEN 1 ELSE 0)
      BY <1>2, <3>1, <3>2 DEF LagInv, Reading
    <3>5. pc[t] \in Blocked =>
              /\ hand[t] = <<fh[t], base[fh[t]] + Whole(pos[t])>>
              /\ Whole(pos[t]) <= Whole(size'[fh[t]])
      BY <3>1, <3>2 DEF LagInv, Reading, Blocked
    <3>6. pc[t] \in {"drain", "dput"} => fh[t] # path'[t]
      BY <1>5, <3>1, <3>2 DEF LagInv, Reading
    <3> QED
      BY <1>1, <1>5, <3>3, <3>4, <3>5, <3>6 DEF LagInv, Whole
  <2>4. ASSUME NEW t \in Sensors, NEW n, path'[t] # NoFile, QueuedUpto(t, n)
        PROVE  QueuedUpto(t, n)'
    BY <1>1, <1>5, <2>4 DEF QueuedUpto
  <2>5. ASSUME NEW t \in Sensors PROVE WindowInv(t)'
    <3> SUFFICES ASSUME path'[t] # NoFile
                 PROVE  QueuedUpto(t, IF InLiveLog(t) THEN Whole(ckpt[t].off) + CheckpointEvery - 1
                                                      ELSE 0)'
      BY DEF WindowInv
    <3>1. path'[t] = path[t] /\ path[t] \in Inodes
      BY <1>2, <1>5 DEF Handles
    <3>2. size[path[t]] <= size'[path[t]] /\ ckpt[t].off \in Nat /\ base[path[t]] \in Nat
          /\ size[path[t]] \in Nat /\ size'[path[t]] \in Nat
      BY <1>2, <1>5, <3>1
    <3>3. CASE InLiveLog(t)
      <4>1. InLiveLog(t)'
        BY <1>1, <3>1, <3>2, <3>3 DEF InLiveLog
      <4>2. QueuedUpto(t, Whole(ckpt[t].off) + CheckpointEvery - 1)
        BY <3>1, <3>3 DEF ReplayInv, WindowInv
      <4> QED
        BY <1>1, <2>4, <4>1, <4>2 DEF Whole
    <3>4. CASE ~ InLiveLog(t)
      <4>1. QueuedUpto(t, 0)
        BY <3>1, <3>4 DEF ReplayInv, WindowInv
      <4>2. \A r \in enqueued : r[1] = path[t] =>
                /\ r[2] <= base[path[t]] + 0
                /\ r[2] <= base[path[t]] + (Whole(ckpt[t].off) + CheckpointEvery - 1)
        BY <1>1, <1>3, <1>4, <3>2, <4>1 DEF QueuedUpto
      <4> QED
        BY <1>1, <1>5, <3>1, <4>2 DEF QueuedUpto, Whole
    <3> QED
      BY <3>3, <3>4
  <2>6. ASSUME NEW t \in Sensors, pc[t] = "reopen" PROVE QueuedUpto(t, 0)'
    <3>1. CASE path'[t] = NoFile
      BY <1>1, <1>3, <3>1 DEF QueuedUpto
    <3>2. CASE path'[t] # NoFile
      BY <2>4, <2>6, <3>2 DEF ReplayInv
    <3> QED
      BY <3>1, <3>2
  <2> QED
    BY <1>1, <1>5, <2>2, <2>3, <2>5, <2>6 DEF ReplayInv, Whole
<1>6. ASSUME path[s] = NoFile, NEW i \in Inodes, CreateAt(s, i)
      PROVE  ReplayInv'
  <2>1. \A t \in Sensors : path[t] # i /\ fh[t] # i
    BY <1>6 DEF CreateAt, Free, Linked, Open
  <2>2. /\ path'[s] = i /\ \A t \in Sensors \ {s} : path'[t] = path[t]
        /\ size'[i] = 0 /\ \A j \in Inodes \ {i} : size'[j] = size[j]
        /\ base'[i] = base[i] + Begun(size[i])
        /\ \A j \in Inodes \ {i} : base'[j] = base[j]
    BY <1>2, <1>6 DEF CreateAt
  <2>3. /\ base[i] \in Nat /\ Begun(size[i]) \in Nat /\ Whole(size[i]) \in Nat
        /\ Whole(size[i]) <= Begun(size[i]) /\ Whole(0) = 0
    BY <1>2, LineCounts
  <2>4. \A r \in enqueued : r[1] = i => r[2] <= base'[i]
    <3> SUFFICES ASSUME NEW r \in enqueued, r[1] = i PROVE r[2] <= base'[i]
      OBVIOUS
    <3>1. r[2] <= base[i] + Whole(size[i])
      BY DEF ReplayInv
    <3> QED
      BY <1>3, <2>2, <2>3, <3>1
  <2>5. \A r \in enqueued : r[2] <= base'[r[1]] + Whole(size'[r[1]])
    <3> SUFFICES ASSUME NEW r \in enqueued
                 PROVE  r[2] <= base'[r[1]] + Whole(size'[r[1]])
      OBVIOUS
    <3>1. CASE r[1] = i
      BY <1>3, <2>2, <2>3, <2>4, <3>1
    <3>2. CASE r[1] # i
      BY <1>3, <2>2, <3>2 DEF ReplayInv
    <3> QED
      BY <3>1, <3>2
  <2>6. ASSUME NEW t \in Sensors PROVE LagInv(t)'
    <3>1. LagInv(t)
      BY DEF ReplayInv
    <3>2. pc[t] \in Reading => /\ size'[fh[t]] = size[fh[t]]
                               /\ base'[fh[t]] = base[fh[t]]
                               /\ fh[t] \notin {NoFile, i}
      BY <1>1, <1>2, <2>1, <2>2
    <3>3. pc[t] \in {"drain", "dput"} => fh[t] # path'[t]
      BY <2>2, <3>1, <3>2 DEF LagInv, Reading
    <3> QED
      BY <1>1, <3>1, <3>2, <3>3 DEF LagInv, Reading, Blocked, Whole
  <2>7. ASSUME NEW n \in Nat PROVE QueuedUpto(s, n)'
    BY <1>1, <1>3, <2>2, <2>3, <2>4 DEF QueuedUpto
  <2>8. ASSUME NEW t \in Sensors \ {s}, path[t] # NoFile
        PROVE  /\ \A n : QueuedUpto(t, n) => QueuedUpto(t, n)'
               /\ InLiveLog(t)' <=> InLiveLog(t)
    <3>1. path[t] \in Inodes /\ path'[t] = path[t] /\ path[t] # i
      BY <1>2, <2>1, <2>2, <2>8 DEF Handles
    <3> QED
      BY <1>1, <2>2, <3>1 DEF QueuedUpto, InLiveLog
  <2>9. ASSUME NEW t \in Sensors PROVE WindowInv(t)'
    <3>1. CASE t = s
      <4>1. 0 \in Nat /\ Whole(ckpt[s].off) + CheckpointEvery - 1 \in Nat
        BY <1>1, <1>4
      <4> QED
        BY <1>1, <2>7, <3>1, <4>1 DEF WindowInv, Whole
    <3>2. CASE t # s
      <4>1. path'[t] = path[t] /\ WindowInv(t)
        BY <2>2, <3>2 DEF ReplayInv
      <4> QED
        BY <1>1, <2>8, <3>2, <4>1 DEF WindowInv, Whole
    <3> QED
      BY <3>1, <3>2
  <2>10. ASSUME NEW t \in Sensors, pc[t] = "reopen" PROVE QueuedUpto(t, 0)'
    <3>1. CASE t = s
      BY <2>7, <3>1
    <3>2. CASE t # s /\ path[t] = NoFile
      BY <1>1, <1>3, <2>2, <3>2 DEF QueuedUpto
    <3>3. CASE t # s /\ path[t] # NoFile
      BY <2>8, <2>10, <3>3 DEF ReplayInv
    <3> QED
      BY <3>1, <3>2, <3>3
  <2> QED
    BY <1>1, <2>5, <2>6, <2>9, <2>10 DEF ReplayInv, Whole
<1> QED
  BY <1>1, <1>5, <1>6, WorldChanges

\* What one tail queues is of no file at another sensor's path.
LEMMA OthersQueued ==
    ASSUME ReplayInv, NEW s \in Sensors, NEW t \in Sensors \ {s},
           UNCHANGED <<path, base>>, enqueued' \subseteq Records,
           \A r \in enqueued' : r \in enqueued \/ r[1] = fh[s],
           NEW n, QueuedUpto(t, n)
    PROVE  QueuedUpto(t, n)'
<1>1. \A r \in enqueued' : r[1] # NoFile
  BY TailAssumption DEF Records
<1>2. path[t] # NoFile => path[t] # fh[s]
  BY DEF ReplayInv, OwnInv
<1> QED
  BY <1>1, <1>2 DEF QueuedUpto

\* Queueing the line that ends at position q and counting it keeps the
\* checkpoint close enough behind.
LEMMA LineDoneReplay ==
    ASSUME ReplayInv, DiskFaults = FALSE, NEW s \in Sensors, NEW q \in Nat,
           UNCHANGED <<path, size, base>>, pc[s] \in {"read", "put"},
           LineDone(s, q),
           ckpt[s].off <= q, q <= size[fh[s]],
           Whole(q) <= Whole(ckpt[s].off) + unsaved[s] + 1,
           \A r \in enqueued' : \/ r \in enqueued
                                \/ r = <<fh[s], base[fh[s]] + Whole(q)>>
    PROVE  /\ WindowInv(s)'
           /\ unsaved'[s] < CheckpointEvery
           /\ ckpt'[s].ino = fh[s]
           /\ ckpt'[s].off <= q
           /\ Whole(q) <= Whole(ckpt'[s].off) + unsaved'[s]
<1> DEFINE i == fh[s]
<1>1. /\ CheckpointEvery \in Nat \ {0} /\ NoFile \notin Inodes
      /\ i \in Inodes /\ size[i] \in Nat /\ base[i] \in Nat
      /\ unsaved \in [Sensors -> Nat]
      /\ ckpt \in [Sensors -> [ino : Handles, off : Nat]]
      /\ ckpt[s].off \in Nat /\ enqueued \subseteq Records
  BY TailAssumption DEF ReplayInv, TypeInv, TailTypeOK, Reading
<1>2. /\ Whole(q) \in Nat /\ Whole(ckpt[s].off) \in Nat
      /\ Whole(ckpt[s].off) <= Whole(q)
  BY <1>1, WholeGrows
<1>3. ckpt[s].ino = i /\ unsaved[s] < CheckpointEvery
  BY DEF ReplayInv, LagInv, Reading
<1>4. \/ /\ ckpt' = [ckpt EXCEPT ![s] = [ino |-> i, off |-> q]]
         /\ unsaved' = [unsaved EXCEPT ![s] = 0]
      \/ /\ UNCHANGED ckpt
         /\ unsaved' = [unsaved EXCEPT ![s] = unsaved[s] + 1]
         /\ unsaved[s] + 1 < CheckpointEvery
  BY <1>1 DEF LineDone, SaveCheckpoint
<1>5. /\ unsaved'[s] < CheckpointEvery
      /\ ckpt'[s].ino = i
      /\ ckpt'[s].off <= q
      /\ ckpt'[s].off \in Nat
      /\ unsaved'[s] \in Nat
      /\ Whole(q) <= Whole(ckpt'[s].off) + unsaved'[s]
      /\ Whole(ckpt[s].off) <= Whole(ckpt'[s].off)
      /\ Whole(ckpt'[s].off) \in Nat
  BY <1>1, <1>2, <1>3, <1>4
<1>6. CASE path[s] # i
  <2>1. QueuedUpto(s, 0)' \/ path[s] = NoFile
    BY <1>3, <1>6 DEF ReplayInv, WindowInv, QueuedUpto, InLiveLog
  <2>2. ~ InLiveLog(s)'
    BY <1>5, <1>6 DEF InLiveLog
  <2> QED
    BY <1>5, <2>1, <2>2 DEF WindowInv
<1>7. CASE path[s] = i
  <2>1. InLiveLog(s) /\ InLiveLog(s)'
    BY <1>1, <1>3, <1>5, <1>7 DEF InLiveLog
  <2>2. QueuedUpto(s, Whole(ckpt[s].off) + CheckpointEvery - 1)
    BY <1>1, <1>7, <2>1 DEF ReplayInv, WindowInv
  <2> DEFINE n == Whole(ckpt'[s].off) + CheckpointEvery - 1
  <2>3. ASSUME NEW r \in enqueued', r[1] = path[s]
        PROVE  r[2] <= base[path[s]] + n
    <3>1. CASE r \in enqueued
      <4>1. r[2] <= base[i] + (Whole(ckpt[s].off) + CheckpointEvery - 1) /\ r[2] \in Nat
        BY <1>1, <1>7, <2>2, <2>3, <3>1 DEF QueuedUpto, Records
      <4> QED
        BY <1>1, <1>2, <1>5, <1>7, <4>1
    <3>2. CASE r = <<fh[s], base[fh[s]] + Whole(q)>>
      <4>1. r[2] = base[i] + Whole(q)
        BY <3>2
      <4> QED
        BY <1>1, <1>2, <1>5, <1>7, <4>1
    <3> QED
      BY <2>3, <3>1, <3>2
  <2>4. \A r \in enqueued' : r[1] = path'[s] => r[2] <= base'[path'[s]] + n
    BY <2>3
  <2>5. WindowInv(s)'
    BY <2>1, <2>4 DEF WindowInv, QueuedUpto, Whole
  <2> QED
    BY <1>5, <2>5
<1> QED
  BY <1>5, <1>6, <1>7

\* One readline() of a whole line, or of a piece of one.
LEMMA AdvanceReplay ==
    ASSUME ReplayInv, NEW s \in Sensors, AtLine(s), Advance(s)
    PROVE  /\ fh[s] \in Inodes
           /\ pos'[s] \in Nat /\ pos[s] \in Nat /\ size[fh[s]] \in Nat
           /\ pos[s] <= pos'[s] /\ pos'[s] <= size[fh[s]]
           /\ Whole(pos'[s]) <= Whole(pos[s]) + 1
           /\ Whole(pos'[s]) <= Whole(size[fh[s]])
           /\ ReadsWhole(pos[s], size[fh[s]]) =>
                 LineAt(fh[s], pos[s]) = <<fh[s], base[fh[s]] + Whole(pos'[s])>>
           /\ Whole(pos[s]) \in Nat /\ Whole(pos'[s]) \in Nat
<1> DEFINE i == fh[s]  p == pos[s]  h == size[i]  q == NextPos(p, h)
<1>1. /\ i \in Inodes /\ p \in Nat /\ h \in Nat /\ p < h /\ base[i] \in Nat
      /\ pos \in [Sensors -> Nat]
  BY DEF ReplayInv, TypeInv, TailTypeOK, AtLine, Reading
<1>2. pos'[s] = q
  BY <1>1 DEF Advance
<1>3. q \in Nat /\ q <= h /\ Whole(q) <= Whole(p) + 1 /\ p \div 2 = Whole(p) /\ p <= q
  BY <1>1, NextPosFacts DEF NextPos
<1>4. Whole(q) <= Whole(h) /\ Whole(q) \in Nat /\ Whole(p) \in Nat
  BY <1>1, <1>3, WholeGrows
<1>5. ReadsWhole(p, h) => Whole(q) = Whole(p) + 1
  BY <1>1 DEF ReadsWhole, NextPos, Whole
<1>6. ReadsWhole(p, h) => LineAt(i, p) = <<i, base[i] + Whole(q)>>
  <2> SUFFICES ASSUME ReadsWhole(p, h) PROVE LineAt(i, p) = <<i, base[i] + Whole(q)>>
    OBVIOUS
  <2>1. base[i] + p \div 2 + 1 = base[i] + Whole(q)
    BY <1>1, <1>3, <1>4, <1>5
  <2> QED
    BY <2>1 DEF LineAt
<1> QED
  BY <1>1, <1>2, <1>3, <1>4, <1>6

\* Where _tail_once starts reading, little behind has been queued.
LEMMA ResumeReplay ==
    ASSUME ReplayInv, NEW s \in Sensors, path[s] # NoFile
    PROVE  LET p == ResumePos(s, path[s])
           IN  /\ p \in Nat
               /\ p <= size[path[s]]
               /\ QueuedUpto(s, Whole(p) + CheckpointEvery - 1)
<1> DEFINE i == path[s]  p == ResumePos(s, i)
<1>1. /\ i \in Inodes /\ size[i] \in Nat /\ base[i] \in Nat
      /\ ckpt[s] \in [ino : Handles, off : Nat]
      /\ CheckpointEvery \in Nat \ {0} /\ NoFile \notin Inodes
      /\ enqueued \subseteq Records
  BY TailAssumption DEF ReplayInv, TypeInv, TailTypeOK, Handles
<1>2. \A r \in enqueued : r[2] \in Nat
  BY <1>1 DEF Records
<1>3. CASE ckpt[s] = NoCheckpoint
  <2>1. p = size[i] /\ Whole(p) \in Nat
    BY <1>1, <1>3, LineCounts DEF ResumePos
  <2>2. \A r \in enqueued : r[1] = i => r[2] <= base[i] + Whole(size[i])
    BY DEF ReplayInv
  <2>3. QueuedUpto(s, Whole(p) + CheckpointEvery - 1)
    BY <1>1, <1>2, <2>1, <2>2 DEF QueuedUpto
  <2> QED
    BY <1>1, <2>1, <2>3
<1>4. CASE ckpt[s] # NoCheckpoint /\ (ckpt[s].ino # i \/ ckpt[s].off > size[i])
  <2>1. p = 0 /\ Whole(p) = 0
    BY <1>4, LineCounts DEF ResumePos
  <2>2. QueuedUpto(s, 0)
    BY <1>1, <1>4 DEF ReplayInv, WindowInv, InLiveLog
  <2>3. QueuedUpto(s, Whole(p) + CheckpointEvery - 1)
    BY <1>1, <1>2, <2>1, <2>2 DEF QueuedUpto
  <2> QED
    BY <1>1, <2>1, <2>3
<1>5. CASE ckpt[s] # NoCheckpoint /\ ~ (ckpt[s].ino # i \/ ckpt[s].off > size[i])
  <2>1. p = ckpt[s].off /\ InLiveLog(s)
    BY <1>1, <1>5 DEF ResumePos, InLiveLog
  <2> QED
    BY <1>1, <1>5, <2>1 DEF ReplayInv, WindowInv, InLiveLog
<1> QED
  BY <1>3, <1>4, <1>5

LEMMA TailReplayStep ==
    ASSUME ReplayInv, DiskFaults = FALSE, NEW s \in Sensors,
           TailStep(s) \/ TailFails(s), TypeInv', OwnInv'
    PROVE  ReplayInv'
<1> USE DEF Reading, Blocked
<1>1. /\ pc \in [Sensors -> States] /\ fh \in [Sensors -> Handles]
      /\ pos \in [Sensors -> Nat] /\ size \in [Inodes -> Nat]
      /\ base \in [Inodes -> Nat] /\ path \in [Sensors -> Handles]
      /\ hand \in [Sensors -> Records \union {NoRecord}]
      /\ unsaved \in [Sensors -> Nat]
      /\ ckpt \in [Sensors -> [ino : Handles, off : Nat]]
      /\ CheckpointEvery \in Nat \ {0} /\ NoFile \notin Inodes
      /\ enqueued' \subseteq Records /\ enqueued \subseteq Records
      /\ pc[s] \in Reading => fh[s] \in Inodes
      /\ LagInv(s)
  BY TailAssumption DEF ReplayInv, TypeInv, TailTypeOK
<1>2. UNCHANGED <<path, size, base>>
  BY DEF TailStep, TailFails, OpenPath, ReadRecord, ReadBlocked, ReadFragment,
         PutHand, CaughtUp, CheckRotation, DrainDone, OpenNext, disk
<1>3. \A t \in Sensors \ {s} :
          /\ pc'[t] = pc[t] /\ fh'[t] = fh[t] /\ pos'[t] = pos[t]
          /\ hand'[t] = hand[t] /\ unsaved'[t] = unsaved[t] /\ ckpt'[t] = ckpt[t]
  <2>1. \A p \in Nat, i \in Handles : SaveCheckpoint(s, i, p) =>
            \A t \in Sensors \ {s} : ckpt'[t] = ckpt[t]
    BY <1>1 DEF SaveCheckpoint
  <2>2. CASE OpenPath(s) \/ OpenNext(s)
    <3>1. \A t \in Sensors \ {s} : ckpt'[t] = ckpt[t]
      BY <1>1, <2>2 DEF OpenPath, OpenNext, SaveCheckpoint
    <3> QED
      BY <1>1, <2>2, <3>1 DEF OpenPath, OpenNext
  <2>3. CASE ReadRecord(s) \/ ReadFragment(s) \/ PutHand(s)
    <3>1. \A t \in Sensors \ {s} : ckpt'[t] = ckpt[t] /\ unsaved'[t] = unsaved[t]
      BY <1>1, <2>3 DEF ReadRecord, ReadFragment, PutHand, LineDone, SaveCheckpoint
    <3> QED
      BY <1>1, <2>3, <3>1 DEF ReadRecord, ReadFragment, PutHand, Advance
  <2>4. CASE CaughtUp(s)
    <3>1. \A t \in Sensors \ {s} : ckpt'[t] = ckpt[t]
      BY <1>1, <2>4 DEF CaughtUp, SaveCheckpoint
    <3> QED
      BY <1>1, <2>4, <3>1 DEF CaughtUp
  <2>5. CASE ReadBlocked(s) \/ CheckRotation(s) \/ DrainDone(s) \/ TailFails(s)
    BY <1>1, <2>5 DEF ReadBlocked, CheckRotation, DrainDone, TailFails, Advance
  <2> QED
    BY <2>2, <2>3, <2>4, <2>5 DEF TailStep
<1>4. SUFFICES
        /\ \A r \in enqueued' :
              r \in enqueued \/ /\ r[1] = fh[s] /\ fh[s] \in Inodes
                                /\ r[2] <= base[fh[s]] + Whole(size[fh[s]])
        /\ LagInv(s)' /\ WindowInv(s)'
        /\ pc'[s] = "reopen" => QueuedUpto(s, 0)'
  <2>1. \A r \in enqueued' : r \in enqueued \/ r[1] = fh[s]
    BY <1>4
  <2>2. ASSUME NEW t \in Sensors \ {s}, NEW n, QueuedUpto(t, n)
        PROVE  QueuedUpto(t, n)'
    BY <1>1, <1>2, <2>1, <2>2, OthersQueued
  <2>3. ASSUME NEW t \in Sensors \ {s} PROVE LagInv(t)'
    <3>1. LagInv(t)
      BY DEF ReplayInv
    <3> QED
      BY <1>2, <1>3, <3>1 DEF LagInv, Whole
  <2>4. ASSUME NEW t \in Sensors \ {s} PROVE WindowInv(t)'
    <3>1. WindowInv(t) /\ (InLiveLog(t)' <=> InLiveLog(t))
      BY <1>2, <1>3 DEF ReplayInv, InLiveLog
    <3> QED
      BY <1>2, <1>3, <2>2, <3>1 DEF WindowInv, Whole
  <2>5. ASSUME NEW t \in Sensors \ {s}, pc'[t] = "reopen" PROVE QueuedUpto(t, 0)'
    BY <1>3, <2>2, <2>5 DEF ReplayInv
  <2>6. \A r \in enqueued' : r[2] <= base[r[1]] + Whole(size[r[1]])
    BY <1>4 DEF ReplayInv
  <2>7. \A t \in Sensors : LagInv(t)' /\ WindowInv(t)'
    BY <1>4, <2>3, <2>4
  <2>8. \A t \in Sensors : pc'[t] = "reopen" => QueuedUpto(t, 0)'
    BY <1>4, <2>5
  <2> QED
    BY <1>2, <2>6, <2>7, <2>8 DEF ReplayInv, Whole
<1>5. CASE OpenPath(s)
  <2> DEFINE i == path[s]  p == ResumePos(s, i)
  <2>1. /\ i \in Inodes /\ p \in Nat /\ p <= size[i]
        /\ QueuedUpto(s, Whole(p) + CheckpointEvery - 1)
    BY <1>1, <1>5, ResumeReplay DEF OpenPath, Handles
  <2>2. /\ pc'[s] = "read" /\ fh'[s] = i /\ pos'[s] = p /\ unsaved'[s] = 0
        /\ ckpt'[s] = [ino |-> i, off |-> p] /\ UNCHANGED enqueued
    BY <1>1, <1>5 DEF OpenPath, SaveCheckpoint
  <2>3. Whole(p) \in Nat
    BY <2>1, LineCounts
  <2>4. LagInv(s)'
    BY <1>1, <1>2, <2>1, <2>2, <2>3 DEF LagInv, Whole
  <2>5. InLiveLog(s)'
    BY <1>2, <2>1, <2>2 DEF InLiveLog
  <2>6. WindowInv(s)'
    BY <1>2, <2>1, <2>2, <2>5 DEF WindowInv, QueuedUpto, Whole
  <2> QED
    BY <2>2, <2>4, <2>6
<1>6. CASE ReadRecord(s)
  <2>1. AtLine(s) /\ Advance(s) /\ ReadsWhole(pos[s], size[fh[s]])
    BY <1>6 DEF ReadRecord
  <2> DEFINE i == fh[s]  q == pos'[s]
  <2>2. /\ i \in Inodes /\ q \in Nat /\ pos[s] \in Nat /\ size[i] \in Nat
        /\ pos[s] <= q /\ q <= size[i] /\ Whole(q) <= Whole(pos[s]) + 1
        /\ Whole(q) <= Whole(size[i])
        /\ LineAt(i, pos[s]) = <<i, base[i] + Whole(q)>>
        /\ Whole(pos[s]) \in Nat /\ Whole(q) \in Nat
    BY <2>1, AdvanceReplay
  <2>3. \A r \in enqueued' : r \in enqueued \/ r = <<i, base[i] + Whole(q)>>
    BY <1>6, <2>2 DEF ReadRecord, Put
  <2>4. \A r \in enqueued' : r \in enqueued \/ /\ r[1] = i
                                                /\ r[2] <= base[i] + Whole(size[i])
    <3>1. base[i] + Whole(q) <= base[i] + Whole(size[i])
      BY <1>1, <2>2, LineCounts
    <3> QED
      BY <2>3, <3>1
  <2>5. UNCHANGED <<pc, fh, hand>> /\ LineDone(s, q)
    BY <1>6 DEF ReadRecord
  <2>6. CASE pc[s] = "read"
    <3>1. /\ ckpt[s].off <= q
          /\ Whole(q) <= Whole(ckpt[s].off) + unsaved[s] + 1
      <4>1. /\ ckpt[s].off <= pos[s] /\ ckpt[s].off \in Nat /\ unsaved[s] \in Nat
            /\ Whole(pos[s]) <= Whole(ckpt[s].off) + unsaved[s] + 0
            /\ Whole(ckpt[s].off) \in Nat
        BY <1>1, <2>6, LineCounts DEF LagInv
      <4> QED
        BY <2>2, <4>1
    <3>2. /\ WindowInv(s)' /\ unsaved'[s] < CheckpointEvery
          /\ ckpt'[s].ino = i /\ ckpt'[s].off <= q
          /\ Whole(q) <= Whole(ckpt'[s].off) + unsaved'[s]
      BY <1>2, <2>2, <2>3, <2>5, <2>6, <3>1, LineDoneReplay
    <3>3. ckpt'[s].off \in Nat /\ unsaved'[s] \in Nat
      BY DEF TypeInv, TailTypeOK
    <3>4. Whole(ckpt'[s].off) \in Nat
      BY <3>3, LineCounts
    <3>5. LagInv(s)'
      BY <1>2, <2>2, <2>5, <2>6, <3>2, <3>3, <3>4 DEF LagInv, Whole
    <3> QED
      BY <2>2, <2>4, <2>5, <2>6, <3>2, <3>5
  <2>7. CASE pc[s] = "drain"
    <3>1. UNCHANGED <<unsaved, ckpt>>
      BY <2>5, <2>7 DEF LineDone
    <3>2. LagInv(s)'
      BY <1>1, <1>2, <2>5, <2>7, <3>1 DEF LagInv
    <3>3. path[s] # i
      BY <1>1, <2>7 DEF LagInv
    <3>4. WindowInv(s)'
      <4>1. WindowInv(s) /\ (InLiveLog(s)' <=> InLiveLog(s))
        BY <1>2, <3>1 DEF ReplayInv, InLiveLog
      <4>2. \A n : QueuedUpto(s, n) => QueuedUpto(s, n)'
        BY <1>2, <2>3, <3>3 DEF QueuedUpto
      <4> QED
        BY <1>2, <3>1, <4>1, <4>2 DEF WindowInv, Whole
    <3> QED
      BY <2>2, <2>4, <2>5, <2>7, <3>2, <3>4
  <2> QED
    BY <2>1, <2>6, <2>7 DEF AtLine
<1>7. CASE ReadBlocked(s)
  <2>1. AtLine(s) /\ Advance(s) /\ ReadsWhole(pos[s], size[fh[s]])
    BY <1>7 DEF ReadBlocked
  <2> DEFINE i == fh[s]  q == pos'[s]
  <2>2. /\ i \in Inodes /\ q \in Nat /\ pos[s] \in Nat /\ size[i] \in Nat
        /\ pos[s] <= q /\ q <= size[i] /\ Whole(q) <= Whole(pos[s]) + 1
        /\ Whole(q) <= Whole(size[i])
        /\ LineAt(i, pos[s]) = <<i, base[i] + Whole(q)>>
        /\ Whole(pos[s]) \in Nat /\ Whole(q) \in Nat
    BY <2>1, AdvanceReplay
  <2>3. /\ UNCHANGED <<fh, unsaved, ckpt, enqueued>>
        /\ hand'[s] = <<i, base[i] + Whole(q)>>
        /\ \/ pc[s] = "read" /\ pc'[s] = "put"
           \/ pc[s] = "drain" /\ pc'[s] = "dput"
    BY <1>1, <1>7, <2>2 DEF ReadBlocked, AtLine, history
  <2>4. LagInv(s)'
    <3>1. /\ ckpt[s].off \in Nat /\ unsaved[s] \in Nat /\ Whole(ckpt[s].off) \in Nat
      BY <1>1, LineCounts
    <3>2. pc[s] = "read" => /\ ckpt[s].off <= q
                            /\ Whole(q) <= Whole(ckpt[s].off) + unsaved[s] + 1
      BY <1>1, <2>2, <3>1 DEF LagInv
    <3>3. pc[s] = "drain" => i # path[s]
      BY <1>1 DEF LagInv
    <3>4. unsaved[s] < CheckpointEvery /\ ckpt[s].ino = i
      BY <1>1, <2>3 DEF LagInv
    <3> QED
      BY <1>2, <2>2, <2>3, <3>2, <3>3, <3>4 DEF LagInv, Whole
  <2>5. WindowInv(s)'
    BY <1>2, <2>3 DEF ReplayInv, WindowInv, QueuedUpto, InLiveLog, Whole
  <2> QED
    BY <2>3, <2>4, <2>5
<1>8. CASE ReadFragment(s)
  <2>1. AtLine(s) /\ Advance(s)
    BY <1>8 DEF ReadFragment
  <2> DEFINE i == fh[s]  q == pos'[s]
  <2>2. /\ i \in Inodes /\ q \in Nat /\ pos[s] \in Nat /\ size[i] \in Nat
        /\ pos[s] <= q /\ q <= size[i] /\ Whole(q) <= Whole(pos[s]) + 1
        /\ Whole(pos[s]) \in Nat /\ Whole(q) \in Nat
    BY <2>1, AdvanceReplay
  <2>3. UNCHANGED <<pc, fh, hand, enqueued>> /\ LineDone(s, q)
    BY <1>8 DEF ReadFragment
  <2>4. CASE pc[s] = "read"
    <3>1. /\ ckpt[s].off <= q
          /\ Whole(q) <= Whole(ckpt[s].off) + unsaved[s] + 1
      <4>1. /\ ckpt[s].off <= pos[s] /\ ckpt[s].off \in Nat /\ unsaved[s] \in Nat
            /\ Whole(pos[s]) <= Whole(ckpt[s].off) + unsaved[s] + 0
            /\ Whole(ckpt[s].off) \in Nat
        BY <1>1, <2>4, LineCounts DEF LagInv
      <4> QED
        BY <2>2, <4>1
    <3>2. /\ WindowInv(s)' /\ unsaved'[s] < CheckpointEvery
          /\ ckpt'[s].ino = i /\ ckpt'[s].off <= q
          /\ Whole(q) <= Whole(ckpt'[s].off) + unsaved'[s]
      BY <1>2, <2>2, <2>3, <2>4, <3>1, LineDoneReplay
    <3>3. ckpt'[s].off \in Nat /\ unsaved'[s] \in Nat
      BY DEF TypeInv, TailTypeOK
    <3>4. Whole(ckpt'[s].off) \in Nat
      BY <3>3, LineCounts
    <3>5. LagInv(s)'
      BY <1>2, <2>2, <2>3, <2>4, <3>2, <3>3, <3>4 DEF LagInv, Whole
    <3> QED
      BY <2>3, <2>4, <3>2, <3>5
  <2>5. CASE pc[s] = "drain"
    <3>1. UNCHANGED <<unsaved, ckpt>>
      BY <2>3, <2>5 DEF LineDone
    <3>2. LagInv(s)'
      BY <1>1, <1>2, <2>3, <2>5, <3>1 DEF LagInv
    <3>3. WindowInv(s)'
      BY <1>2, <2>3, <3>1 DEF ReplayInv, WindowInv, QueuedUpto, InLiveLog, Whole
    <3> QED
      BY <2>3, <2>5, <3>2, <3>3
  <2> QED
    BY <2>1, <2>4, <2>5 DEF AtLine
<1>9. CASE PutHand(s)
  <2> DEFINE i == fh[s]  q == pos[s]
  <2>1. /\ i \in Inodes /\ q \in Nat /\ size[i] \in Nat /\ base[i] \in Nat
        /\ hand[s] = <<i, base[i] + Whole(q)>> /\ Whole(q) <= Whole(size[i])
    BY <1>1, <1>9 DEF PutHand, LagInv
  <2>2. Whole(q) \in Nat /\ Whole(size[i]) \in Nat
    BY <2>1, LineCounts
  <2>3. \A r \in enqueued' : r \in enqueued \/ r = <<i, base[i] + Whole(q)>>
    BY <1>9, <2>1 DEF PutHand, Put
  <2>4. \A r \in enqueued' : r \in enqueued \/ /\ r[1] = i
                                                /\ r[2] <= base[i] + Whole(size[i])
    <3>1. base[i] + Whole(q) <= base[i] + Whole(size[i])
      BY <2>1, <2>2
    <3> QED
      BY <2>3, <3>1
  <2>5. UNCHANGED <<fh, pos>> /\ LineDone(s, q)
    BY <1>9 DEF PutHand
  <2>6. CASE pc[s] = "put"
    <3>0. pc'[s] = "read"
      BY <1>1, <1>9, <2>6 DEF PutHand
    <3>1. /\ ckpt[s].off <= q /\ q <= size[i]
          /\ Whole(q) <= Whole(ckpt[s].off) + unsaved[s] + 1
      BY <1>1, <2>6 DEF LagInv
    <3>2. /\ WindowInv(s)' /\ unsaved'[s] < CheckpointEvery
          /\ ckpt'[s].ino = i /\ ckpt'[s].off <= q
          /\ Whole(q) <= Whole(ckpt'[s].off) + unsaved'[s]
      BY <1>2, <2>1, <2>3, <2>5, <2>6, <3>1, LineDoneReplay
    <3>3. ckpt'[s].off \in Nat /\ unsaved'[s] \in Nat
      BY DEF TypeInv, TailTypeOK
    <3>4. Whole(ckpt'[s].off) \in Nat
      BY <3>3, LineCounts
    <3>5. LagInv(s)'
      BY <1>2, <2>1, <2>5, <3>0, <3>1, <3>2, <3>3, <3>4 DEF LagInv, Whole
    <3> QED
      BY <2>1, <2>4, <3>0, <3>2, <3>5
  <2>7. CASE pc[s] = "dput"
    <3>0. pc'[s] = "drain"
      BY <1>1, <1>9, <2>7 DEF PutHand
    <3>1. UNCHANGED <<unsaved, ckpt>>
      BY <2>5, <2>7 DEF LineDone
    <3>2. LagInv(s)'
      BY <1>1, <1>2, <2>5, <2>7, <3>0, <3>1 DEF LagInv
    <3>3. path[s] # i
      BY <1>1, <2>7 DEF LagInv
    <3>4. WindowInv(s)'
      <4>1. WindowInv(s) /\ (InLiveLog(s)' <=> InLiveLog(s))
        BY <1>2, <3>1 DEF ReplayInv, InLiveLog
      <4>2. \A n : QueuedUpto(s, n) => QueuedUpto(s, n)'
        BY <1>2, <2>3, <3>3 DEF QueuedUpto
      <4> QED
        BY <1>2, <3>1, <4>1, <4>2 DEF WindowInv, Whole
    <3> QED
      BY <2>1, <2>4, <3>0, <3>2, <3>4
  <2> QED
    BY <1>9, <2>6, <2>7 DEF PutHand
<1>10. CASE CaughtUp(s)
  <2> DEFINE i == fh[s]  q == pos[s]
  <2>1. /\ pc[s] = "read" /\ pc'[s] = "idle" /\ UNCHANGED <<fh, pos, enqueued>>
        /\ unsaved'[s] = 0
        /\ \/ unsaved[s] > 0 /\ ckpt'[s] = [ino |-> i, off |-> q]
           \/ unsaved[s] = 0 /\ UNCHANGED ckpt
    BY <1>1, <1>10 DEF CaughtUp, SaveCheckpoint, history
  <2>2. /\ i \in Inodes /\ q \in Nat /\ size[i] \in Nat /\ base[i] \in Nat
        /\ ckpt[s].ino = i /\ ckpt[s].off \in Nat /\ ckpt[s].off <= q /\ q <= size[i]
        /\ unsaved[s] \in Nat
        /\ Whole(q) <= Whole(ckpt[s].off) + unsaved[s] + 0
    BY <1>1, <2>1 DEF LagInv
  <2>3. /\ Whole(q) \in Nat /\ Whole(ckpt[s].off) \in Nat
        /\ Whole(ckpt[s].off) <= Whole(q)
    BY <2>2, WholeGrows
  <2>4. /\ ckpt'[s].ino = i /\ ckpt'[s].off <= q /\ ckpt'[s].off \in Nat
        /\ Whole(q) <= Whole(ckpt'[s].off) + 0
        /\ Whole(ckpt[s].off) <= Whole(ckpt'[s].off) /\ Whole(ckpt'[s].off) \in Nat
    BY <2>1, <2>2, <2>3
  <2>5. LagInv(s)'
    BY <1>1, <1>2, <2>1, <2>2, <2>4 DEF LagInv, Whole
  <2>6. WindowInv(s)'
    <3>1. CASE path[s] # i
      <4>1. ~ InLiveLog(s) /\ ~ InLiveLog(s)'
        BY <1>2, <2>2, <2>4, <3>1 DEF InLiveLog
      <4> QED
        BY <1>2, <2>1, <4>1 DEF ReplayInv, WindowInv, QueuedUpto
    <3>2. CASE path[s] = i
      <4>1. InLiveLog(s) /\ InLiveLog(s)'
        BY <1>2, <2>2, <2>4, <3>2 DEF InLiveLog
      <4>2. QueuedUpto(s, Whole(ckpt[s].off) + CheckpointEvery - 1)
        BY <1>1, <2>2, <3>2, <4>1 DEF ReplayInv, WindowInv
      <4>3. \A r \in enqueued : r[1] = path[s] =>
                r[2] <= base[path[s]] + (Whole(ckpt'[s].off) + CheckpointEvery - 1)
        <5>1. \A r \in enqueued : r[2] \in Nat
          BY <1>1 DEF Records
        <5> QED
          BY <1>1, <2>2, <2>3, <2>4, <3>2, <4>2, <5>1 DEF QueuedUpto
      <4> QED
        BY <1>2, <2>1, <4>1, <4>3 DEF WindowInv, QueuedUpto, Whole
    <3> QED
      BY <3>1, <3>2
  <2> QED
    BY <2>1, <2>5, <2>6
<1>11. CASE CheckRotation(s)
  <2>1. /\ UNCHANGED <<fh, pos, hand, unsaved, ckpt, enqueued>> /\ pc[s] = "idle"
        /\ \/ pc'[s] = "drain" /\ path[s] # fh[s]
           \/ pc'[s] = "read"
    BY <1>1, <1>11 DEF CheckRotation, history
  <2>2. LagInv(s)'
    BY <1>1, <1>2, <2>1 DEF LagInv, Whole
  <2>3. WindowInv(s)'
    BY <1>2, <2>1 DEF ReplayInv, WindowInv, QueuedUpto, InLiveLog, Whole
  <2> QED
    BY <2>1, <2>2, <2>3
<1>12. CASE DrainDone(s) \/ TailFails(s)
  <2>1. /\ UNCHANGED <<unsaved, ckpt, enqueued>>
        /\ \/ pc[s] = "drain" /\ pc'[s] = "reopen"
           \/ pc'[s] = "wait"
    BY <1>1, <1>12 DEF DrainDone, TailFails, history
  <2>2. LagInv(s)'
    BY <1>1, <2>1 DEF LagInv
  <2>3. WindowInv(s)'
    BY <1>2, <2>1 DEF ReplayInv, WindowInv, QueuedUpto, InLiveLog, Whole
  <2>4. pc'[s] = "reopen" => QueuedUpto(s, 0)'
    <3> SUFFICES ASSUME pc'[s] = "reopen" PROVE QueuedUpto(s, 0)'
      OBVIOUS
    <3>1. ~ InLiveLog(s)
      BY <1>1, <2>1 DEF LagInv, InLiveLog
    <3>2. CASE path[s] = NoFile
      BY <1>1, <1>2, <3>2 DEF QueuedUpto, Records
    <3>3. CASE path[s] # NoFile
      BY <1>2, <2>1, <3>1, <3>3 DEF ReplayInv, WindowInv, QueuedUpto
    <3> QED
      BY <3>2, <3>3
  <2> QED
    BY <2>1, <2>2, <2>3, <2>4
<1>13. CASE OpenNext(s)
  <2> DEFINE i == path[s]
  <2>1. /\ pc[s] = "reopen" /\ pc'[s] = "read" /\ i \in Inodes
        /\ fh'[s] = i /\ pos'[s] = 0 /\ unsaved'[s] = 0
        /\ ckpt'[s] = [ino |-> i, off |-> 0] /\ UNCHANGED enqueued
    BY <1>1, <1>13 DEF OpenNext, SaveCheckpoint, Handles, history
  <2>2. size[i] \in Nat /\ base[i] \in Nat /\ Whole(0) = 0
    BY <1>1, <2>1, LineCounts
  <2>3. LagInv(s)'
    BY <1>1, <1>2, <2>1, <2>2 DEF LagInv, Whole
  <2>4. WindowInv(s)'
    <3>1. QueuedUpto(s, 0)
      BY <2>1 DEF ReplayInv
    <3>2. \A r \in enqueued : r[1] = i =>
              r[2] <= base[i] + 0 /\ r[2] <= base[i] + (0 + CheckpointEvery - 1)
      <4>1. \A r \in enqueued : r[2] \in Nat
        BY <1>1 DEF Records
      <4> QED
        BY <1>1, <2>2, <3>1, <4>1 DEF QueuedUpto
    <3>3. Whole(ckpt'[s].off) = 0
      BY <2>1, <2>2
    <3> QED
      BY <1>2, <2>1, <3>2, <3>3 DEF WindowInv, QueuedUpto, Whole
  <2> QED
    BY <2>1, <2>3, <2>4
<1> QED
  BY <1>5, <1>6, <1>7, <1>8, <1>9, <1>10, <1>11, <1>12, <1>13 DEF TailStep

LEMMA ReplayStep ==
    ASSUME DiskFaults = FALSE
    PROVE  ReplayInv /\ [TailNext]_tailVars => ReplayInv'
<1> SUFFICES ASSUME ReplayInv, [TailNext]_tailVars PROVE ReplayInv'
  OBVIOUS
<1>1. TypeInv' /\ OwnInv'
  BY TypeStep, OwnStep DEF ReplayInv
<1>2. CASE \E s \in Sensors : WorldStep(s) \/ TailStep(s) \/ TailFails(s)
  BY <1>1, <1>2, WorldReplayStep, TailReplayStep
<1>3. CASE Compress \/ (StartTails /\ UNCHANGED queue) \/ Die \/ Take \/ UNCHANGED tailVars
  <2>1. UNCHANGED <<path, size, base, unsaved, ckpt, enqueued>>
    BY <1>3 DEF Compress, StartTails, Die, StopTails, Take, tailVars, disk, reader, history
  <2>2. \/ UNCHANGED <<pc, fh, pos, hand>>
        \/ \A s \in Sensors : pc'[s] \in {"off", "wait"}
    BY <1>3 DEF Compress, StartTails, Die, StopTails, Take, tailVars, reader
  <2>3. \A s \in Sensors : LagInv(s)'
    BY <2>1, <2>2 DEF ReplayInv, LagInv, Reading, Blocked, Whole
  <2>4. \A s \in Sensors : WindowInv(s)'
    BY <2>1 DEF ReplayInv, WindowInv, QueuedUpto, InLiveLog, Whole
  <2>5. \A s \in Sensors : pc'[s] = "reopen" => QueuedUpto(s, 0)'
    BY <2>1, <2>2 DEF ReplayInv, QueuedUpto
  <2> QED
    BY <1>1, <2>1, <2>3, <2>4, <2>5 DEF ReplayInv, Whole
<1> QED
  BY <1>2, <1>3 DEF TailNext

\* While checkpoint writes succeed, a restart reads again fewer queued lines of
\* the live log than CHECKPOINT_EVERY_LINES, however the process and the tails
\* stopped before, and even where inode numbers are used again.
THEOREM ReplaysLittle ==
    ASSUME DiskFaults = FALSE
    PROVE  TailSpec => []ReplayBounded
<1>1. TailInit => ReplayInv
  BY ReplayInit
<1>2. ReplayInv /\ [TailNext]_tailVars => ReplayInv'
  BY ReplayStep
<1> QED
  BY <1>1, <1>2, ReplayInvImplies, PTL DEF TailSpec

-----------------------------------------------------------------------------
(* The pipeline: the parts in the composition *)

\* What the consumers ask of their constants, the pipeline's constants have.
LEMMA ConsumerAssumption == IP!IngestAssumption
<1>1. IsFiniteSet(1 .. MaxLines)
  BY FS_Interval, TailAssumption
<1>2. IsFiniteSet(Records)
  BY <1>1, FS_Product, PipelineAssumption DEF Records
<1>3. NoRecord \notin Records
  BY TailAssumption DEF Records
<1>4. \A S : IP!IsFiniteSet(S) <=> IsFiniteSet(S)
  BY Zenon DEF IP!IsFiniteSet, IsFiniteSet
<1> QED
  BY <1>2, <1>3, <1>4, TailAssumption, PipelineAssumption DEF IP!IngestAssumption

\* A consumer's step in the pipeline is one of the consumers alone.
LEMMA SameStep ==
    ASSUME NEW c \in Consumers, I!ConsumerStep(c)
    PROVE  IP!ConsumerStep(c)
BY DEF I!ConsumerStep, IP!ConsumerStep, I!TakeRecord, IP!TakeRecord, I!Ignore, IP!Ignore,
       I!Insert, IP!Insert, I!InsertConflict, IP!InsertConflict, I!Upsert, IP!Upsert,
       I!Publish, IP!Publish, I!Announce, IP!Announce, I!CallFails, IP!CallFails,
       I!CallRejected, IP!CallRejected, I!Retry, IP!Retry, I!Finish, IP!Finish,
       I!Goto, IP!Goto, I!InsertRow, IP!InsertRow, I!CountIp, IP!CountIp,
       I!PublishEvent, IP!PublishEvent, I!AnnounceIp, IP!AnnounceIp, I!Effect, IP!Effect,
       I!Rows, IP!Rows, I!RowsOf, IP!RowsOf, I!SourceIp, IP!SourceIp,
       I!Calls, IP!Calls, I!stores, IP!stores, I!outcome, IP!outcome

\* Consumers cut off, wherever they are, touch no store.
CutOff == I!ForgetWork /\ UNCHANGED <<stored, ipCount, published, announced, counted,
                                      dropped, ignored>>

\* Every step of the process is one of these for the consumers.
LEMMA WriterSteps ==
    ASSUME PipelineNext
    PROVE  \/ UNCHANGED writerVars
           \/ CutOff
           \/ \E c \in Consumers : Consuming(c)
BY DEF PipelineNext, OrderlyNext, World, Tailing, TailError, Archive, Boot, BeginShutdown,
       Drained, DrainTimeout, Kill, CutOff

\* Tails that are cut off, all of them or none, and the queue with them or not.
Halt ==
    /\ UNCHANGED <<disk, pos, unsaved, ckpt, history>>
    /\ faults' \in 0 .. MaxFaults
    /\ queue' = queue \/ queue' = <<>>
    /\ \/ UNCHANGED <<pc, fh, hand>>
       \/ /\ pc' = [s \in Sensors |-> "off"]
          /\ fh' = [s \in Sensors |-> NoFile]
          /\ hand' = [s \in Sensors |-> NoRecord]

\* A consumer takes the first record of the queue or leaves the tails alone.
LEMMA ConsumingTails ==
    ASSUME NEW c \in Consumers, Consuming(c)
    PROVE  [TailNext]_tailVars
<1>1. I!ConsumerStep(c) /\ UNCHANGED <<disk, reader, ckpt, faults, history>>
  BY DEF Consuming
<1>2. CASE I!TakeRecord(c)
  BY <1>1, <1>2 DEF I!TakeRecord, TailNext, Take
<1>3. CASE UNCHANGED queue
  BY <1>1, <1>3 DEF tailVars
<1> QED
  BY <1>1, <1>2, <1>3
     DEF I!ConsumerStep, I!Ignore, I!Insert, I!InsertConflict, I!Upsert, I!Publish,
         I!Announce, I!CallFails, I!CallRejected, I!Retry

\* Every step of the process is one of the tails, or halts them.
LEMMA TailSteps ==
    ASSUME TypeInv, [PipelineNext]_pipelineVars
    PROVE  [TailNext]_tailVars \/ Halt
<1>1. faults \in 0 .. MaxFaults
  BY DEF TypeInv, TailTypeOK
<1>2. CASE \E s \in Sensors : World(s) \/ Tailing(s) \/ TailError(s)
  BY <1>2 DEF World, Tailing, TailError, TailNext
<1>3. CASE \E c \in Consumers : Consuming(c)
  BY <1>3, ConsumingTails
<1>4. CASE Archive
  BY <1>4 DEF Archive, TailNext
<1>5. CASE Boot
  BY <1>5 DEF Boot, TailNext
<1>6. CASE BeginShutdown
  BY <1>1, <1>6, TailAssumption DEF BeginShutdown, StopTails, Halt
<1>7. CASE Drained
  BY <1>7 DEF Drained
<1>8. CASE DrainTimeout
  BY <1>1, <1>8 DEF DrainTimeout, Halt, reader
<1>9. CASE Kill
  BY <1>9 DEF Kill, TailNext
<1>10. CASE UNCHANGED pipelineVars
  BY <1>10 DEF pipelineVars
<1> QED
  BY <1>2, <1>3, <1>4, <1>5, <1>6, <1>7, <1>8, <1>9, <1>10 DEF PipelineNext, OrderlyNext

-----------------------------------------------------------------------------
(* The pipeline: type correctness *)

LEMMA TailsTyped == TypeInv /\ [PipelineNext]_pipelineVars => TypeInv'
<1> SUFFICES ASSUME TypeInv, [PipelineNext]_pipelineVars PROVE TypeInv'
  OBVIOUS
<1>1. CASE [TailNext]_tailVars
  BY <1>1, TypeStep
<1>2. CASE Halt
  <2>1. queue' \in Seq(Records) /\ Len(queue') <= QueueMax
    <3>1. CASE queue' = queue
      BY <3>1 DEF TypeInv, TailTypeOK
    <3>2. CASE queue' = <<>>
      BY <3>2, TailAssumption
    <3> QED
      BY <1>2, <3>1, <3>2 DEF Halt
  <2> QED
    BY <1>2, <2>1 DEF Halt, TypeInv, TailTypeOK, disk, history, Reading, Blocked, States,
                      Handles
<1> QED
  BY <1>1, <1>2, TailSteps

\* The consumers' invariant: types, and whose a record is.
LEMMA WritersKept ==
    ASSUME TypeInv, IP!Inv, [PipelineNext]_pipelineVars
    PROVE  IP!Inv'
<1>1. queue' \in Seq(Records) /\ faults' \in 0 .. MaxFaults
  BY TailsTyped DEF TypeInv, TailTypeOK
<1>2. CASE UNCHANGED writerVars
  <2>1. IP!TypeInv'
    BY <1>1, <1>2 DEF IP!Inv, IP!TypeInv, IP!IngestTypeOK, writerVars
  <2>2. IP!LedgerInv'
    BY <1>2, IP!KeepsLedger, ConsumerAssumption DEF IP!Inv, IP!stores, writerVars
  <2> QED
    BY <2>1, <2>2 DEF IP!Inv
<1>3. CASE CutOff
  <2>1. IP!TypeInv'
    BY <1>1, <1>3, ConsumerAssumption
       DEF IP!Inv, IP!TypeInv, IP!IngestTypeOK, CutOff, I!ForgetWork, IP!Stages,
           IP!IngestAssumption
  <2>2. IP!ForgetWork /\ UNCHANGED IP!stores
    BY <1>3 DEF CutOff, I!ForgetWork, IP!ForgetWork, IP!stores
  <2>3. IP!LedgerInv'
    BY <2>2, IP!ForgetKeepsLedger, ConsumerAssumption DEF IP!Inv
  <2> QED
    BY <2>1, <2>3 DEF IP!Inv
<1>4. CASE \E c \in Consumers : Consuming(c)
  <2>1. PICK c \in Consumers : IP!ConsumerStep(c)
    BY <1>4, SameStep DEF Consuming
  <2>2. IP!IngestNext
    BY <2>1 DEF IP!IngestNext
  <2> QED
    BY <2>2, IP!IngestStep, ConsumerAssumption
<1>5. CASE UNCHANGED pipelineVars
  BY <1>2, <1>5 DEF pipelineVars
<1> QED
  BY <1>2, <1>3, <1>4, <1>5, WriterSteps

MainTypeOK == phase \in {"down", "up", "draining"} /\ lost \subseteq Records

\* What a cut takes from memory are records.
LEMMA MemoryType ==
    ASSUME TypeInv, IP!Inv
    PROVE  InMemory \subseteq Records
BY DEF InMemory, TypeInv, TailTypeOK, IP!Inv, IP!TypeInv, IP!IngestTypeOK

LEMMA MainKept ==
    ASSUME TypeInv, IP!Inv, MainTypeOK, [PipelineNext]_pipelineVars
    PROVE  MainTypeOK'
<1>1. lost' = lost \/ lost' = lost \union InMemory
  BY DEF PipelineNext, OrderlyNext, World, Tailing, TailError, Archive, Consuming, Boot,
         BeginShutdown, Drained, DrainTimeout, Kill, pipelineVars, mainVars
<1>2. phase' = phase \/ phase' \in {"down", "up", "draining"}
  BY DEF PipelineNext, OrderlyNext, World, Tailing, TailError, Archive, Consuming, Boot,
         BeginShutdown, Drained, DrainTimeout, Kill, pipelineVars, mainVars
<1> QED
  BY <1>1, <1>2, MemoryType DEF MainTypeOK

PipeInv == TypeInv /\ IP!Inv /\ MainTypeOK

LEMMA PipeInit == PipelineInit => PipeInv
<1> SUFFICES ASSUME PipelineInit PROVE PipeInv
  OBVIOUS
<1>1. TypeInv
  BY TypeInit DEF PipelineInit
<1>2. IP!IngestInit
  BY DEF PipelineInit, TailInit, I!WorkInit, IP!IngestInit, IP!WorkInit, I!Rows, IP!Rows
<1>3. IP!Inv
  BY <1>2, IP!InitInv, ConsumerAssumption
<1> QED
  BY <1>1, <1>3 DEF PipeInv, MainTypeOK, PipelineInit

LEMMA PipeStep == PipeInv /\ [PipelineNext]_pipelineVars => PipeInv'
  BY TailsTyped, WritersKept, MainKept DEF PipeInv

\* Tails, consumers and main() keep every variable in its range, for any
\* number of sensors, consumers, inodes and addresses.
THEOREM PipelineTypeCorrect == PipelineSpec => []PipelineTypeOK
<1>1. PipeInv => PipelineTypeOK
  BY DEF PipeInv, TypeInv, IP!Inv, IP!TypeInv, IP!IngestTypeOK, I!IngestTypeOK, MainTypeOK,
         PipelineTypeOK, IP!Stages, I!Stages, IP!Rows, I!Rows
<1> QED
  BY <1>1, PipeInit, PipeStep, PTL DEF PipelineSpec

-----------------------------------------------------------------------------
(* The pipeline: the ledger, end to end *)

\* The pipeline's ledger and the consumers' are the same.
LEMMA SameLedger ==
    /\ [IP!Ledger!LNext]_IP!Ledger!ledger => [I!Ledger!LNext]_I!Ledger!ledger
    /\ PipelineInit => I!Ledger!LInit
<1>1. [IP!Ledger!LNext]_IP!Ledger!ledger => [I!Ledger!LNext]_I!Ledger!ledger
  BY DEF IP!Ledger!LNext, I!Ledger!LNext, IP!Ledger!ledger, I!Ledger!ledger,
         IP!Ledger!Store, I!Ledger!Store, IP!Ledger!Count, I!Ledger!Count,
         IP!Ledger!Publish, I!Ledger!Publish, IP!Ledger!Announce, I!Ledger!Announce,
         IP!Rows, I!Rows, IP!SourceIp, I!SourceIp
<1>2. PipelineInit => I!Ledger!LInit
  BY DEF PipelineInit, I!WorkInit, I!Ledger!LInit
<1> QED
  BY <1>1, <1>2

LEMMA LedgerStep ==
    ASSUME PipeInv, [PipelineNext]_pipelineVars
    PROVE  [I!Ledger!LNext]_I!Ledger!ledger
<1>1. CASE UNCHANGED writerVars \/ CutOff \/ UNCHANGED pipelineVars
  BY <1>1 DEF CutOff, writerVars, pipelineVars, I!Ledger!ledger
<1>2. CASE \E c \in Consumers : Consuming(c)
  <2>1. PICK c \in Consumers : IP!ConsumerStep(c)
    BY <1>2, SameStep DEF Consuming
  <2>2. IP!IngestNext
    BY <2>1 DEF IP!IngestNext
  <2>3. [IP!Ledger!LNext]_IP!Ledger!ledger
    BY <2>2, IP!IngestStep, ConsumerAssumption DEF PipeInv
  <2> QED
    BY <2>3, SameLedger
<1> QED
  BY <1>1, <1>2, WriterSteps

\* The whole process keeps the ledger: replays from a checkpoint, retries,
\* consumers side by side, stops and kills together neither count a row nor
\* publish it by two calls, publish none that was not counted, nor announce an
\* address by two calls.
THEOREM LedgerEndToEnd == PipelineSpec => LedgerKept
<1>1. PipelineInit => I!Ledger!LInit
  BY SameLedger
<1>2. PipelineSpec => []PipeInv
  BY PipeInit, PipeStep, PTL DEF PipelineSpec
<1> QED
  BY <1>1, <1>2, LedgerStep, PTL DEF PipelineSpec, LedgerKept, I!LedgerKept, I!Ledger!LSpec

-----------------------------------------------------------------------------
(* The pipeline: what was queued is accounted for *)

InQueue(q) == {q[k] : k \in 1 .. Len(q)}

\* A consumer waiting for work has no record.
EmptyHands == \A c \in Consumers : stage[c] = "get" => job[c] = NoRecord

\* Every record that ever reached the queue is still in memory, was dealt with,
\* or was in memory when the process was cut off.
QueuedAccounted == enqueued \subseteq Handled \union InMemory \union lost

\* Taking the first of a sequence loses none of the others.
LEMMA TakeElements ==
    ASSUME NEW q \in Seq(Records), q # <<>>
    PROVE  InQueue(q) \subseteq {Head(q)} \union InQueue(Tail(q))
<1> SUFFICES ASSUME NEW k \in 1 .. Len(q), k # 1
             PROVE  q[k] \in InQueue(Tail(q))
  BY DEF InQueue
<1>1. Len(Tail(q)) = Len(q) - 1 /\ k - 1 \in 1 .. Len(Tail(q)) /\ Tail(q)[k - 1] = q[k]
  OBVIOUS
<1> QED
  BY <1>1 DEF InQueue

LEMMA AppendElements ==
    ASSUME NEW q \in Seq(Records), NEW r \in Records
    PROVE  InQueue(Append(q, r)) = InQueue(q) \union {r}
<1>1. Len(Append(q, r)) = Len(q) + 1 /\ Append(q, r)[Len(q) + 1] = r
  OBVIOUS
<1>2. \A k \in 1 .. Len(q) : Append(q, r)[k] = q[k] /\ k \in 1 .. Len(Append(q, r))
  OBVIOUS
<1>3. Len(q) + 1 \in 1 .. Len(Append(q, r))
  BY <1>1
<1>4. \A k \in 1 .. Len(Append(q, r)) : k \in 1 .. Len(q) \/ k = Len(q) + 1
  BY <1>1
<1>5. InQueue(q) \union {r} \subseteq InQueue(Append(q, r))
  BY <1>1, <1>2, <1>3 DEF InQueue
<1>6. InQueue(Append(q, r)) \subseteq InQueue(q) \union {r}
  BY <1>1, <1>2, <1>4 DEF InQueue
<1> QED
  BY <1>5, <1>6

\* How a consumer may let go of a record: when it is dealt with.
LEMMA HandsAccounted ==
    ASSUME QueuedAccounted, UNCHANGED <<enqueued, lost, queue>>, Handled \subseteq Handled',
           \A c \in Consumers : job'[c] = job[c] \/ job[c] \in Handled'
    PROVE  QueuedAccounted'
BY DEF QueuedAccounted, InMemory

\* Behind the insert, and when it conflicts, the record is stored.
LEMMA ConsumerAccounts ==
    ASSUME PipeInv, EmptyHands, QueuedAccounted, NEW c \in Consumers, Consuming(c)
    PROVE  EmptyHands' /\ QueuedAccounted'
<1>1. /\ IP!ConsumerStep(c)
      /\ UNCHANGED <<enqueued, lost>>
  BY SameStep DEF Consuming, history, mainVars
<1>2. /\ job \in [Consumers -> Records \union {NoRecord}]
      /\ stage \in [Consumers -> IP!Stages]
      /\ queue \in Seq(Records)
      /\ stage[c] \in {"upsert", "publish", "announce"} => job[c] \in I!Recorded
  BY IP!BehindRecorded, ConsumerAssumption
     DEF PipeInv, IP!Inv, IP!TypeInv, IP!IngestTypeOK, IP!Recorded, I!Recorded, IP!Behind
<1>3. ASSUME UNCHANGED queue, Handled \subseteq Handled', IP!Finish(c), job[c] \in Handled'
      PROVE  EmptyHands' /\ QueuedAccounted'
  <2>1. \A d \in Consumers : d # c => job'[d] = job[d] /\ stage'[d] = stage[d]
    BY <1>2, <1>3 DEF IP!Finish
  <2>2. job'[c] = NoRecord
    BY <1>2, <1>3 DEF IP!Finish
  <2> QED
    BY <1>1, <1>3, <2>1, <2>2, HandsAccounted DEF EmptyHands
<1>4. ASSUME UNCHANGED <<queue, job>>, Handled \subseteq Handled', stage'[c] # "get",
             \A d \in Consumers : d # c => stage'[d] = stage[d]
      PROVE  EmptyHands' /\ QueuedAccounted'
  <2>1. stage[c] = "get" => stage'[c] # "get"
    BY <1>4
  <2>2. QueuedAccounted'
    BY <1>1, <1>4, HandsAccounted
  <2> QED
    BY <1>4, <2>2 DEF EmptyHands
<1>5. CASE IP!TakeRecord(c)
  <2>1. /\ stage[c] = "get" /\ queue # <<>>
        /\ job' = [job EXCEPT ![c] = Head(queue)]
        /\ queue' = Tail(queue)
        /\ stage' = [stage EXCEPT ![c] = "insert"]
        /\ Handled' = Handled
    BY <1>5 DEF IP!TakeRecord, IP!stores, IP!outcome, Handled, I!Handled, I!Recorded
  <2>2. EmptyHands'
    BY <1>2, <2>1 DEF EmptyHands
  <2>3. job[c] = NoRecord
    BY <2>1 DEF EmptyHands
  <2>4. Head(queue) \in InMemory'
    <3>1. Head(queue) \in Records /\ NoRecord \notin Records
      BY <1>2, <2>1, TailAssumption DEF Records
    <3>2. job'[c] = Head(queue)
      BY <1>2, <2>1
    <3> QED
      BY <3>1, <3>2 DEF InMemory
  <2>5. InQueue(queue) \subseteq InMemory'
    <3>1. InQueue(queue) \subseteq {Head(queue)} \union InQueue(queue')
      BY <1>2, <2>1, TakeElements
    <3> QED
      BY <2>4, <3>1 DEF InMemory, InQueue
  <2>6. \A d \in Consumers : job[d] # NoRecord => job'[d] = job[d]
    BY <1>2, <2>1, <2>3
  <2>7. InMemory \subseteq InMemory'
    BY <2>5, <2>6 DEF InMemory, InQueue
  <2> QED
    BY <1>1, <2>1, <2>2, <2>7 DEF QueuedAccounted
<1>6. CASE IP!Ignore(c) \/ IP!InsertConflict(c) \/ IP!CallRejected(c) \/ IP!Announce(c)
  <2>1. IP!Finish(c) /\ UNCHANGED <<queue, stored>>
    BY <1>6 DEF IP!Ignore, IP!InsertConflict, IP!CallRejected, IP!Announce, IP!AnnounceIp,
                IP!stores
  <2>2. dropped \subseteq dropped' /\ ignored \subseteq ignored'
    BY <1>6 DEF IP!Ignore, IP!InsertConflict, IP!CallRejected, IP!Announce, IP!outcome
  <2>3. CASE IP!InsertConflict(c)
    <3>1. PICK w \in IP!RowsOf(job[c]) : w \in stored
      BY <2>3 DEF IP!InsertConflict
    <3>2. job[c] \in Records
      BY <2>3 DEF IP!InsertConflict, PipeInv, IP!Inv, IP!TypeInv, IP!IngestTypeOK
    <3>3. w[1] = job[c]
      BY <3>1, <3>2, IP!RowFacts, ConsumerAssumption
    <3> QED
      BY <1>3, <2>1, <2>2, <3>1, <3>3 DEF Handled, I!Handled, I!Recorded
  <2>4. CASE IP!Ignore(c) \/ IP!CallRejected(c)
    BY <1>3, <2>1, <2>2, <2>4
       DEF IP!Ignore, IP!CallRejected, Handled, I!Handled, I!Recorded
  <2>5. CASE IP!Announce(c)
    BY <1>2, <1>3, <2>1, <2>2, <2>5 DEF IP!Announce, Handled, I!Handled, I!Recorded
  <2> QED
    BY <1>6, <2>3, <2>4, <2>5
<1>7. CASE IP!Insert(c) \/ IP!Upsert(c) \/ IP!Retry(c)
  BY <1>2, <1>4, <1>7
     DEF IP!Insert, IP!Upsert, IP!Retry, IP!InsertRow, IP!CountIp, IP!Goto,
         IP!stores, IP!outcome, Handled, I!Handled, I!Recorded
<1>8. CASE IP!Publish(c)
  <2>1. UNCHANGED queue /\ Handled' = Handled /\ job[c] \in Handled
    BY <1>2, <1>8 DEF IP!Publish, IP!PublishEvent, IP!outcome, Handled, I!Handled, I!Recorded
  <2>2. CASE IP!Finish(c)
    BY <1>3, <2>1, <2>2
  <2>3. CASE IP!Goto(c, "announce")
    BY <1>2, <1>4, <2>1, <2>3 DEF IP!Goto
  <2> QED
    <3>1. IP!Finish(c) \/ IP!Goto(c, "announce")
      BY <1>8, Zenon DEF IP!Publish
    <3> QED
      BY <2>2, <2>3, <3>1
<1>9. CASE IP!CallFails(c)
  <2>1. stored \subseteq stored' /\ dropped \subseteq dropped' /\ ignored \subseteq ignored'
    <3>1. IP!Effect(c) \/ UNCHANGED IP!stores
      BY <1>9 DEF IP!CallFails
    <3>2. stored \subseteq stored'
      BY <3>1 DEF IP!Effect, IP!InsertRow, IP!CountIp, IP!PublishEvent, IP!AnnounceIp,
                  IP!stores
    <3> QED
      BY <1>9, <3>2 DEF IP!CallFails
  <2>2. UNCHANGED queue /\ Handled \subseteq Handled'
    BY <1>9, <2>1 DEF IP!CallFails, Handled, I!Handled, I!Recorded
  <2>3. CASE IP!Finish(c) /\ dropped' = dropped \union {job[c]}
    BY <1>3, <2>2, <2>3 DEF Handled, I!Handled, I!Recorded
  <2>4. CASE IP!Goto(c, "backoff")
    BY <1>2, <1>4, <2>2, <2>4 DEF IP!Goto
  <2> QED
    BY <1>9, <2>3, <2>4 DEF IP!CallFails
<1> QED
  BY <1>1, <1>5, <1>6, <1>7, <1>8, <1>9 DEF IP!ConsumerStep

\* A tail puts on the queue what it counts as queued.
LEMMA TailAccounts ==
    ASSUME PipeInv, QueuedAccounted, NEW s \in Sensors, TailStep(s),
           UNCHANGED <<writerVars, mainVars>>
    PROVE  QueuedAccounted'
<1>1. Handled' = Handled /\ UNCHANGED <<job, lost>>
  BY DEF writerVars, mainVars, Handled, I!Handled, I!Recorded
<1>2. UNCHANGED <<queue, enqueued>> \/ \E r \in Records : Put(r)
  <2>1. ReadRecord(s) => LineAt(fh[s], pos[s]) \in Records
    BY LineAtType DEF ReadRecord, PipeInv
  <2>2. PutHand(s) => hand[s] \in Records
    BY DEF PutHand, PipeInv, TypeInv, Blocked
  <2> QED
    BY <2>1, <2>2
       DEF TailStep, OpenPath, ReadRecord, ReadBlocked, ReadFragment, PutHand, CaughtUp,
           CheckRotation, DrainDone, OpenNext, history
<1>3. CASE UNCHANGED <<queue, enqueued>>
  BY <1>1, <1>3 DEF QueuedAccounted, InMemory
<1>4. ASSUME NEW r \in Records, Put(r)
      PROVE  QueuedAccounted'
  <2>1. queue \in Seq(Records)
    BY DEF PipeInv, TypeInv, TailTypeOK
  <2>2. InQueue(queue') = InQueue(queue) \union {r} /\ enqueued' = enqueued \union {r}
    BY <1>4, <2>1, AppendElements DEF Put
  <2> QED
    BY <1>1, <2>2 DEF QueuedAccounted, InMemory, InQueue
<1> QED
  BY <1>2, <1>3, <1>4

QueueInv == PipeInv /\ EmptyHands /\ QueuedAccounted

LEMMA QueueInit == PipelineInit => QueueInv
  BY PipeInit DEF PipelineInit, TailInit, I!WorkInit, QueueInv, EmptyHands, QueuedAccounted

LEMMA QueueStep == QueueInv /\ [PipelineNext]_pipelineVars => QueueInv'
<1> SUFFICES ASSUME QueueInv, [PipelineNext]_pipelineVars PROVE QueueInv'
  OBVIOUS
<1>1. PipeInv'
  BY PipeStep DEF QueueInv
<1> SUFFICES EmptyHands' /\ QueuedAccounted'
  BY <1>1 DEF QueueInv
<1>2. ASSUME UNCHANGED <<writerVars, lost, queue, enqueued>>
      PROVE  EmptyHands' /\ QueuedAccounted'
  BY <1>2 DEF QueueInv, EmptyHands, QueuedAccounted, InMemory, writerVars, Handled, I!Handled, I!Recorded
<1>3. ASSUME CutOff, UNCHANGED enqueued, InMemory \subseteq lost', lost \subseteq lost'
      PROVE  EmptyHands' /\ QueuedAccounted'
  <2>1. Handled' = Handled
    BY <1>3 DEF CutOff, Handled, I!Handled, I!Recorded
  <2> QED
    BY <1>3, <2>1 DEF QueueInv, EmptyHands, QueuedAccounted, CutOff, I!ForgetWork
<1>4. CASE \E s \in Sensors : World(s) \/ TailError(s)
  BY <1>2, <1>4 DEF World, TailError, WorldStep, WriteLine, WritePart, WriteRest, CronMove,
         CronTouch, WriterReopen, SelfMove, SelfReopen, TailFails, history, mainVars
<1>5. CASE \E s \in Sensors : Tailing(s)
  <2>1. UNCHANGED writerVars
    BY <1>5 DEF Tailing
  <2>2. EmptyHands'
    BY <2>1 DEF QueueInv, EmptyHands, writerVars
  <2> QED
    BY <1>5, <2>2, TailAccounts DEF QueueInv, Tailing
<1>6. CASE \E c \in Consumers : Consuming(c)
  BY <1>6, ConsumerAccounts DEF QueueInv
<1>7. CASE Archive \/ Boot \/ BeginShutdown
  BY <1>2, <1>7 DEF Archive, Compress, Boot, StartTails, BeginShutdown, StopTails, history,
         mainVars
<1>8. CASE Drained
  <2>1. CutOff /\ UNCHANGED <<enqueued, lost>>
    BY <1>8 DEF Drained, CutOff, tailVars, history
  <2>2. InMemory = {}
    BY <1>8 DEF Drained, InMemory, QueueInv, EmptyHands
  <2> QED
    BY <1>3, <2>1, <2>2
<1>9. CASE DrainTimeout \/ Kill
  BY <1>3, <1>9 DEF DrainTimeout, Kill, Die, StopTails, CutOff, history
<1>10. CASE UNCHANGED pipelineVars
  BY <1>2, <1>10 DEF pipelineVars, tailVars, history, mainVars
<1> QED
  BY <1>4, <1>5, <1>6, <1>7, <1>8, <1>9, <1>10 DEF PipelineNext, OrderlyNext

LEMMA HaltGap == GapInv /\ TypeInv' /\ Halt => GapInv'
<1> SUFFICES ASSUME GapInv, TypeInv', Halt PROVE GapInv'
  OBVIOUS
<1>1. UNCHANGED <<size, base, pos, ckpt, enqueued, skipped, torn>>
  BY DEF Halt, disk, history
<1>2. UNCHANGED <<fh, hand>> \/ \A s \in Sensors : fh'[s] = NoFile
  BY DEF Halt
<1>3. PositionInv'
  BY <1>1, <1>2, TailAssumption DEF GapInv, PositionInv, Settled, Upto, Whole
<1>4. CheckpointInv'
  BY <1>1 DEF GapInv, CheckpointInv, Settled, Upto, Whole
<1> QED
  BY <1>1, <1>3, <1>4 DEF GapInv

\* End to end, with fresh inode numbers: whatever a checkpoint has passed was
\* stored, ignored, dropped with a log line, skipped with one or torn, is in
\* memory, or was in memory at a moment the process was cut off.
THEOREM EndToEnd ==
    ASSUME InodeReuse = FALSE
    PROVE  PipelineSpec => []Accounted
<1>1. PipelineInit => QueueInv /\ GapInv
  BY QueueInit, GapInit DEF PipelineInit
<1>2. ASSUME QueueInv, GapInv, [PipelineNext]_pipelineVars PROVE QueueInv' /\ GapInv'
  <2>1. QueueInv' /\ TypeInv'
    BY <1>2, QueueStep DEF QueueInv, PipeInv
  <2>2. [TailNext]_tailVars \/ Halt
    BY <1>2, TailSteps DEF GapInv
  <2> QED
    BY <1>2, <2>1, <2>2, GapStep, HaltGap
<1>3. ASSUME QueueInv, GapInv PROVE Accounted
  <2>1. CheckpointCovered
    BY <1>3, GapInvImplies
  <2> QED
    BY <1>3, <2>1 DEF QueueInv, QueuedAccounted, CheckpointCovered, Accounted, Settled
<1> QED
  BY <1>1, <1>2, <1>3, PTL DEF PipelineSpec

==============================================================================
