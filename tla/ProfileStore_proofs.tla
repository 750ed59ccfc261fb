------------------------- MODULE ProfileStore_proofs -------------------------
(***************************************************************************)
(* Proofs about ProfileStore: its types and the bound on its memory, that  *)
(* what an event made of a profile is written, under way or on record as   *)
(* given up, and that it implements ProfileLedger.                         *)
(***************************************************************************)
EXTENDS ProfileStore, FiniteSetTheorems, TLAPS

-----------------------------------------------------------------------------
(* Profiles, snapshots, rows *)

LEMMA UpdateType ==
    ASSUME NEW p \in Profiles, NEW e \in Cmds \union {Login}
    PROVE  Update(p, e) \in Profiles
<1>1. e # Login => Append(p.cmds, e) \in Seq(Cmds)
    BY DEF Profiles
<1>. QED
    BY <1>1 DEF Update, Profiles

LEMMA ScoreType == \A p \in Profiles : Score(p) \in Nat
<1>. SUFFICES ASSUME NEW p \in Profiles PROVE Score(p) \in Nat
    OBVIOUS
<1>1. Len(p.cmds) \in Nat /\ p.logins \in Nat
    BY DEF Profiles
<1>2. Least(50 * Len(p.cmds), 250) \in Nat /\ Least(15 * p.logins, 200) \in Nat
    BY <1>1 DEF Least
<1>. QED
    BY <1>2 DEF Score

LEMMA SnapshotType == \A p \in Profiles : Snapshot(p) \in Rows
<1>. SUFFICES ASSUME NEW p \in Profiles PROVE Snapshot(p) \in Rows
    OBVIOUS
<1>1. Score(p) \in Nat
    BY ScoreType
<1>2. Classify(p) \in Nat
    BY DEF Classify
<1>3. {p.cmds[k] : k \in 1 .. Least(SnapMax, Len(p.cmds))} \subseteq Typed(p)
    BY ProfileAssumption DEF Least, Typed, Profiles
<1>4. Typed(p) \subseteq Cmds
    BY DEF Typed, Profiles
<1>. QED
    BY <1>1, <1>2, <1>3, <1>4 DEF Snapshot, Rows, Profiles

\* What a merge leaves in the row, whichever commands it keeps.
LEMMA MergedRow ==
    ASSUME NEW old \in Rows, NEW new \in Rows, NEW r \in Merged(old, new)
    PROVE  /\ r \in Rows
           /\ Covers(r, old)
           /\ Covers(r, new)
           /\ r.cmds \subseteq old.cmds \union new.cmds
           /\ r.logins \in {old.logins, new.logins}
BY ProfileAssumption DEF Merged, Rows, Covers, Greatest

\* What a row covers, it still covers after a merge.
LEMMA CoversTransitive ==
    ASSUME NEW s \in Rows, NEW old \in Rows, NEW new \in Rows,
           Covers(old, s), NEW r \in Merged(old, new)
    PROVE  Covers(r, s)
<1>1. r \in Rows /\ Covers(r, old)
    BY MergedRow
<1>2. old.logins <= r.logins /\ old.score <= r.score /\ old.class <= r.class
    BY <1>1 DEF Covers
<1>3. s.logins <= r.logins /\ s.score <= r.score /\ s.class <= r.class
    BY <1>1, <1>2 DEF Covers, Rows
<1>4. CASE Cardinality(r.cmds) >= RowMax
    BY <1>3, <1>4 DEF Covers
<1>5. CASE old.cmds \subseteq r.cmds
    <2>1. IsFiniteSet(r.cmds) /\ IsFiniteSet(old.cmds)
        BY <1>1, ProfileAssumption, FS_Subset DEF Rows
    <2>2. Cardinality(old.cmds) <= Cardinality(r.cmds)
        BY <1>5, <2>1, FS_Subset
    <2>3. Cardinality(old.cmds) \in Nat /\ Cardinality(r.cmds) \in Nat
        BY <2>1, FS_CardinalityType
    <2>4. s.cmds \subseteq r.cmds \/ Cardinality(r.cmds) >= RowMax
        BY <1>5, <2>2, <2>3, ProfileAssumption DEF Covers
    <2>. QED
        BY <1>3, <2>4 DEF Covers
<1>. QED
    BY <1>1, <1>4, <1>5 DEF Covers

LEMMA MarkedType ==
    ASSUME NEW m \in Marks, NEW s \in Rows
    PROVE  /\ Marked(m, s) \in Marks
           /\ Marked(m, s).score >= m.score /\ Marked(m, s).class >= m.class
           /\ Marked(m, s).score >= s.score /\ Marked(m, s).class >= s.class
BY DEF Marked, Marks, Rows, Greatest

-----------------------------------------------------------------------------
(* Types *)

LEMMA InitType == ProfileInit => ProfileTypeOK
<1>. SUFFICES ASSUME ProfileInit PROVE ProfileTypeOK
    OBVIOUS
<1>1. IsFiniteSet(live) /\ Cardinality(live) = 0
    BY FS_EmptySet DEF ProfileInit
<1>2. Fresh \in Profiles /\ NoRow \in Rows
    BY DEF Fresh, Profiles, NoRow, Rows
<1>3. Cardinality(live) <= ProfileMax
    BY <1>1, ProfileAssumption
<1>. QED
    BY <1>1, <1>2, <1>3, ProfileAssumption DEF ProfileInit, ProfileTypeOK, Marks, Login, Causes

\* The flush's own variables after a turn of its loop.
LEMMA LoopType ==
    ASSUME ProfileTypeOK, NEW left \in SUBSET Ips, Loop(left)
    PROVE  /\ at' \in {"sleep", "row"}
           /\ target' \in Ips \union {NoIp}
           /\ (target' = NoIp) <=> (at' = "sleep")
           /\ snap' \in Rows
           /\ rest' \in SUBSET left
           /\ at' = "sleep" => rest' = {}
           /\ phase' \in {phase, "stopped"}
<1>1. CASE left \intersect live = {} /\ FlushGone
                /\ phase' = IF phase = "flushing" THEN "stopped" ELSE phase
    <2>1. NoRow \in Rows
        BY DEF NoRow, Rows
    <2>. QED
        BY <1>1, <2>1 DEF FlushGone
<1>2. ASSUME NEW ip \in left \intersect live, NEW skipped \in SUBSET (left \ live),
             at' = "row", rest' = left \ (skipped \union {ip}), target' = ip,
             snap' = Snapshot(profile[ip]), phase' = phase
      PROVE  /\ snap' \in Rows
             /\ target' \in Ips /\ target' # NoIp
    <2>1. profile[ip] \in Profiles
        BY <1>2 DEF ProfileTypeOK
    <2>. QED
        BY <1>2, <2>1, SnapshotType, ProfileAssumption
<1>. QED
    BY <1>1, <1>2 DEF Loop

\* History: what is given up is on record, and stays so.
LEMMA LoseFacts ==
    ASSUME ProfileTypeOK, NEW S, NEW cause \in Causes \ {"none"}, Lose(S, cause)
    PROVE  /\ lost' \in [Ips -> Causes]
           /\ \A ip \in Ips : ip \in S \/ lost[ip] # "none" => lost'[ip] # "none"
BY DEF Lose, ProfileTypeOK

LEMMA SomeCauses == {"gone", "rejected", "cut", "ended"} \subseteq Causes \ {"none"}
BY DEF Causes

LEMMA EffectType ==
    ASSUME ProfileTypeOK, at \in {"row", "mark"}, Effect
    PROVE  row' \in [Ips -> Rows] /\ ips' \in [Ips -> Marks]
<1>1. target \in Ips /\ row[target] \in Rows /\ ips[target] \in Marks /\ snap \in Rows
    BY DEF ProfileTypeOK
<1>2. ASSUME NEW r \in Merged(row[target], snap)
      PROVE  [row EXCEPT ![target] = r] \in [Ips -> Rows]
    BY <1>1, <1>2, MergedRow DEF ProfileTypeOK
<1>3. [ips EXCEPT ![target] = Marked(@, snap)] \in [Ips -> Marks]
    BY <1>1, MarkedType DEF ProfileTypeOK
<1>. QED
    BY <1>2, <1>3 DEF Effect, tables, ProfileTypeOK

\* What Fold does to the memory.
LEMMA FoldMemory ==
    ASSUME ProfileTypeOK, Fold
    PROVE  /\ profile' \in [Ips -> Profiles]
           /\ live' \subseteq Ips
           /\ colder' \subseteq live' \X live'
           /\ IsFiniteSet(live') /\ Cardinality(live') <= ProfileMax
           /\ \A ip \in Ips \ live' : profile'[ip] = Fresh
           /\ dirty' \subseteq Ips
<1>1. PICK gone \in Evictions(hand) :
          /\ live' = Left(gone) \union {hand}
          /\ colder' = LeftColder(gone \union {hand})
                         \union (Left(gone \union {hand}) \X {hand})
          /\ profile' = [ip \in Ips |-> IF ip = hand THEN Update(profile[ip], event)
                                        ELSE IF ip \in gone THEN Fresh
                                        ELSE profile[ip]]
          /\ dirty' = (dirty \ gone) \union {hand}
    BY DEF Fold
<1>2. hand \in Ips /\ live \subseteq Ips /\ IsFiniteSet(live)
    BY DEF Fold, ProfileTypeOK
<1>3. gone \subseteq live
    BY <1>1 DEF Evictions, Coldest
<1>4. profile' \in [Ips -> Profiles]
    <2>1. Update(profile[hand], event) \in Profiles
        BY <1>2, UpdateType DEF ProfileTypeOK
    <2>2. Fresh \in Profiles
        BY DEF Fresh, Profiles
    <2>. QED
        BY <1>1, <1>2, <2>1, <2>2 DEF ProfileTypeOK
<1>5. colder' \subseteq live' \X live'
    BY <1>1, <1>2 DEF Left, LeftColder, ProfileTypeOK
<1>6. IsFiniteSet(live \ gone) /\ Cardinality(live \ gone) \in Nat
      /\ Cardinality(live) \in Nat /\ Cardinality(live \ gone) <= Cardinality(live)
    BY <1>2, FS_Subset, FS_CardinalityType
<1>7. /\ IsFiniteSet(live')
      /\ Cardinality(live') = IF hand \in live \ gone THEN Cardinality(live \ gone)
                              ELSE Cardinality(live \ gone) + 1
    BY <1>1, <1>6, FS_AddElement DEF Left
<1>8. Cardinality(live') <= ProfileMax
    <2>1. CASE hand \in live
        <3>1. gone = {}
            BY <1>1, <2>1 DEF Evictions
        <3>. QED
            BY <1>7, <2>1, <3>1 DEF ProfileTypeOK
    <2>2. CASE hand \notin live /\ Cardinality(live) < ProfileMax
        BY <1>6, <1>7, <2>2, ProfileAssumption
    <2>3. CASE hand \notin live /\ Cardinality(live) >= ProfileMax
        <3>1. gone \in Coldest(Tenth)
            BY <1>1, <2>3 DEF Evictions
        <3>2. Cardinality(live) >= 1
            BY <1>6, <2>3, ProfileAssumption
        <3>3. Tenth >= 1
            BY <1>6, <3>2, ProfileAssumption DEF Tenth, Least, Greatest
        <3>4. gone # {}
            BY <3>1, <3>3, FS_EmptySet DEF Coldest
        <3>5. live \ gone # live
            BY <1>3, <3>4
        <3>6. Cardinality(live \ gone) < Cardinality(live)
            <4>1. Cardinality(live) = Cardinality(live \ gone) => live = live \ gone
                BY <1>2, FS_Subset
            <4>. QED
                BY <1>6, <3>5, <4>1
        <3>. QED
            BY <1>6, <1>7, <3>6, ProfileAssumption DEF ProfileTypeOK
    <2>. QED
        BY <1>6, <2>1, <2>2, <2>3, ProfileAssumption
<1>. QED
    BY <1>1, <1>2, <1>4, <1>5, <1>7, <1>8 DEF Left, ProfileTypeOK

\* What the end of the process does to the memory.
LEMMA EndType ==
    ASSUME ProfileTypeOK, EndProcess
    PROVE  /\ profile' \in [Ips -> Profiles]
           /\ IsFiniteSet(live') /\ Cardinality(live') <= ProfileMax
           /\ \A ip \in Ips \ live' : profile'[ip] = Fresh
           /\ snap' \in Rows
           /\ owed' = owed /\ lost' \in [Ips -> Causes]
<1>1. Fresh \in Profiles /\ NoRow \in Rows
    BY DEF Fresh, Profiles, NoRow, Rows
<1>2. IsFiniteSet(live') /\ Cardinality(live') <= ProfileMax
    BY FS_EmptySet, ProfileAssumption DEF EndProcess
<1>3. lost' \in [Ips -> Causes]
    BY LoseFacts, SomeCauses DEF EndProcess
<1>. QED
    BY <1>1, <1>2, <1>3 DEF EndProcess, FlushGone

LEMMA StepType == ProfileTypeOK /\ [ProfileNext]_storeVars => ProfileTypeOK'
<1>. SUFFICES ASSUME ProfileTypeOK, [ProfileNext]_storeVars PROVE ProfileTypeOK'
    OBVIOUS
<1>. USE DEF tables, memory, flush, history
<1>1. CASE UNCHANGED storeVars
    BY <1>1 DEF ProfileTypeOK, storeVars
<1>2. ASSUME NEW ip \in Ips, NEW e \in Cmds \union {Login}, Receive(ip, e)
      PROVE  ProfileTypeOK'
    BY <1>2 DEF ProfileTypeOK, Receive
<1>3. CASE Fold
    <2>1. seen' \in [Ips -> [cmds : SUBSET Cmds, logins : Nat]]
        <3>1. hand \in Ips /\ event \in Cmds \union {Login}
            BY <1>3 DEF Fold, ProfileTypeOK
        <3>2. Remembered(seen[hand], event) \in [cmds : SUBSET Cmds, logins : Nat]
            BY <3>1 DEF Remembered, ProfileTypeOK
        <3>. QED
            BY <1>3, <3>2 DEF Fold, ProfileTypeOK
    <2>2. /\ UNCHANGED <<row, ips, phase, at, rest, target, snap, faults>>
          /\ hand' = NoIp /\ event' = Login /\ hand \in Ips
          /\ lost' \in [Ips -> Causes]
        BY <1>3 DEF Fold, ProfileTypeOK, Causes
    <2>3. owed' \in [Ips -> Rows]
        <3>1. profile'[hand] \in Profiles
            BY <1>3, <2>2, FoldMemory
        <3>2. Snapshot(profile'[hand]) \in Rows
            BY <3>1, SnapshotType
        <3>. QED
            BY <1>3, <3>2 DEF Fold, ProfileTypeOK
    <2>. QED
        BY <1>3, <2>1, <2>2, <2>3, FoldMemory DEF ProfileTypeOK
<1>4. ASSUME NEW stale \in SUBSET live, Collect(stale)
      PROVE  ProfileTypeOK'
    <2>1. /\ UNCHANGED <<seen, row, ips, phase, hand, event, dirty, at, rest, target, snap,
                         owed, faults>>
          /\ lost' \in [Ips -> Causes]
          /\ live' = live \ stale
          /\ colder' \subseteq live' \X live'
          /\ profile' = [ip \in Ips |-> IF ip \in stale THEN Fresh ELSE profile[ip]]
        BY <1>4, LoseFacts, SomeCauses DEF Collect, Left, LeftColder, ProfileTypeOK
    <2>2. Fresh \in Profiles
        BY DEF Fresh, Profiles
    <2>3. IsFiniteSet(live') /\ Cardinality(live') <= ProfileMax
        <3>1. /\ IsFiniteSet(live) /\ IsFiniteSet(live \ stale)
              /\ Cardinality(live \ stale) <= Cardinality(live)
            BY FS_Subset DEF ProfileTypeOK
        <3>2. Cardinality(live) \in Nat /\ Cardinality(live \ stale) \in Nat
            BY <3>1, FS_CardinalityType
        <3>. QED
            BY <2>1, <3>1, <3>2, ProfileAssumption DEF ProfileTypeOK
    <2>. QED
        BY <2>1, <2>2, <2>3 DEF ProfileTypeOK
<1>5. CASE FlushStart
    <2>1. dirty \in SUBSET Ips /\ Loop(dirty)
        BY <1>5 DEF FlushStart, ProfileTypeOK
    <2>. QED
        BY <1>5, <2>1, LoopType DEF FlushStart, ProfileTypeOK
<1>6. CASE WriteRow
    <2>1. PICK r \in Merged(row[target], snap) : row' = [row EXCEPT ![target] = r]
        BY <1>6 DEF WriteRow
    <2>2. target \in Ips /\ target # NoIp /\ row[target] \in Rows /\ snap \in Rows
        BY <1>6 DEF WriteRow, ProfileTypeOK
    <2>3. row' \in [Ips -> Rows]
        BY <2>1, <2>2, MergedRow DEF ProfileTypeOK
    <2>. QED
        BY <1>6, <2>2, <2>3 DEF WriteRow, ProfileTypeOK
<1>7. CASE WriteMark
    <2>1. ips' \in [Ips -> Marks]
        BY <1>7, MarkedType DEF WriteMark, ProfileTypeOK
    <2>2. rest \in SUBSET Ips /\ Loop(rest)
        BY <1>7 DEF WriteMark, ProfileTypeOK
    <2>. QED
        BY <1>7, <2>1, <2>2, LoopType DEF WriteMark, ProfileTypeOK
<1>8. CASE WriteFails
    <2>1. rest \in SUBSET Ips /\ Loop(rest) /\ target \in Ips
        BY <1>8 DEF WriteFails, ProfileTypeOK
    <2>2. row' \in [Ips -> Rows] /\ ips' \in [Ips -> Marks]
        BY <1>8, EffectType DEF WriteFails
    <2>3. faults' \in 0 .. MaxFaults
        BY <1>8, ProfileAssumption DEF WriteFails, Fault, ProfileTypeOK
    <2>4. lost' \in [Ips -> Causes]
        BY <1>8, LoseFacts, SomeCauses DEF WriteFails
    <2>. QED
        BY <1>8, <2>1, <2>2, <2>3, <2>4, LoopType DEF WriteFails, ProfileTypeOK
<1>9. CASE WriteRejected
    <2>1. rest \in SUBSET Ips /\ Loop(rest) /\ target \in Ips
        BY <1>9 DEF WriteRejected, ProfileTypeOK
    <2>2. faults' \in 0 .. MaxFaults
        BY <1>9, ProfileAssumption DEF WriteRejected, Fault, ProfileTypeOK
    <2>3. lost' \in [Ips -> Causes]
        BY <1>9, LoseFacts, SomeCauses DEF WriteRejected
    <2>. QED
        BY <1>9, <2>1, <2>2, <2>3, LoopType DEF WriteRejected, ProfileTypeOK
<1>10. CASE Stop
    BY <1>10 DEF Stop, ProfileTypeOK
<1>11. CASE Cancel
    <2>1. row' \in [Ips -> Rows] /\ ips' \in [Ips -> Marks]
        BY <1>11, EffectType DEF Cancel, ProfileTypeOK
    <2>2. NoRow \in Rows /\ lost' \in [Ips -> Causes]
        BY <1>11, LoseFacts, SomeCauses DEF Cancel, NoRow, Rows
    <2>. QED
        BY <1>11, <2>1, <2>2 DEF Cancel, FlushGone, ProfileTypeOK
<1>12. CASE FlushTimeout
    <2>1. row' \in [Ips -> Rows] /\ ips' \in [Ips -> Marks]
        BY <1>12, EffectType DEF FlushTimeout
    <2>2. NoRow \in Rows /\ lost' \in [Ips -> Causes]
        BY <1>12, LoseFacts, SomeCauses DEF FlushTimeout, NoRow, Rows
    <2>3. faults' \in 0 .. MaxFaults
        BY <1>12, ProfileAssumption DEF FlushTimeout, Fault, ProfileTypeOK
    <2>. QED
        BY <1>12, <2>1, <2>2, <2>3 DEF FlushTimeout, FlushGone, ProfileTypeOK
<1>13. CASE Exit
    BY <1>13, EndType DEF Exit, EndProcess, FlushGone, ProfileTypeOK
<1>14. CASE Kill
    <2>1. row' \in [Ips -> Rows] /\ ips' \in [Ips -> Marks]
        BY <1>14, EffectType DEF Kill, ProfileTypeOK
    <2>2. faults' \in 0 .. MaxFaults
        BY <1>14, ProfileAssumption DEF Kill, Fault, ProfileTypeOK
    <2>. QED
        BY <1>14, <2>1, <2>2, EndType DEF Kill, EndProcess, FlushGone, ProfileTypeOK
<1>15. CASE Boot
    BY <1>15 DEF Boot, ProfileTypeOK
<1>16. ASSUME GcState PROVE ProfileTypeOK'
    BY <1>4, <1>16 DEF GcState, Coldest
<1>. QED
    BY <1>1, <1>2, <1>3, <1>5, <1>6, <1>7, <1>8, <1>9, <1>10, <1>11, <1>12, <1>13, <1>14,
       <1>15, <1>16
    DEF ProfileNext, HandleEvent, Flush, Shutdown

\* Every variable stays in range and the memory within PROFILE_MAX_IPS, for any number of
\* addresses and any bounds (engine.py:55, "a hard ceiling").
THEOREM ProfileTypeCorrect == ProfileSpec => []ProfileTypeOK
BY InitType, StepType, PTL DEF ProfileSpec

-----------------------------------------------------------------------------
(* Nothing is lost sight of *)

\* What is due of an address in memory is the profile as it is, and what is dirty without
\* being in memory was given up; at the second statement of a write the row covers what
\* is being written.
InFlight ==
    /\ \A ip \in live : owed[ip] = Snapshot(profile[ip])
    /\ \A ip \in dirty \ live : lost[ip] # "none"
    /\ at = "mark" => Covers(row[target], snap)

TrackInv == ProfileTypeOK /\ InFlight /\ UnsavedTracked

\* What is saved stays saved when the tables are written.
LEMMA SavedKept ==
    ASSUME ProfileTypeOK, NEW ip \in Ips, Saved(ip), owed'[ip] = owed[ip],
           \/ UNCHANGED tables
           \/ at \in {"row", "mark"} /\ Effect
           \/ WriteRow
           \/ WriteMark
    PROVE  Saved(ip)'
<1>. DEFINE s == owed[ip]
<1>1. /\ row[ip] \in Rows /\ ips[ip] \in Marks /\ snap \in Rows /\ s \in Rows
      /\ Covers(row[ip], s) /\ ips[ip].score >= s.score /\ ips[ip].class >= s.class
    BY DEF ProfileTypeOK, Saved
<1>0. owed'[ip] = s
    OBVIOUS
<1>. HIDE DEF s
<1>5. \/ UNCHANGED tables
      \/ /\ target \in Ips
         /\ \E r \in Merged(row[target], snap) : row' = [row EXCEPT ![target] = r]
         /\ UNCHANGED ips
      \/ /\ target \in Ips
         /\ ips' = [ips EXCEPT ![target] = Marked(@, snap)]
         /\ UNCHANGED row
    BY DEF Effect, WriteRow, WriteMark, ProfileTypeOK
<1>2. CASE UNCHANGED tables
    BY <1>0, <1>1, <1>2 DEF tables, Saved
<1>3. ASSUME target \in Ips, NEW r \in Merged(row[target], snap),
             row' = [row EXCEPT ![target] = r], UNCHANGED ips
      PROVE  Saved(ip)'
    <2>1. Covers(row'[ip], s)
        <3>1. CASE ip = target
            <4>1. row'[ip] = r
                BY <1>3, <3>1 DEF ProfileTypeOK
            <4>. QED
                BY <1>1, <1>3, <3>1, <4>1, CoversTransitive
        <3>2. CASE ip # target
            BY <1>1, <1>3, <3>2 DEF ProfileTypeOK
        <3>. QED
            BY <3>1, <3>2
    <2>. QED
        BY <1>0, <1>1, <1>3, <2>1 DEF Saved
<1>4. ASSUME target \in Ips, ips' = [ips EXCEPT ![target] = Marked(@, snap)], UNCHANGED row
      PROVE  Saved(ip)'
    <2>1. ips'[ip].score >= ips[ip].score /\ ips'[ip].class >= ips[ip].class
          /\ ips'[ip] \in Marks
        <3>1. CASE ip = target
            <4>1. ips'[ip] = Marked(ips[ip], snap)
                BY <1>4, <3>1 DEF ProfileTypeOK
            <4>. QED
                BY <1>1, <4>1, MarkedType
        <3>2. CASE ip # target
            <4>1. ips'[ip] = ips[ip]
                BY <1>4, <3>2 DEF ProfileTypeOK
            <4>. QED
                BY <1>1, <4>1 DEF Marks
        <3>. QED
            BY <3>1, <3>2
    <2>2. ips'[ip].score >= s.score /\ ips'[ip].class >= s.class
        <3>1. /\ ips[ip].score \in Nat /\ ips[ip].class \in Nat
              /\ ips'[ip].score \in Nat /\ ips'[ip].class \in Nat
              /\ s.score \in Nat /\ s.class \in Nat
            BY <1>1, <2>1 DEF Marks, Rows
        <3>. QED
            BY <1>1, <2>1, <3>1
    <2>. QED
        BY <1>0, <1>1, <1>4, <2>2 DEF Saved
<1>. QED
    BY <1>2, <1>3, <1>4, <1>5

LEMMA InitTracked == ProfileInit => InFlight /\ UnsavedTracked
BY DEF ProfileInit, InFlight, UnsavedTracked, Saved, Covers, NoRow

\* A turn of the loop: the snapshot it takes is what is due; nothing it had is dropped
\* but addresses without a profile.
LEMMA LoopTracked ==
    ASSUME ProfileTypeOK, InFlight, NEW left \in SUBSET Ips, Loop(left)
    PROVE  /\ \A ip \in left \intersect live : ip \in rest' \/ (ip = target' /\ snap' = owed[ip])
           /\ at' # "mark"
BY DEF Loop, FlushGone, InFlight

\* What is on record, or under way and not disturbed, is so after a step.
LEMMA Undisturbed ==
    ASSUME TrackInv, NEW ip \in Ips,
           \/ UNCHANGED tables
           \/ at \in {"row", "mark"} /\ Effect
           \/ WriteRow
           \/ WriteMark,
           owed'[ip] = owed[ip],
           lost[ip] # "none" => lost'[ip] # "none",
           ip \in live \intersect (dirty \union rest) =>
               \/ ip \in live' \intersect (dirty' \union rest')
               \/ ip = target' /\ snap' = owed[ip]
               \/ lost'[ip] # "none",
           ip = target /\ snap = owed[ip] =>
               \/ Saved(ip)'
               \/ ip \in live' \intersect dirty'
               \/ ip = target' /\ snap' = owed[ip]
               \/ lost'[ip] # "none"
    PROVE  \/ Saved(ip)'
           \/ ip \in live' \intersect (dirty' \union rest')
           \/ ip = target' /\ snap' = owed'[ip]
           \/ lost'[ip] # "none"
<1>1. Saved(ip) => Saved(ip)'
    BY SavedKept DEF TrackInv
<1>2. \/ Saved(ip)
      \/ ip \in live \intersect (dirty \union rest)
      \/ ip = target /\ snap = owed[ip]
      \/ lost[ip] # "none"
    BY DEF TrackInv, UnsavedTracked
<1>. QED
    BY <1>1, <1>2

LEMMA StepTracked ==
    TrackInv /\ [ProfileNext]_storeVars => InFlight' /\ UnsavedTracked'
<1>. SUFFICES ASSUME TrackInv, [ProfileNext]_storeVars
              PROVE  InFlight' /\ UnsavedTracked'
    OBVIOUS
<1>. USE DEF tables, memory, flush, history
<1>0. ProfileTypeOK /\ InFlight /\ UnsavedTracked
    BY DEF TrackInv
<1>1. CASE UNCHANGED storeVars
    BY <1>0, <1>1 DEF storeVars, InFlight, UnsavedTracked, Saved, Covers
<1>2. ASSUME NEW ip \in Ips, NEW e \in Cmds \union {Login}, Receive(ip, e)
      PROVE  InFlight' /\ UnsavedTracked'
    BY <1>0, <1>2 DEF Receive, InFlight, UnsavedTracked, Saved, Covers
<1>3. CASE Fold
    <2>1. UNCHANGED <<row, ips, at, rest, target, snap>> /\ hand \in Ips
        BY <1>0, <1>3 DEF Fold, ProfileTypeOK
    <2>2. PICK gone \in Evictions(hand) :
              /\ live' = Left(gone) \union {hand}
              /\ profile' = [ip \in Ips |-> IF ip = hand THEN Update(profile[ip], event)
                                            ELSE IF ip \in gone THEN Fresh
                                            ELSE profile[ip]]
              /\ dirty' = (dirty \ gone) \union {hand}
              /\ lost' = [ip \in Ips |->
                             IF ip = hand THEN "none"
                             ELSE IF ip \in gone \intersect (dirty \union rest) THEN "gone"
                             ELSE lost[ip]]
        BY <1>3 DEF Fold
    <2>3. /\ owed'[hand] = Snapshot(profile'[hand])
          /\ \A ip \in Ips \ {hand} : owed'[ip] = owed[ip]
        BY <1>0, <1>3, <2>1 DEF Fold, ProfileTypeOK
    <2>4. InFlight'
        <3>1. ASSUME NEW ip \in live' PROVE owed'[ip] = Snapshot(profile'[ip])
            <4>1. CASE ip # hand
                <5>1. ip \in live /\ ip \in Ips /\ ip \notin gone
                    BY <1>0, <2>2, <3>1, <4>1 DEF Left, ProfileTypeOK
                <5>2. profile'[ip] = profile[ip] /\ owed'[ip] = owed[ip]
                    BY <2>2, <2>3, <4>1, <5>1
                <5>. QED
                    BY <1>0, <5>1, <5>2 DEF InFlight
            <4>. QED
                BY <2>3, <4>1
        <3>2. ASSUME NEW ip \in dirty' \ live' PROVE lost'[ip] # "none"
            <4>1. ip \in dirty /\ ip \notin gone /\ ip # hand /\ ip \in Ips
                BY <1>0, <2>2, <3>2 DEF Left, ProfileTypeOK
            <4>2. ip \notin live
                BY <2>2, <3>2, <4>1 DEF Left
            <4>. QED
                BY <1>0, <2>2, <4>1, <4>2 DEF InFlight
        <3>. QED
            BY <1>0, <2>1, <3>1, <3>2 DEF InFlight, Covers
    <2>5. ASSUME NEW ip \in Ips
          PROVE  \/ Saved(ip)'
                 \/ ip \in live' \intersect (dirty' \union rest')
                 \/ ip = target' /\ snap' = owed'[ip]
                 \/ lost'[ip] # "none"
        <3>1. CASE ip = hand
            BY <2>2, <3>1
        <3>2. CASE ip # hand
            <4>1. lost[ip] # "none" => lost'[ip] # "none"
                BY <2>2, <3>2
            <4>2. ip \in live \intersect (dirty \union rest) =>
                      \/ ip \in live' \intersect (dirty' \union rest')
                      \/ lost'[ip] # "none"
                BY <2>1, <2>2, <3>2 DEF Left
            <4>3. owed'[ip] = owed[ip] /\ UNCHANGED tables
                BY <2>1, <2>3, <3>2
            <4>. QED
                BY <2>1, <4>1, <4>2, <4>3, Undisturbed
        <3>. QED
            BY <3>1, <3>2
    <2>. QED
        BY <2>4, <2>5 DEF UnsavedTracked
<1>4. ASSUME NEW stale \in SUBSET live, Collect(stale)
      PROVE  InFlight' /\ UnsavedTracked'
    <2>1. /\ UNCHANGED <<row, ips, dirty, at, rest, target, snap, owed>>
          /\ live' = live \ stale
          /\ \A ip \in live' : profile'[ip] = profile[ip]
          /\ Lose(stale \intersect (dirty \union rest), "gone")
        BY <1>0, <1>4 DEF Collect, Left, ProfileTypeOK
    <2>3. \A ip \in Ips : ip \in stale \intersect (dirty \union rest) \/ lost[ip] # "none"
                             => lost'[ip] # "none"
        BY <1>0, <2>1, LoseFacts, SomeCauses
    <2>4. \A ip \in live' : owed'[ip] = Snapshot(profile'[ip])
        BY <1>0, <2>1 DEF InFlight
    <2>5. \A ip \in dirty' \ live' : lost'[ip] # "none"
        BY <1>0, <2>1, <2>3 DEF InFlight, ProfileTypeOK
    <2>2. InFlight'
        BY <1>0, <2>1, <2>4, <2>5 DEF InFlight, Covers
    <2>. QED
        BY <2>1, <2>2, <2>3, Undisturbed DEF UnsavedTracked
<1>5. CASE FlushStart
    <2>1. /\ UNCHANGED <<row, ips, profile, live, owed, lost>>
          /\ dirty \in SUBSET Ips /\ Loop(dirty) /\ dirty' = {}
          /\ target = NoIp /\ rest = {}
        BY <1>0, <1>5 DEF FlushStart, ProfileTypeOK
    <2>2. /\ \A ip \in dirty \intersect live : ip \in rest' \/ (ip = target' /\ snap' = owed[ip])
          /\ at' # "mark"
        BY <1>0, <2>1, LoopTracked
    <2>3. InFlight'
        BY <1>0, <2>1, <2>2 DEF InFlight
    <2>. QED
        BY <2>1, <2>2, <2>3, ProfileAssumption, Undisturbed DEF UnsavedTracked
<1>6. CASE WriteRow
    <2>1. PICK r \in Merged(row[target], snap) : row' = [row EXCEPT ![target] = r]
        BY <1>6 DEF WriteRow
    <2>2. /\ UNCHANGED <<profile, live, dirty, rest, target, snap, owed, lost>>
          /\ target \in Ips /\ row[target] \in Rows /\ snap \in Rows
        BY <1>0, <1>6 DEF WriteRow, ProfileTypeOK
    <2>3. Covers(row'[target], snap)
        BY <1>0, <2>1, <2>2, MergedRow DEF ProfileTypeOK
    <2>4. InFlight'
        BY <1>0, <2>2, <2>3 DEF InFlight
    <2>. QED
        BY <1>6, <2>2, <2>4, Undisturbed DEF UnsavedTracked
<1>7. CASE WriteMark
    <2>1. /\ UNCHANGED <<row, profile, live, dirty, owed, lost>>
          /\ rest \in SUBSET Ips /\ Loop(rest) /\ target \in Ips /\ at = "mark"
          /\ ips' = [ips EXCEPT ![target] = Marked(@, snap)]
        BY <1>0, <1>7 DEF WriteMark, ProfileTypeOK
    <2>2. /\ \A ip \in rest \intersect live : ip \in rest' \/ (ip = target' /\ snap' = owed[ip])
          /\ at' # "mark"
        BY <1>0, <2>1, LoopTracked
    <2>3. InFlight'
        BY <1>0, <2>1, <2>2 DEF InFlight
    <2>4. ASSUME NEW ip \in Ips, ip = target, snap = owed[ip] PROVE Saved(ip)'
        <3>1. Covers(row[ip], snap)
            BY <1>0, <2>1, <2>4 DEF InFlight
        <3>2. ips'[ip] = Marked(ips[ip], snap) /\ ips[ip] \in Marks /\ snap \in Rows
            BY <1>0, <2>1, <2>4 DEF ProfileTypeOK
        <3>3. ips'[ip].score >= snap.score /\ ips'[ip].class >= snap.class
            BY <3>2, MarkedType
        <3>4. Covers(row'[ip], owed'[ip]) /\ owed'[ip] = snap
            BY <2>1, <2>4, <3>1
        <3>. QED
            BY <3>3, <3>4 DEF Saved
    <2>5. ASSUME NEW ip \in Ips
          PROVE  \/ Saved(ip)'
                 \/ ip \in live' \intersect (dirty' \union rest')
                 \/ ip = target' /\ snap' = owed'[ip]
                 \/ lost'[ip] # "none"
        BY <1>7, <2>1, <2>2, <2>4, Undisturbed
    <2>. QED
        BY <2>3, <2>5 DEF UnsavedTracked
<1>8. CASE WriteFails \/ WriteRejected
    <2>1. /\ UNCHANGED <<profile, live, owed>>
          /\ rest \in SUBSET Ips /\ Loop(rest) /\ target \in Ips
          /\ (at \in {"row", "mark"} /\ Effect) \/ UNCHANGED tables
          /\ dirty \subseteq dirty'
        BY <1>0, <1>8 DEF WriteFails, WriteRejected, ProfileTypeOK
    <2>2. /\ \A ip \in rest \intersect live : ip \in rest' \/ (ip = target' /\ snap' = owed[ip])
          /\ at' # "mark"
        BY <1>0, <2>1, LoopTracked
    <2>4. /\ \A ip \in Ips : lost[ip] # "none" => lost'[ip] # "none"
          /\ target \in live' \intersect dirty' \/ lost'[target] # "none"
          /\ target \in dirty => target \in dirty'
        <3>1. CASE WriteFails
            BY <1>0, <2>1, <3>1, LoseFacts, SomeCauses DEF WriteFails
        <3>2. CASE WriteRejected
            <4>1. \A ip \in Ips : ip \in {target} \ dirty \/ lost[ip] # "none" => lost'[ip] # "none"
                BY <1>0, <3>2, LoseFacts, SomeCauses DEF WriteRejected
            <4>2. dirty' = dirty /\ live' = live
                BY <3>2 DEF WriteRejected
            <4>. QED
                BY <1>0, <2>1, <4>1, <4>2 DEF InFlight
        <3>. QED
            BY <1>8, <3>1, <3>2
    <2>3. InFlight'
        <3>1. ASSUME NEW ip \in dirty' \ live PROVE lost'[ip] # "none"
            <4>1. dirty' \subseteq dirty \union {target} /\ dirty \subseteq Ips
                BY <1>0, <1>8 DEF WriteFails, WriteRejected, ProfileTypeOK
            <4>2. ip \in dirty \/ ip = target
                BY <3>1, <4>1
            <4>3. ip \in dirty => lost[ip] # "none" /\ ip \in Ips
                BY <1>0, <3>1, <4>1 DEF InFlight
            <4>. QED
                BY <2>1, <2>4, <3>1, <4>2, <4>3
        <3>. QED
            BY <1>0, <2>1, <2>2, <3>1 DEF InFlight
    <2>. QED
        BY <2>1, <2>2, <2>3, <2>4, Undisturbed DEF UnsavedTracked
<1>9. CASE Stop
    BY <1>0, <1>9 DEF Stop, InFlight, UnsavedTracked, Saved, Covers
<1>10. CASE Cancel \/ FlushTimeout
    <2>1. /\ UNCHANGED <<profile, live, dirty, owed>>
          /\ UNCHANGED tables \/ (at \in {"row", "mark"} /\ Effect)
          /\ Lose(InHand \ dirty, "cut")
          /\ at' = "sleep"
        BY <1>10 DEF Cancel, FlushTimeout, FlushGone
    <2>3. \A ip \in Ips : ip \in InHand \ dirty \/ lost[ip] # "none" => lost'[ip] # "none"
        BY <1>0, <2>1, LoseFacts, SomeCauses
    <2>2. InFlight'
        <3>1. \A ip \in dirty \ live : lost'[ip] # "none"
            BY <1>0, <2>3 DEF InFlight, ProfileTypeOK
        <3>. QED
            BY <1>0, <2>1, <3>1 DEF InFlight
    <2>4. ASSUME NEW ip \in Ips, ip \in rest \/ ip = target
          PROVE  ip \in live' \intersect dirty' \/ lost'[ip] # "none"
        <3>1. ip \in InHand
            BY <2>4, ProfileAssumption DEF InHand
        <3>2. ip \in dirty \ live => lost[ip] # "none"
            BY <1>0 DEF InFlight
        <3>. QED
            BY <2>1, <2>3, <3>1, <3>2
    <2>. QED
        BY <2>1, <2>2, <2>3, <2>4, Undisturbed DEF UnsavedTracked
<1>11. CASE Exit \/ Kill
    <2>1. /\ UNCHANGED tables \/ (at \in {"row", "mark"} /\ Effect)
          /\ Lose(dirty \union InHand, "ended")
          /\ at' = "sleep" /\ live' = {} /\ dirty' = {} /\ owed' = owed
        BY <1>11 DEF Exit, Kill, EndProcess, FlushGone
    <2>2. InFlight'
        BY <2>1 DEF InFlight
    <2>3. \A ip \in Ips : ip \in dirty \union InHand \/ lost[ip] # "none" => lost'[ip] # "none"
        BY <1>0, <2>1, LoseFacts, SomeCauses
    <2>. QED
        BY <1>0, <2>1, <2>2, <2>3, ProfileAssumption, Undisturbed
        DEF UnsavedTracked, InHand
<1>12. CASE Boot
    BY <1>0, <1>12 DEF Boot, InFlight, UnsavedTracked, Saved, Covers
<1>13. ASSUME GcState PROVE InFlight' /\ UnsavedTracked'
    BY <1>4, <1>13 DEF GcState, Coldest
<1>. QED
    BY <1>1, <1>2, <1>3, <1>5, <1>6, <1>7, <1>8, <1>9, <1>10, <1>11, <1>12, <1>13
    DEF ProfileNext, HandleEvent, Flush, Shutdown

\* Whatever the order of events, evictions, failures and restarts: what the last event of
\* an address made of its profile is in the rows, in a dirty profile or in the snapshot
\* being written, or was given up for a cause that is on record (flush_profiles and
\* _evict_profiles in engine.py).
THEOREM NothingUntracked == ProfileSpec => []UnsavedTracked
<1>1. ProfileInit => TrackInv
    BY InitType, InitTracked DEF TrackInv
<1>2. TrackInv /\ [ProfileNext]_storeVars => TrackInv'
    BY StepType, StepTracked DEF TrackInv
<1>3. TrackInv => UnsavedTracked
    BY DEF TrackInv
<1>. QED
    BY <1>1, <1>2, <1>3, PTL DEF ProfileSpec

-----------------------------------------------------------------------------
(* ProfileStore implements ProfileLedger *)

\* Something said of an address is no more than its events said.
Within(cmds, logins, ip) == cmds \subseteq seen[ip].cmds /\ logins <= seen[ip].logins

\* Profiles, rows and the snapshot on its way between them say nothing else.
HonestInv ==
    /\ \A ip \in Ips : /\ Within(Typed(profile[ip]), profile[ip].logins, ip)
                       /\ Within(row[ip].cmds, row[ip].logins, ip)
    /\ target # NoIp => Within(snap.cmds, snap.logins, target)

LedgerInv == ProfileTypeOK /\ HonestInv

LEMMA TypedUpdate ==
    ASSUME NEW p \in Profiles, NEW e \in Cmds \union {Login}
    PROVE  /\ Typed(Update(p, e)) \subseteq IF e = Login THEN Typed(p) ELSE Typed(p) \union {e}
           /\ Update(p, e).logins = IF e = Login THEN p.logins + 1 ELSE p.logins
<1>. DEFINE grown == e # Login /\ e \notin Typed(p) /\ Len(p.cmds) < MemMax
<1>1. p.cmds \in Seq(Cmds) /\ Len(p.cmds) \in Nat
    BY DEF Profiles
<1>2. Update(p, e).cmds = p.cmds \/ (e # Login /\ Update(p, e).cmds = Append(p.cmds, e))
    BY DEF Update
<1>3. CASE Update(p, e).cmds = p.cmds
    BY <1>3 DEF Typed, Update
<1>4. CASE e # Login /\ Update(p, e).cmds = Append(p.cmds, e)
    <2>1. e \in Cmds
        BY <1>4
    <2>2. \A k \in 1 .. Len(Append(p.cmds, e)) :
             Append(p.cmds, e)[k] \in Typed(p) \union {e}
        BY <1>1, <2>1 DEF Typed
    <2>. QED
        BY <1>4, <2>2 DEF Typed, Update
<1>. QED
    BY <1>2, <1>3, <1>4

LEMMA SnapshotWithin ==
    ASSUME NEW p \in Profiles
    PROVE  Snapshot(p).cmds \subseteq Typed(p) /\ Snapshot(p).logins = p.logins
BY ProfileAssumption DEF Snapshot, Typed, Least, Profiles

\* A merge of the row with the snapshot in hand is a step the ledger allows.
LEMMA MergeWithin ==
    ASSUME LedgerInv, target \in Ips, NEW r \in Merged(row[target], snap)
    PROVE  Within(r.cmds, r.logins, target)
<1>1. row[target] \in Rows /\ snap \in Rows /\ target # NoIp
    BY ProfileAssumption DEF LedgerInv, ProfileTypeOK
<1>2. r.cmds \subseteq row[target].cmds \union snap.cmds /\ r.logins \in {row[target].logins, snap.logins}
    BY <1>1, MergedRow
<1>. QED
    BY <1>1, <1>2 DEF LedgerInv, HonestInv, Within

\* What a step does to the tables and to the history of events.
LEMMA Steps ==
    ASSUME ProfileTypeOK, [ProfileNext]_storeVars
    PROVE  \/ Fold
           \/ /\ seen' = seen
              /\ \/ row' = row
                 \/ /\ target \in Ips
                    /\ \E r \in Merged(row[target], snap) : row' = [row EXCEPT ![target] = r]
              /\ \A ip \in Ips : profile'[ip] \in {profile[ip], Fresh}
              /\ \/ target' = NoIp
                 \/ target' = target /\ snap' = snap
                 \/ target' \in Ips /\ snap' = Snapshot(profile[target'])
<1>. USE DEF tables, memory, flush, history
<1>1. ASSUME Effect, at \in {"row", "mark"}
      PROVE  /\ target \in Ips
             /\ \/ row' = row
                \/ \E r \in Merged(row[target], snap) : row' = [row EXCEPT ![target] = r]
    BY <1>1 DEF Effect, ProfileTypeOK
<1>2. ASSUME NEW left \in SUBSET Ips, Loop(left)
      PROVE  target' = NoIp \/ (target' \in Ips /\ snap' = Snapshot(profile[target']))
    BY <1>2 DEF Loop, FlushGone
<1>3. CASE UNCHANGED storeVars
    BY <1>3 DEF storeVars
<1>4. ASSUME NEW ip \in Ips, NEW e \in Cmds \union {Login}, Receive(ip, e)
      PROVE  UNCHANGED <<seen, row, profile, target, snap>>
    BY <1>4 DEF Receive
<1>5. ASSUME NEW stale \in SUBSET live, Collect(stale)
      PROVE  /\ UNCHANGED <<seen, row, target, snap>>
             /\ \A ip \in Ips : profile'[ip] \in {profile[ip], Fresh}
    BY <1>5 DEF Collect
<1>6. CASE FlushStart
    BY <1>2, <1>6 DEF FlushStart, ProfileTypeOK
<1>7. CASE WriteRow
    BY <1>7 DEF WriteRow, ProfileTypeOK
<1>8. CASE WriteMark
    BY <1>2, <1>8 DEF WriteMark, ProfileTypeOK
<1>9. CASE WriteFails
    BY <1>1, <1>2, <1>9 DEF WriteFails, ProfileTypeOK
<1>10. CASE WriteRejected
    BY <1>2, <1>10 DEF WriteRejected, ProfileTypeOK
<1>11. CASE Stop \/ Boot
    BY <1>11 DEF Stop, Boot
<1>12. CASE Cancel
    BY <1>1, <1>12 DEF Cancel, FlushGone
<1>13. CASE FlushTimeout
    BY <1>1, <1>13 DEF FlushTimeout, FlushGone
<1>14. CASE Exit
    BY <1>14 DEF Exit, EndProcess, FlushGone
<1>15. CASE Kill
    BY <1>1, <1>15 DEF Kill, EndProcess, FlushGone
<1>16. CASE GcState
    BY <1>5, <1>16 DEF GcState, Coldest
<1>. QED
    BY <1>3, <1>4, <1>6, <1>7, <1>8, <1>9, <1>10, <1>11, <1>12, <1>13, <1>14, <1>15, <1>16
    DEF ProfileNext, HandleEvent, Flush, Shutdown

\* An event is remembered in the history of its address.
LEMMA FoldSeen ==
    ASSUME ProfileTypeOK, Fold
    PROVE  /\ hand \in Ips /\ event \in Cmds \union {Login}
           /\ seen' \in [Ips -> [cmds : SUBSET Cmds, logins : Nat]]
           /\ seen'[hand] = Remembered(seen[hand], event)
           /\ \A ip \in Ips \ {hand} : seen'[ip] = seen[ip]
           /\ \A ip \in Ips : /\ seen[ip].cmds \subseteq seen'[ip].cmds
                              /\ seen[ip].logins <= seen'[ip].logins
           /\ profile'[hand] = Update(profile[hand], event)
           /\ \A ip \in Ips \ {hand} : profile'[ip] \in {profile[ip], Fresh}
           /\ UNCHANGED <<row, target, snap>>
<1>1. hand \in Ips /\ event \in Cmds \union {Login}
    BY DEF Fold, ProfileTypeOK
<1>2. seen' = [seen EXCEPT ![hand] = Remembered(seen[hand], event)]
    BY DEF Fold
<1>3. Remembered(seen[hand], event) \in [cmds : SUBSET Cmds, logins : Nat]
    BY <1>1 DEF Remembered, ProfileTypeOK
<1>4. /\ seen[hand].cmds \subseteq Remembered(seen[hand], event).cmds
      /\ seen[hand].logins <= Remembered(seen[hand], event).logins
    BY <1>1 DEF Remembered, ProfileTypeOK
<1>5. /\ seen'[hand] = Remembered(seen[hand], event)
      /\ \A ip \in Ips \ {hand} : seen'[ip] = seen[ip]
    BY <1>1, <1>2 DEF ProfileTypeOK
<1>6. \A ip \in Ips : seen[ip].cmds \subseteq seen'[ip].cmds /\ seen[ip].logins <= seen'[ip].logins
    BY <1>4, <1>5 DEF ProfileTypeOK
<1>7. /\ profile'[hand] = Update(profile[hand], event)
      /\ \A ip \in Ips \ {hand} : profile'[ip] \in {profile[ip], Fresh}
    BY <1>1 DEF Fold
<1>. QED
    BY <1>1, <1>2, <1>3, <1>5, <1>6, <1>7 DEF Fold, tables, flush, ProfileTypeOK

LEMMA FreshWithin ==
    ASSUME ProfileTypeOK, NEW ip \in Ips
    PROVE  Within(Typed(Fresh), Fresh.logins, ip)
BY DEF Within, Typed, Fresh, ProfileTypeOK

LEMMA StepHonest == LedgerInv /\ [ProfileNext]_storeVars => HonestInv'
<1>. SUFFICES ASSUME LedgerInv, [ProfileNext]_storeVars PROVE HonestInv'
    OBVIOUS
<1>0. ProfileTypeOK /\ HonestInv
    BY DEF LedgerInv
<1>1. CASE Fold
    <2>1. ASSUME NEW ip \in Ips, NEW r \in Rows, Within(r.cmds, r.logins, ip)
          PROVE  r.cmds \subseteq seen'[ip].cmds /\ r.logins <= seen'[ip].logins
        <3>1. /\ seen[ip].logins \in Nat /\ seen'[ip].logins \in Nat /\ r.logins \in Nat
              /\ seen[ip].cmds \subseteq seen'[ip].cmds /\ seen[ip].logins <= seen'[ip].logins
            BY <1>0, <1>1, FoldSeen DEF ProfileTypeOK, Rows
        <3>. QED
            BY <2>1, <3>1 DEF Within
    <2>2. ASSUME NEW ip \in Ips PROVE Within(row[ip].cmds, row[ip].logins, ip)'
        <3>1. row'[ip] = row[ip] /\ row[ip] \in Rows
            BY <1>0, <1>1, FoldSeen DEF ProfileTypeOK
        <3>2. Within(row[ip].cmds, row[ip].logins, ip)
            BY <1>0 DEF HonestInv
        <3>. QED
            BY <2>1, <3>1, <3>2 DEF Within
    <2>3. target' # NoIp => Within(snap.cmds, snap.logins, target)'
        <3>. SUFFICES ASSUME target' # NoIp
                      PROVE  snap'.cmds \subseteq seen'[target'].cmds
                             /\ snap'.logins <= seen'[target'].logins
            BY DEF Within
        <3>1. target' = target /\ target \in Ips /\ snap' = snap /\ snap \in Rows
            BY <1>0, <1>1, FoldSeen DEF ProfileTypeOK
        <3>2. Within(snap.cmds, snap.logins, target)
            BY <1>0, <3>1 DEF HonestInv
        <3>. QED
            BY <2>1, <3>1, <3>2
    <2>5. ASSUME NEW ip \in Ips PROVE Within(Typed(profile[ip]), profile[ip].logins, ip)'
        <3>1. CASE ip = hand
            <4>1. profile[ip] \in Profiles /\ event \in Cmds \union {Login}
                BY <1>0, <1>1, FoldSeen DEF ProfileTypeOK
            <4>2. /\ Typed(profile'[ip]) \subseteq
                         IF event = Login THEN Typed(profile[ip]) ELSE Typed(profile[ip]) \union {event}
                  /\ profile'[ip].logins = IF event = Login THEN profile[ip].logins + 1
                                           ELSE profile[ip].logins
                BY <1>0, <1>1, <3>1, <4>1, FoldSeen, TypedUpdate
            <4>3. Within(Typed(profile[ip]), profile[ip].logins, ip)
                BY <1>0 DEF HonestInv
            <4>4. profile[ip].logins \in Nat /\ seen[ip].logins \in Nat
                BY <1>0, <4>1 DEF Profiles, ProfileTypeOK
            <4>5. /\ seen'[ip].cmds = IF event = Login THEN seen[ip].cmds
                                      ELSE seen[ip].cmds \union {event}
                  /\ seen'[ip].logins = IF event = Login THEN seen[ip].logins + 1
                                        ELSE seen[ip].logins
                BY <1>0, <1>1, <3>1, FoldSeen DEF Remembered
            <4>. QED
                BY <4>2, <4>3, <4>4, <4>5 DEF Within
        <3>2. CASE ip # hand
            <4>1. profile'[ip] \in {profile[ip], Fresh} /\ seen'[ip] = seen[ip]
                BY <1>0, <1>1, <3>2, FoldSeen
            <4>. QED
                BY <1>0, <4>1, FreshWithin DEF HonestInv, Within
        <3>. QED
            BY <3>1, <3>2
    <2>. QED
        BY <2>2, <2>3, <2>5 DEF HonestInv
<1>2. CASE ~Fold
    <2>1. /\ seen' = seen
          /\ \/ row' = row
             \/ /\ target \in Ips
                /\ \E r \in Merged(row[target], snap) : row' = [row EXCEPT ![target] = r]
          /\ \A ip \in Ips : profile'[ip] \in {profile[ip], Fresh}
          /\ \/ target' = NoIp
             \/ target' = target /\ snap' = snap
             \/ target' \in Ips /\ snap' = Snapshot(profile[target'])
        BY <1>0, <1>2, Steps
    <2>2. ASSUME NEW ip \in Ips PROVE Within(Typed(profile[ip]), profile[ip].logins, ip)'
        BY <1>0, <2>1, FreshWithin DEF HonestInv, Within
    <2>3. ASSUME NEW ip \in Ips PROVE Within(row[ip].cmds, row[ip].logins, ip)'
        <3>1. CASE row' = row
            BY <1>0, <2>1, <3>1 DEF HonestInv, Within
        <3>2. ASSUME target \in Ips, NEW r \in Merged(row[target], snap),
                     row' = [row EXCEPT ![target] = r]
              PROVE  Within(row[ip].cmds, row[ip].logins, ip)'
            <4>1. Within(r.cmds, r.logins, target)
                BY <3>2, MergeWithin
            <4>2. row'[ip] = IF ip = target THEN r ELSE row[ip]
                BY <1>0, <3>2 DEF ProfileTypeOK
            <4>. QED
                BY <1>0, <2>1, <4>1, <4>2 DEF HonestInv, Within
        <3>. QED
            BY <2>1, <3>1, <3>2
    <2>4. target' # NoIp => Within(snap.cmds, snap.logins, target)'
        <3>1. CASE target' = target /\ snap' = snap
            BY <1>0, <2>1, <3>1 DEF HonestInv, Within
        <3>2. CASE target' \in Ips /\ snap' = Snapshot(profile[target'])
            <4>1. profile[target'] \in Profiles
                BY <1>0, <3>2 DEF ProfileTypeOK
            <4>2. Within(Typed(profile[target']), profile[target'].logins, target')
                BY <1>0, <3>2 DEF HonestInv
            <4>. QED
                BY <2>1, <3>2, <4>1, <4>2, SnapshotWithin DEF Within
        <3>. QED
            BY <2>1, <3>1, <3>2
    <2>. QED
        BY <2>2, <2>3, <2>4 DEF HonestInv
<1>. QED
    BY <1>1, <1>2

\* The ledger counts as the store does.
LEMMA SameCardinality == \A S : Ledger!Cardinality(S) = Cardinality(S)
BY DEF Ledger!Cardinality, Cardinality, Ledger!IsFiniteSet, IsFiniteSet

LEMMA StepLedger ==
    LedgerInv /\ [ProfileNext]_storeVars => [Ledger!LedgerNext]_<<seen, row>>
<1>. SUFFICES ASSUME LedgerInv, [ProfileNext]_storeVars, ~UNCHANGED <<seen, row>>
              PROVE  Ledger!LedgerNext
    OBVIOUS
<1>0. ProfileTypeOK /\ HonestInv
    BY DEF LedgerInv
<1>1. CASE Fold
    <2>1. hand \in Ips /\ row' = row /\ seen' # seen
        BY <1>0, <1>1, FoldSeen
    <2>2. Ledger!Seen(hand)
        BY <1>0, <1>1, <2>1, FoldSeen DEF Ledger!Seen
    <2>. QED
        BY <2>1, <2>2 DEF Ledger!LedgerNext
<1>2. CASE ~Fold
    <2>1. /\ seen' = seen /\ row' # row /\ target \in Ips
          /\ \E r \in Merged(row[target], snap) : row' = [row EXCEPT ![target] = r]
        BY <1>0, <1>2, Steps
    <2>2. PICK r \in Merged(row[target], snap) : row' = [row EXCEPT ![target] = r]
        BY <2>1
    <2>3. PICK ip \in Ips : ip = target
        BY <2>1
    <2>4. row[ip] \in Rows /\ snap \in Rows /\ row'[ip] = r /\ r \in Merged(row[ip], snap)
        BY <1>0, <2>2, <2>3 DEF ProfileTypeOK
    <2>5. Covers(r, row[ip])
        BY <2>4, MergedRow
    <2>6. Ledger!Grows(row[ip], row'[ip])
        BY <2>4, <2>5, SameCardinality DEF Covers, Ledger!Grows
    <2>7. Within(r.cmds, r.logins, ip)
        BY <2>1, <2>3, MergeWithin
    <2>8. Ledger!Honest(ip)'
        BY <2>1, <2>4, <2>7 DEF Within, Ledger!Honest
    <2>9. \A other \in Ips \ {ip} : row'[other] = row[other]
        BY <1>0, <2>2, <2>3 DEF ProfileTypeOK
    <2>. QED
        BY <2>1, <2>6, <2>8, <2>9 DEF Ledger!LedgerNext, Ledger!Written
<1>. QED
    BY <1>1, <1>2

\* Rows only grow and say no more than the events did, for any number of addresses, whatever
\* is retried, merged across restarts or applied without an answer (persist_profile,
\* engine.py:192-232).
THEOREM ProfileLedgerImplemented == ProfileSpec => ProfileLedgerKept
<1>1. ProfileInit => LedgerInv /\ Ledger!LedgerInit
    <2>. SUFFICES ASSUME ProfileInit PROVE HonestInv /\ Ledger!LedgerInit
        BY InitType DEF LedgerInv
    <2>1. HonestInv
        BY DEF ProfileInit, HonestInv, Within, Typed, Fresh, NoRow
    <2>2. Ledger!LedgerInit
        BY DEF ProfileInit, NoRow, Ledger!LedgerInit
    <2>. QED
        BY <2>1, <2>2
<1>2. LedgerInv /\ [ProfileNext]_storeVars => LedgerInv'
    BY StepType, StepHonest DEF LedgerInv
<1>. QED
    BY <1>1, <1>2, StepLedger, PTL DEF ProfileSpec, ProfileLedgerKept, Ledger!LedgerSpec
==============================================================================
