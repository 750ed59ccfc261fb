---------------------------- MODULE Feeds_proofs ----------------------------
(***************************************************************************)
(* Proofs about Feeds, for any feeds in any order of priority, copies of   *)
(* any size, and any number of versions and faults.                        *)
(***************************************************************************)
EXTENDS Feeds, TLAPS, SequenceTheorems

-----------------------------------------------------------------------------
(* The round of the loop *)

LEMMA OrderFacts ==
    /\ Order \in Seq(Active) /\ Order # <<>>
    /\ Active \subseteq Feeds
<1>1. Order \in Seq(Feeds) /\ Order # <<>>
  BY FeedAssumption
<1>2. \A k \in 1 .. Len(Order) : Order[k] \in Active /\ Order[k] \in Feeds
  BY <1>1 DEF Active
<1>3. Order \in Seq(Active)
  BY <1>1, <1>2
<1> QED
  BY <1>1, <1>2, <1>3 DEF Active

\* While a round is under way there is a feed at hand.
LEMMA FeedAtHand ==
    ASSUME FeedTypeOK, at \notin {"down", "sleep"}
    PROVE  /\ Feed \in Feeds
           /\ Tail(left) \in Seq(Active)
           /\ Len(left) > 1 => Tail(left) # <<>>
<1>1. left \in Seq(Active) /\ left # <<>>
  BY DEF FeedTypeOK
<1>2. Len(left) \in Nat \ {0} /\ Head(left) \in Active
  BY <1>1
<1>3. Tail(left) \in Seq(Active) /\ Len(Tail(left)) = Len(left) - 1
  BY <1>1
<1>4. Len(left) > 1 => Len(Tail(left)) # 0
  BY <1>2, <1>3
<1>5. Len(<<>>) = 0
  OBVIOUS
<1> QED
  BY <1>2, <1>3, <1>4, <1>5, OrderFacts DEF Feed

\* Onward finds the next feed, the next phase, or the end of the round.
LEMMA OnwardFacts ==
    ASSUME FeedTypeOK, at \notin {"down", "sleep"},
           NEW phase \in {"load", "fetch"}, Onward(phase)
    PROVE  /\ at' \in {"load", "fetch", "sleep"}
           /\ left' \in Seq(Active)
           /\ left' = <<>> <=> at' \in {"down", "sleep"}
<1>1. <<>> \in Seq(Active)
  BY EmptySeq
<1> QED
  BY <1>1, FeedAtHand, OrderFacts DEF Onward

-----------------------------------------------------------------------------
(* Files *)

LEMMA NewInodeFacts ==
    ASSUME NEW f \in Files
    PROVE  NewInode(f) \in Inodes /\ NewInode(f) \notin {disk[f], reader[f].inode}
<1> DEFINE a == disk[f]
           b == reader[f].inode
<1>1. \E i \in Inodes : i \notin {a, b}
  <2>1. 1 \in Inodes /\ 2 \in Inodes /\ 3 \in Inodes
    BY DEF Inodes
  <2>2. 1 # 2 /\ 2 # 3 /\ 1 # 3
    OBVIOUS
  <2> HIDE DEF a, b
  <2> QED
    BY <2>1, <2>2
<1> QED
  BY <1>1 DEF NewInode

\* Writing one file leaves the others alone, and what its reader has mapped unless
\* that is what is written.
LEMMA WrittenFacts ==
    ASSUME FeedTypeOK, NEW f \in Files, NEW i \in Inodes,
           NEW v \in Versions \union {Torn}, Written(f, i, v)
    PROVE  /\ disk' \in [Files -> Inodes \union {NoInode}]
           /\ data' \in [Files -> [Inodes -> Versions \union {Torn}]]
           /\ \A g \in Files : g # f => data'[g] = data[g]
           /\ i # reader[f].inode /\ reader[f].inode \in Inodes =>
                  data'[f][reader[f].inode] = data[f][reader[f].inode]
<1>1. /\ disk \in [Files -> Inodes \union {NoInode}]
      /\ data \in [Files -> [Inodes -> Versions \union {Torn}]]
  BY DEF FeedTypeOK
<1>2. data' = [data EXCEPT ![f] = [j \in Inodes |-> IF j = i THEN v
                                                    ELSE IF j = reader[f].inode THEN data[f][j]
                                                    ELSE Torn]]
      /\ disk' = [disk EXCEPT ![f] = i]
  BY DEF Written
<1>3. [j \in Inodes |-> IF j = i THEN v
                        ELSE IF j = reader[f].inode THEN data[f][j]
                        ELSE Torn] \in [Inodes -> Versions \union {Torn}]
  BY <1>1
<1> QED
  BY <1>1, <1>2, <1>3

LEMMA ExtractedFacts ==
    ASSUME FeedTypeOK, NEW f \in Files, NEW v \in Versions \union {Torn}, Extracted(f, v)
    PROVE  /\ disk' \in [Files -> Inodes \union {NoInode}]
           /\ data' \in [Files -> [Inodes -> Versions \union {Torn}]]
           /\ \A g \in Files : g # f => data'[g] = data[g]
<1>1. (IF disk[f] = NoInode THEN NewInode(f) ELSE disk[f]) \in Inodes
  BY NewInodeFacts DEF FeedTypeOK
<1> QED
  BY <1>1, WrittenFacts DEF Extracted

\* A reader that is opened is made for what its file holds; the others stay.
LEMMA OpenedFacts ==
    ASSUME FeedTypeOK, NEW F \in SUBSET Files, Opened(F),
           disk' \in [Files -> Inodes \union {NoInode}],
           data' \in [Files -> [Inodes -> Versions \union {Torn}]]
    PROVE  /\ reader' \in [Files -> [inode : Inodes, version : Versions] \union {Closed}]
           /\ \A f \in Files :
                  \/ reader'[f] = reader[f]
                  \/ /\ reader'[f].inode \in Inodes
                     /\ data'[f][reader'[f].inode] = reader'[f].version
<1>1. reader' = [f \in Files |-> IF f \in F /\ Openable(f)' THEN ReaderOf(f)' ELSE reader[f]]
  BY DEF Opened
<1>2. ASSUME NEW f \in Files, Openable(f)'
      PROVE  /\ ReaderOf(f)' \in [inode : Inodes, version : Versions]
             /\ ReaderOf(f)'.inode = disk'[f]
             /\ ReaderOf(f)'.version = data'[f][disk'[f]]
  <2>1. disk'[f] \in Inodes /\ data'[f][disk'[f]] \in Versions
    BY <1>2 DEF Openable
  <2> QED
    BY <2>1 DEF ReaderOf
<1>3. reader \in [Files -> [inode : Inodes, version : Versions] \union {Closed}]
  BY DEF FeedTypeOK
<1> QED
  BY <1>1, <1>2, <1>3

-----------------------------------------------------------------------------
(* Copies of the blocklists *)

LEMMA CopyFacts ==
    ASSUME NEW v \in 0 .. MaxVersion
    PROVE  /\ Copy(v) \in SUBSET Rows
           /\ \A w \in 0 .. MaxVersion : Copy(v) = Copy(w) => v = w
<1>1. Chunks \in Nat \ {0} /\ MaxVersion \in Nat
  BY FeedAssumption
<1>2. Copy(v) \in SUBSET Rows
  BY <1>1 DEF Copy, Rows, Versions
<1>3. ASSUME NEW w \in 0 .. MaxVersion, Copy(v) = Copy(w) PROVE v = w
  <2>1. \A u \in 0 .. MaxVersion : u # 0 => <<u, 1>> \in Copy(u)
    BY <1>1 DEF Copy
  <2>2. \A u \in 0 .. MaxVersion : \A x \in Nat : <<x, 1>> \in Copy(u) => x = u
    BY DEF Copy
  <2>3. CASE v # 0
    <3>1. <<v, 1>> \in Copy(w)
      BY <1>3, <2>1, <2>3
    <3>2. v \in Nat
      OBVIOUS
    <3> QED
      BY <2>2, <3>1, <3>2
  <2>4. CASE v = 0
    <3>1. Copy(v) = {}
      BY <2>4 DEF Copy
    <3> QED
      BY <1>3, <2>1, <2>4, <3>1
  <2> QED
    BY <2>3, <2>4
<1> QED
  BY <1>2, <1>3

\* Table and index of f hold whole published copies, the index no newer one.
Backed(f) == \E v \in 0 .. upstream : \E w \in 0 .. v :
                 table[f] = Copy(v) /\ index[f] = Copy(w)

\* A refresh is of a blocklist, and of a version no older than the stored one; when
\* that is stored, the new copy is what the table holds.
FeedInv ==
    /\ FeedTypeOK
    /\ \A f \in Bulk : Backed(f)
    /\ at \in {"store", "swap"} => Feed \in Bulk /\ version <= upstream
    /\ at = "store" => \E v \in 0 .. version : table[Feed] = Copy(v)
    /\ at = "swap" => table[Feed] = Copy(version)
    /\ IPinfoIntact

LEMMA FeedInitOK == FeedInit => FeedInv
<1> SUFFICES ASSUME FeedInit PROVE FeedInv
  OBVIOUS
<1>1. MaxVersion \in Nat /\ MaxFaults \in Nat
  BY FeedAssumption
<1>2. left \in Seq(Active) /\ (left = <<>> <=> at \in {"down", "sleep"})
  BY EmptySeq DEF FeedInit
<1>3. Copy(0) = {} /\ 0 \in 0 .. MaxVersion
  BY <1>1 DEF Copy
<1>4. FeedTypeOK
  <2>1. /\ table \in [Bulk -> SUBSET Rows] /\ index \in [Bulk -> SUBSET Rows]
        /\ disk \in [Files -> Inodes \union {NoInode}]
        /\ data \in [Files -> [Inodes -> Versions \union {Torn}]]
        /\ reader \in [Files -> [inode : Inodes, version : Versions] \union {Closed}]
    BY DEF FeedInit
  <2>2. upstream \in 0 .. MaxVersion /\ version \in 0 .. MaxVersion /\ faults \in 0 .. MaxFaults
    BY <1>1 DEF FeedInit
  <2> QED
    BY <1>2, <2>1, <2>2 DEF FeedInit, FeedTypeOK
<1>5. \A f \in Bulk : Backed(f)
  <2>1. 0 \in 0 .. upstream /\ 0 \in 0 .. 0
    BY DEF FeedInit
  <2> QED
    BY <1>3, <2>1 DEF FeedInit, Backed
<1>6. IPinfoIntact
  BY DEF FeedInit, IPinfoIntact, Intact, Files
<1> QED
  BY <1>4, <1>5, <1>6 DEF FeedInv, FeedInit

\* Where neither table nor index change, the copies stay backed while the publishers
\* go on.
LEMMA StaysBacked ==
    ASSUME FeedInv, UNCHANGED <<table, index>>, upstream' \in Nat, upstream <= upstream'
    PROVE  \A f \in Bulk : Backed(f)'
<1>1. upstream \in Nat
  BY DEF FeedInv, FeedTypeOK
<1> SUFFICES ASSUME NEW f \in Bulk PROVE Backed(f)'
  OBVIOUS
<1>2. PICK v \in 0 .. upstream : \E w \in 0 .. v : table[f] = Copy(v) /\ index[f] = Copy(w)
  BY DEF FeedInv, Backed
<1>3. v \in 0 .. upstream'
  BY <1>1
<1> QED
  BY <1>2, <1>3 DEF Backed

\* IPinfo's reader is safe when its file is left alone, or when what it has mapped is.
LEMMA StaysIntact ==
    ASSUME FeedInv,
           reader["ipinfo-lite"].inode \in Inodes =>
               data'["ipinfo-lite"][reader["ipinfo-lite"].inode]
                   = data["ipinfo-lite"][reader["ipinfo-lite"].inode],
           \/ reader'["ipinfo-lite"] \in {reader["ipinfo-lite"], Closed}
           \/ data'["ipinfo-lite"][reader'["ipinfo-lite"].inode]
                  = reader'["ipinfo-lite"].version
    PROVE  IPinfoIntact'
<1>1. reader["ipinfo-lite"] # Closed => reader["ipinfo-lite"].inode \in Inodes
  BY DEF FeedInv, FeedTypeOK, Files
<1>2. reader["ipinfo-lite"] # Closed =>
          data["ipinfo-lite"][reader["ipinfo-lite"].inode] = reader["ipinfo-lite"].version
  BY DEF FeedInv, IPinfoIntact, Intact
<1> QED
  BY <1>1, <1>2 DEF IPinfoIntact, Intact

-----------------------------------------------------------------------------
(* One step of the loop *)

\* The end of the visit to a feed: no refresh is under way.
LEMMA BetweenFeeds ==
    ASSUME FeedInv, at \notin {"down", "sleep"},
           Onward("load") \/ Onward("fetch")
    PROVE  /\ at' \in {"load", "fetch", "sleep"}
           /\ left' \in Seq(Active) /\ (left' = <<>> <=> at' \in {"down", "sleep"})
  BY OnwardFacts DEF FeedInv

LEMMA LoadStep ==
    ASSUME FeedInv, Load \/ LoadFails
    PROVE  FeedInv'
<1>1. /\ UNCHANGED <<upstream, table, disk, data, aged, version, txn>>
      /\ Onward("load") /\ at = "load"
      /\ faults' \in 0 .. MaxFaults
  BY FeedAssumption DEF Load, LoadFails, onDisk, Fault, FeedInv, FeedTypeOK
<1>2. /\ at' \in {"load", "fetch", "sleep"}
      /\ left' \in Seq(Active) /\ (left' = <<>> <=> at' \in {"down", "sleep"})
  BY <1>1, BetweenFeeds
<1>3. /\ index \in [Bulk -> SUBSET Rows] /\ table \in [Bulk -> SUBSET Rows]
      /\ upstream \in 0 .. MaxVersion
  BY DEF FeedInv, FeedTypeOK
<1>4. /\ reader' \in [Files -> [inode : Inodes, version : Versions] \union {Closed}]
      /\ IPinfoIntact'
  <2>1. CASE Load
    <3>1. FilesOf(Feed) \in SUBSET Files /\ "ipinfo-lite" \in Files
      BY DEF FilesOf, Edition, Files
    <3>2. /\ reader' \in [Files -> [inode : Inodes, version : Versions] \union {Closed}]
          /\ \/ reader'["ipinfo-lite"] = reader["ipinfo-lite"]
             \/ data'["ipinfo-lite"][reader'["ipinfo-lite"].inode]
                    = reader'["ipinfo-lite"].version
      BY <1>1, <2>1, <3>1, OpenedFacts DEF Load, FeedInv, FeedTypeOK
    <3> QED
      BY <1>1, <3>2, StaysIntact
  <2>2. CASE LoadFails
    BY <1>1, <2>2, StaysIntact DEF LoadFails, inMemory, FeedInv, FeedTypeOK
  <2> QED
    BY <2>1, <2>2
<1>5. index' = index \/ (Feed \in Bulk /\ index' = [index EXCEPT ![Feed] = table[Feed]])
  BY DEF Load, LoadFails, inMemory
<1>6. index' \in [Bulk -> SUBSET Rows]
  BY <1>3, <1>5
<1>7. ASSUME NEW f \in Bulk PROVE Backed(f)'
  <2>1. PICK v \in 0 .. upstream : \E w \in 0 .. v : table[f] = Copy(v) /\ index[f] = Copy(w)
    BY DEF FeedInv, Backed
  <2>2. index'[f] = index[f] \/ index'[f] = table[f]
    BY <1>3, <1>5
  <2>3. v \in 0 .. v
    BY <1>3
  <2> QED
    BY <1>1, <2>1, <2>2, <2>3 DEF Backed
<1>8. FeedTypeOK'
  BY <1>1, <1>2, <1>4, <1>6 DEF FeedInv, FeedTypeOK
<1> QED
  BY <1>2, <1>4, <1>7, <1>8 DEF FeedInv

LEMMA BulkStep ==
    ASSUME FeedInv,
           \/ FetchFeodo \/ FetchThreatFox \/ FetchCrowdSec
           \/ Insert \/ Commit \/ Swap
    PROVE  FeedInv'
<1>1. /\ upstream \in 0 .. MaxVersion /\ version \in 0 .. MaxVersion
      /\ table \in [Bulk -> SUBSET Rows] /\ index \in [Bulk -> SUBSET Rows]
      /\ Copy(version) \in SUBSET Rows
  BY CopyFacts DEF FeedInv, FeedTypeOK
<1>2. UNCHANGED <<upstream, disk, data, aged, reader, faults>>
  BY DEF FetchFeodo, FetchThreatFox, FetchCrowdSec, Fetched, Insert, Commit, Swap,
         onDisk, inMemory
<1>3. IPinfoIntact'
  BY <1>2, StaysIntact
<1>4. CASE FetchFeodo \/ FetchThreatFox \/ FetchCrowdSec
  <2>1. /\ at = "fetch" /\ Feed \in Bulk /\ version' = upstream /\ txn' = {}
        /\ at' = "store" /\ UNCHANGED <<table, index, left>>
    BY <1>4 DEF FetchFeodo, FetchThreatFox, FetchCrowdSec, Fetched, Bulk, onDisk, inMemory
  <2>2. FeedTypeOK'
    BY <1>1, <1>2, <2>1 DEF FeedInv, FeedTypeOK
  <2>3. \A f \in Bulk : Backed(f)'
    BY <1>1, <1>2, <2>1, StaysBacked
  <2>4. Feed' = Feed
    BY <2>1 DEF Feed
  <2>5. \E v \in 0 .. version' : table'[Feed'] = Copy(v)
    BY <2>1, <2>4 DEF FeedInv, Backed
  <2>6. version' <= upstream'
    BY <1>1, <1>2, <2>1
  <2> QED
    BY <1>3, <2>1, <2>2, <2>3, <2>4, <2>5, <2>6 DEF FeedInv
<1>5. CASE Insert
  <2>1. /\ at = "store" /\ UNCHANGED <<table, index, at, left, version>>
        /\ txn' \subseteq Copy(version)
    BY <1>5 DEF Insert, Unseen, inMemory, FeedInv, FeedTypeOK
  <2>2. Copy(version)' = Copy(version) /\ Feed' = Feed
    BY <2>1 DEF Copy, Feed
  <2>3. FeedTypeOK'
    BY <1>2, <2>1, <2>2 DEF FeedInv, FeedTypeOK
  <2>4. \A f \in Bulk : Backed(f)'
    BY <1>1, <1>2, <2>1, StaysBacked
  <2> QED
    BY <1>2, <1>3, <2>1, <2>2, <2>3, <2>4 DEF FeedInv
<1>6. CASE Commit
  <2>1. /\ at = "store" /\ at' = "swap" /\ UNCHANGED <<index, left, version, txn>>
        /\ table' = [table EXCEPT ![Feed] = Copy(version)]
    BY <1>6 DEF Commit, inMemory
  <2>2. Copy(version)' = Copy(version) /\ Feed' = Feed
    BY <2>1 DEF Copy, Feed
  <2>3. table' \in [Bulk -> SUBSET Rows]
    BY <1>1, <2>1
  <2>4. FeedTypeOK'
    BY <1>2, <2>1, <2>2, <2>3 DEF FeedInv, FeedTypeOK
  <2>5. ASSUME NEW f \in Bulk PROVE Backed(f)'
    <3>1. CASE f # Feed
      <4>1. table'[f] = table[f] /\ index'[f] = index[f]
        BY <1>1, <2>1, <3>1
      <4> QED
        BY <1>2, <4>1 DEF FeedInv, Backed
    <3>2. CASE f = Feed
      <4>1. PICK v \in 0 .. upstream : \E w \in 0 .. v : table[f] = Copy(v) /\ index[f] = Copy(w)
        BY DEF FeedInv, Backed
      <4>2. PICK w \in 0 .. v : table[f] = Copy(v) /\ index[f] = Copy(w)
        BY <4>1
      <4>3. PICK u \in 0 .. version : table[f] = Copy(u)
        BY <2>1, <3>2 DEF FeedInv
      <4>4. v = u
        <5>1. v \in 0 .. MaxVersion /\ u \in 0 .. MaxVersion
          BY <1>1, FeedAssumption
        <5>2. Copy(v) = Copy(u)
          BY <4>2, <4>3
        <5> QED
          BY <5>1, <5>2, CopyFacts
      <4>5. w \in 0 .. version /\ version \in 0 .. upstream
        BY <1>1, <2>1, <4>4 DEF FeedInv
      <4>6. table'[f] = Copy(version) /\ index'[f] = Copy(w)
        BY <1>1, <2>1, <3>2, <4>2
      <4> QED
        BY <1>2, <4>5, <4>6 DEF Backed
    <3> QED
      BY <3>1, <3>2
  <2>6. table'[Feed'] = Copy(version)'
    BY <1>1, <2>1, <2>2 DEF FeedInv
  <2> QED
    BY <1>2, <1>3, <2>1, <2>2, <2>4, <2>5, <2>6 DEF FeedInv
<1>7. CASE Swap
  <2>1. /\ at = "swap" /\ Onward("fetch") /\ txn' = {} /\ UNCHANGED <<table, version>>
        /\ index' = [index EXCEPT ![Feed] = Copy(version)]
    BY <1>7 DEF Swap, Stored, onDisk
  <2>2. /\ at' \in {"load", "fetch", "sleep"}
        /\ left' \in Seq(Active) /\ (left' = <<>> <=> at' \in {"down", "sleep"})
    BY <2>1, BetweenFeeds
  <2>3. index' \in [Bulk -> SUBSET Rows]
    BY <1>1, <2>1
  <2>4. FeedTypeOK'
    BY <1>2, <2>1, <2>2, <2>3 DEF FeedInv, FeedTypeOK
  <2>5. ASSUME NEW f \in Bulk PROVE Backed(f)'
    <3>1. CASE f # Feed
      <4>1. table'[f] = table[f] /\ index'[f] = index[f]
        BY <1>1, <2>1, <3>1
      <4> QED
        BY <1>2, <4>1 DEF FeedInv, Backed
    <3>2. CASE f = Feed
      <4>1. table'[f] = Copy(version) /\ index'[f] = Copy(version)
        BY <1>1, <2>1, <3>2 DEF FeedInv
      <4>2. version \in 0 .. upstream /\ version \in 0 .. version
        BY <1>1, <2>1 DEF FeedInv
      <4> QED
        BY <1>2, <4>1, <4>2 DEF Backed
    <3> QED
      BY <3>1, <3>2
  <2> QED
    BY <1>3, <2>2, <2>4, <2>5 DEF FeedInv
<1> QED
  BY <1>4, <1>5, <1>6, <1>7

LEMMA NoBulkStep ==
    ASSUME FeedInv, RefreshFails \/ FeodoEmpty \/ RefreshNothing
    PROVE  FeedInv'
<1>1. /\ upstream \in 0 .. MaxVersion /\ version \in 0 .. MaxVersion
      /\ table \in [Bulk -> SUBSET Rows] /\ index \in [Bulk -> SUBSET Rows]
      /\ Copy(version) \in SUBSET Rows
  BY CopyFacts DEF FeedInv, FeedTypeOK
<1>2. /\ UNCHANGED <<upstream, disk, data, aged, reader, index, version>>
      /\ Onward("fetch") /\ at \in {"fetch", "store"}
      /\ faults' \in 0 .. MaxFaults /\ txn' \in {txn, {}}
  BY FeedAssumption DEF RefreshFails, FeodoEmpty, RefreshNothing, onDisk, inMemory, Fault,
     FeedInv, FeedTypeOK
<1>3. IPinfoIntact'
  BY <1>2, StaysIntact
<1>4. /\ at' \in {"load", "fetch", "sleep"}
      /\ left' \in Seq(Active) /\ (left' = <<>> <=> at' \in {"down", "sleep"})
  BY <1>2, BetweenFeeds
<1>5. \/ table' = table
      \/ at = "store" /\ table' = [table EXCEPT ![Feed] = Copy(version)]
  BY DEF RefreshFails, FeodoEmpty, RefreshNothing, onDisk
<1>6. table' \in [Bulk -> SUBSET Rows] /\ txn' \subseteq Copy(version)
  BY <1>1, <1>2, <1>5 DEF FeedInv, FeedTypeOK
<1>7. Copy(version)' = Copy(version)
  BY <1>2 DEF Copy
<1>8. FeedTypeOK'
  BY <1>2, <1>4, <1>6, <1>7 DEF FeedInv, FeedTypeOK
<1>9. ASSUME NEW f \in Bulk PROVE Backed(f)'
  <2>1. CASE table'[f] = table[f]
    BY <1>2, <2>1 DEF FeedInv, Backed
  <2>2. CASE table'[f] # table[f]
    <3>1. at = "store" /\ f = Feed /\ table'[f] = Copy(version)
      BY <1>1, <1>5, <2>2
    <3>2. PICK v \in 0 .. upstream : \E w \in 0 .. v : table[f] = Copy(v) /\ index[f] = Copy(w)
      BY DEF FeedInv, Backed
    <3>3. PICK w \in 0 .. v : table[f] = Copy(v) /\ index[f] = Copy(w)
      BY <3>2
    <3>4. PICK u \in 0 .. version : table[f] = Copy(u)
      BY <3>1 DEF FeedInv
    <3>5. v = u
      <4>1. v \in 0 .. MaxVersion /\ u \in 0 .. MaxVersion
        BY <1>1, FeedAssumption
      <4>2. Copy(v) = Copy(u)
        BY <3>3, <3>4
      <4> QED
        BY <4>1, <4>2, CopyFacts
    <3>6. w \in 0 .. version /\ version \in 0 .. upstream
      BY <1>1, <3>1, <3>5 DEF FeedInv
    <3> QED
      BY <1>2, <3>1, <3>3, <3>6 DEF Backed
  <2> QED
    BY <2>1, <2>2
<1> QED
  BY <1>3, <1>4, <1>8, <1>9 DEF FeedInv

\* What a download leaves is a version or torn.
LEMMA DownloadFacts ==
    ASSUME FeedTypeOK, NEW v \in {upstream, Torn}, Download(v)
    PROVE  v \in Versions \union {Torn} /\ faults' \in 0 .. MaxFaults
<1>1. MaxVersion \in Nat /\ MaxFaults \in Nat
  BY FeedAssumption
<1> QED
  BY <1>1 DEF Download, Fault, Versions, Torn, FeedTypeOK

LEMMA FileStep ==
    ASSUME FeedInv, RefreshFresh \/ RefreshIPinfo \/ RefreshCity \/ RefreshAsn
    PROVE  FeedInv'
<1> DEFINE FilesTyped == /\ disk \in [Files -> Inodes \union {NoInode}]
                         /\ data \in [Files -> [Inodes -> Versions \union {Torn}]]
           ReadersTyped == reader \in [Files -> [inode : Inodes, version : Versions]
                                                    \union {Closed}]
<1>1. /\ UNCHANGED <<upstream, table, index, version, txn>>
      /\ at \in {"fetch", "asn"}
  BY DEF RefreshFresh, RefreshIPinfo, RefreshCity, RefreshAsn, onDisk, inMemory
<1>2. /\ FeedTypeOK /\ FilesTyped /\ ReadersTyped /\ upstream \in Nat
      /\ MaxFaults \in Nat
      /\ "ipinfo-lite" \in Files /\ "city" \in Files /\ "asn" \in Files
      /\ Edition \in SUBSET Files
      /\ "city" # "ipinfo-lite" /\ "asn" # "ipinfo-lite"
  BY FeedAssumption DEF FeedInv, FeedTypeOK, Files, Edition
<1>3. \A f \in Bulk : Backed(f)'
  BY <1>1, <1>2, StaysBacked
<1>4. Copy(version)' = Copy(version)
  BY <1>1 DEF Copy
<1>5. /\ at' \in {"load", "fetch", "asn", "sleep"}
      /\ left' \in Seq(Active) /\ (left' = <<>> <=> at' \in {"down", "sleep"})
  <2>1. CASE RefreshCity
    BY <2>1 DEF RefreshCity, FeedInv, FeedTypeOK
  <2>2. CASE ~ RefreshCity
    <3>1. Onward("fetch")
      BY <2>2 DEF RefreshFresh, RefreshIPinfo, RefreshAsn
    <3> QED
      BY <1>1, <3>1, BetweenFeeds
  <2> QED
    BY <2>1, <2>2
<1> SUFFICES /\ FilesTyped' /\ ReadersTyped' /\ aged' \in BOOLEAN
             /\ faults' \in 0 .. MaxFaults
             /\ IPinfoIntact'
  <2>1. FeedTypeOK'
    BY <1>1, <1>4, <1>5 DEF FeedInv, FeedTypeOK
  <2> QED
    BY <1>3, <1>5, <2>1 DEF FeedInv
<1>6. CASE RefreshFresh
  <2>1. UNCHANGED <<disk, data, aged, faults>> /\ FilesTyped'
    BY <1>2, <1>6 DEF RefreshFresh, onDisk
  <2>2. \E F \in SUBSET Files : Opened(F)
    BY <1>2, <1>6 DEF RefreshFresh
  <2>3. /\ ReadersTyped'
        /\ \/ reader'["ipinfo-lite"] = reader["ipinfo-lite"]
           \/ data'["ipinfo-lite"][reader'["ipinfo-lite"].inode]
                  = reader'["ipinfo-lite"].version
    BY <1>2, <2>1, <2>2, OpenedFacts
  <2>4. IPinfoIntact'
    BY <2>1, <2>3, StaysIntact
  <2> QED
    BY <2>1, <2>3, <2>4 DEF FeedInv, FeedTypeOK
<1>7. CASE RefreshIPinfo
  <2>1. PICK v \in {upstream, Torn} : Download(v) /\ Replaced("ipinfo-lite", v)
    BY <1>7 DEF RefreshIPinfo, Installed
  <2>2. v \in Versions \union {Torn} /\ faults' \in 0 .. MaxFaults
    BY <1>2, <2>1, DownloadFacts
  <2>3. /\ NewInode("ipinfo-lite") \in Inodes
        /\ NewInode("ipinfo-lite") # reader["ipinfo-lite"].inode
    BY <1>2, NewInodeFacts
  <2>4. /\ FilesTyped'
        /\ reader["ipinfo-lite"].inode \in Inodes =>
               data'["ipinfo-lite"][reader["ipinfo-lite"].inode]
                   = data["ipinfo-lite"][reader["ipinfo-lite"].inode]
    BY <1>2, <2>1, <2>2, <2>3, WrittenFacts DEF Replaced
  <2>5. Opened({"ipinfo-lite"}) /\ aged' = FALSE
    BY <1>7 DEF RefreshIPinfo
  <2>6. {"ipinfo-lite"} \in SUBSET Files
    BY <1>2
  <2>7. /\ ReadersTyped'
        /\ \/ reader'["ipinfo-lite"] = reader["ipinfo-lite"]
           \/ data'["ipinfo-lite"][reader'["ipinfo-lite"].inode]
                  = reader'["ipinfo-lite"].version
    BY <1>2, <2>4, <2>5, <2>6, OpenedFacts
  <2>8. IPinfoIntact'
    BY <2>4, <2>7, StaysIntact
  <2> QED
    BY <2>2, <2>4, <2>5, <2>7, <2>8
<1>8. CASE RefreshCity \/ RefreshAsn
  <2>1. \/ \E f \in Edition : \E v \in {upstream, Torn} : Download(v) /\ Extracted(f, v)
        \/ Fault /\ UNCHANGED <<disk, data>>
    BY <1>8 DEF RefreshCity, RefreshAsn, Edition
  <2>2. FilesTyped' /\ data'["ipinfo-lite"] = data["ipinfo-lite"]
        /\ faults' \in 0 .. MaxFaults
    <3>1. CASE \E f \in Edition : \E v \in {upstream, Torn} : Download(v) /\ Extracted(f, v)
      <4>1. PICK f \in Edition, v \in {upstream, Torn} : Download(v) /\ Extracted(f, v)
        BY <3>1
      <4>2. v \in Versions \union {Torn} /\ faults' \in 0 .. MaxFaults
        BY <1>2, <4>1, DownloadFacts
      <4>3. f \in Files /\ f # "ipinfo-lite"
        BY <1>2 DEF Edition
      <4> QED
        BY <1>2, <4>1, <4>2, <4>3, ExtractedFacts
    <3>2. CASE Fault /\ UNCHANGED <<disk, data>>
      BY <1>2, <3>2 DEF Fault, FeedTypeOK
    <3> QED
      BY <2>1, <3>1, <3>2
  <2>3. UNCHANGED aged
    BY <1>8 DEF RefreshCity, RefreshAsn
  <2>4. /\ ReadersTyped'
        /\ \/ reader'["ipinfo-lite"] = reader["ipinfo-lite"]
           \/ data'["ipinfo-lite"][reader'["ipinfo-lite"].inode]
                  = reader'["ipinfo-lite"].version
    <3>1. CASE RefreshCity
      BY <1>2, <3>1 DEF RefreshCity, inMemory
    <3>2. CASE RefreshAsn
      BY <1>2, <2>2, <3>2, OpenedFacts DEF RefreshAsn
    <3> QED
      BY <1>8, <3>1, <3>2
  <2>5. IPinfoIntact'
    BY <2>2, <2>4, StaysIntact
  <2>6. aged' \in BOOLEAN
    BY <1>2, <2>3 DEF FeedTypeOK
  <2> QED
    BY <2>2, <2>4, <2>5, <2>6
<1> QED
  BY <1>6, <1>7, <1>8

LEMMA WorldStep ==
    ASSUME FeedInv, Wake \/ Publish \/ Age \/ Kill \/ Boot
    PROVE  FeedInv'
<1>1. /\ UNCHANGED <<table, version>> /\ txn' \in {txn, {}}
      /\ upstream \in 0 .. MaxVersion /\ MaxVersion \in Nat /\ MaxFaults \in Nat
  BY FeedAssumption DEF Wake, Publish, Age, Kill, Boot, onDisk, loop, FeedInv, FeedTypeOK
<1>2. Copy(version)' = Copy(version)
  BY <1>1 DEF Copy
<1>3. CASE Wake \/ Boot
  <2>1. /\ UNCHANGED <<upstream, disk, data, aged, index, reader, txn, faults>>
        /\ at' \in {"fetch", "load"} /\ left' = Order
    BY <1>3 DEF Wake, Boot, onDisk, inMemory
  <2>2. FeedTypeOK'
    BY <1>1, <1>2, <2>1, OrderFacts DEF FeedInv, FeedTypeOK
  <2>3. IPinfoIntact' /\ \A f \in Bulk : Backed(f)'
    BY <1>1, <2>1, StaysIntact, StaysBacked
  <2> QED
    BY <2>1, <2>2, <2>3 DEF FeedInv
<1>4. CASE Publish
  <2>1. /\ UNCHANGED <<disk, data, aged, index, reader, at, left, txn, faults>>
        /\ upstream' = upstream + 1 /\ upstream < MaxVersion
    BY <1>4 DEF Publish, onDisk, inMemory, loop
  <2>2. upstream' \in 0 .. MaxVersion
    BY <1>1, <2>1
  <2>3. FeedTypeOK'
    BY <1>1, <1>2, <2>1, <2>2 DEF FeedInv, FeedTypeOK
  <2>4. IPinfoIntact' /\ \A f \in Bulk : Backed(f)'
    BY <1>1, <2>1, StaysIntact, StaysBacked
  <2>5. Feed' = Feed
    BY <2>1 DEF Feed
  <2>6. at' \in {"store", "swap"} => Feed' \in Bulk /\ version' <= upstream'
    BY <1>1, <2>1, <2>5 DEF FeedInv, FeedTypeOK
  <2>7. at' = "store" => \E v \in 0 .. version' : table'[Feed'] = Copy(v)
    BY <1>1, <2>1, <2>5 DEF FeedInv
  <2>8. at' = "swap" => table'[Feed'] = Copy(version)'
    BY <1>1, <1>2, <2>1, <2>5 DEF FeedInv
  <2> QED
    BY <2>3, <2>4, <2>6, <2>7, <2>8 DEF FeedInv
<1>5. CASE Age
  <2>1. /\ UNCHANGED <<upstream, disk, data, index, reader, at, left, txn, faults>>
        /\ aged' = TRUE
    BY <1>5 DEF Age, inMemory, loop
  <2>2. FeedTypeOK'
    BY <1>1, <1>2, <2>1 DEF FeedInv, FeedTypeOK
  <2>3. IPinfoIntact' /\ \A f \in Bulk : Backed(f)'
    BY <1>1, <2>1, StaysIntact, StaysBacked
  <2>4. Feed' = Feed
    BY <2>1 DEF Feed
  <2> QED
    BY <1>1, <1>2, <2>1, <2>2, <2>3, <2>4 DEF FeedInv
<1>6. CASE Kill
  <2>1. /\ UNCHANGED <<upstream, aged>> /\ at' = "down" /\ left' = <<>> /\ txn' = {}
        /\ index' = [f \in Bulk |-> {}] /\ reader' = [f \in Files |-> Closed]
        /\ faults' \in 0 .. MaxFaults
    BY <1>1, <1>6 DEF Kill, Fault, FeedInv, FeedTypeOK
  <2>2. /\ disk' \in [Files -> Inodes \union {NoInode}]
        /\ data' \in [Files -> [Inodes -> Versions \union {Torn}]]
        /\ data'["ipinfo-lite"] = data["ipinfo-lite"]
    <3>1. CASE UNCHANGED <<disk, data>>
      BY <3>1 DEF FeedInv, FeedTypeOK
    <3>2. CASE Extracted("city", Torn) \/ Extracted("asn", Torn)
      BY <3>2, ExtractedFacts DEF Files, FeedInv
    <3> QED
      BY <1>6, <3>1, <3>2 DEF Kill
  <2>3. left' \in Seq(Active)
    BY <2>1, EmptySeq
  <2>4. index' \in [Bulk -> SUBSET Rows]
    BY <2>1
  <2>5. reader' \in [Files -> [inode : Inodes, version : Versions] \union {Closed}]
        /\ reader'["ipinfo-lite"] = Closed
    BY <2>1 DEF Files
  <2>6. FeedTypeOK'
    BY <1>1, <1>2, <2>1, <2>2, <2>3, <2>4, <2>5 DEF FeedInv, FeedTypeOK
  <2>7. IPinfoIntact'
    BY <2>5 DEF IPinfoIntact, Intact
  <2>8. ASSUME NEW f \in Bulk PROVE Backed(f)'
    <3>1. PICK v \in 0 .. upstream : table[f] = Copy(v)
      BY DEF FeedInv, Backed
    <3>2. index'[f] = Copy(0) /\ 0 \in 0 .. v
      BY <1>1, <2>1 DEF Copy
    <3> QED
      BY <1>1, <2>1, <3>1, <3>2 DEF Backed
  <2> QED
    BY <2>1, <2>6, <2>7, <2>8 DEF FeedInv
<1> QED
  BY <1>3, <1>4, <1>5, <1>6

LEMMA FeedStep == FeedInv /\ [FeedNext]_feedVars => FeedInv'
<1> SUFFICES ASSUME FeedInv, [FeedNext]_feedVars PROVE FeedInv'
  OBVIOUS
<1>1. CASE UNCHANGED feedVars
  BY <1>1 DEF feedVars, onDisk, inMemory, loop, FeedInv, FeedTypeOK, Backed, Feed, Copy,
     IPinfoIntact, Intact
<1> QED
  BY <1>1, LoadStep, BulkStep, NoBulkStep, FileStep, WorldStep
  DEF FeedNext, FeedLoop, Refresh

LEMMA FeedInvHolds == FeedSpec => []FeedInv
  BY FeedInitOK, FeedStep, PTL DEF FeedSpec

-----------------------------------------------------------------------------

\* Every variable of the feed loop stays in range, and a reader is never of a file
\* that breaks off.
THEOREM FeedTypeCorrect == FeedSpec => []FeedTypeOK
<1>1. FeedInv => FeedTypeOK
  BY DEF FeedInv
<1> QED
  BY <1>1, FeedInvHolds, PTL

\* Wherever a refresh fails, or the worker dies in it, the table and the index of a
\* blocklist hold one published copy each, whole.
THEOREM CopiesWhole == FeedSpec => []WholeCopies
<1>1. FeedInv => WholeCopies
  <2> SUFFICES ASSUME FeedInv, NEW f \in Bulk
               PROVE  \E v, w \in 0 .. upstream : table[f] = Copy(v) /\ index[f] = Copy(w)
    BY DEF WholeCopies
  <2>1. PICK v \in 0 .. upstream : \E w \in 0 .. v : table[f] = Copy(v) /\ index[f] = Copy(w)
    BY DEF FeedInv, Backed
  <2>2. PICK w \in 0 .. v : table[f] = Copy(v) /\ index[f] = Copy(w)
    BY <2>1
  <2>3. w \in 0 .. upstream
    BY DEF FeedInv, FeedTypeOK
  <2> QED
    BY <2>2, <2>3
<1> QED
  BY <1>1, FeedInvHolds, PTL

\* Lookups are never answered from a copy newer than the one a restart goes back to.
THEOREM TableLeads == FeedSpec => []NeverAheadOfTable
<1>1. FeedInv => NeverAheadOfTable
  <2> SUFFICES ASSUME FeedInv, NEW f \in Bulk, NEW v \in 0 .. upstream,
                      NEW w \in 0 .. upstream, table[f] = Copy(v), index[f] = Copy(w)
               PROVE  w <= v
    BY DEF NeverAheadOfTable
  <2>1. PICK x \in 0 .. upstream : \E y \in 0 .. x : table[f] = Copy(x) /\ index[f] = Copy(y)
    BY DEF FeedInv, Backed
  <2>2. PICK y \in 0 .. x : table[f] = Copy(x) /\ index[f] = Copy(y)
    BY <2>1
  <2>3. upstream \in 0 .. MaxVersion /\ MaxVersion \in Nat
    BY FeedAssumption DEF FeedInv, FeedTypeOK
  <2>4. {v, w, x, y} \subseteq 0 .. MaxVersion
    BY <2>3
  <2>5. x = v /\ y = w
    BY <2>2, <2>4, CopyFacts
  <2> QED
    BY <2>5
<1> QED
  BY <1>1, FeedInvHolds, PTL

\* A lookup reads the IPinfo database its reader was opened for, while another one is
\* downloaded, put in its place, or fails to be.
THEOREM IPinfoStaysIntact == FeedSpec => []IPinfoIntact
<1>1. FeedInv => IPinfoIntact
  BY DEF FeedInv
<1> QED
  BY <1>1, FeedInvHolds, PTL

=============================================================================
