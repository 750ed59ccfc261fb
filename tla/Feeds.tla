-------------------------------- MODULE Feeds --------------------------------
(***************************************************************************)
(* The bulk feeds of enrichment/feeds.py and the loop of worker.py that    *)
(* refreshes them.  Three blocklists are downloaded whole, stored in       *)
(* table feed_indicators in one transaction, and then served from memory;  *)
(* two geo feeds are database files that an open reader is served from,    *)
(* one file of IPinfo, two of GeoLite.  The loop takes one feed after the  *)
(* other; lookups (module Lookups) go on between any two of its awaits,    *)
(* and the process may die there.                                          *)
(*                                                                         *)
(* A copy of a blocklist is its version and the chunks its rows are stored *)
(* in.  A database file is an inode and what that holds; a reader maps the *)
(* inode it opened, so that it sees what is written to it later.           *)
(***************************************************************************)
EXTENDS Integers, Sequences, FiniteSets

CONSTANTS Order,      \* the feeds that have the key they need, by priority
          Chunks,     \* chunks in a copy: rows over FEED_STORE_CHUNK
          MaxVersion, \* bound: versions a publisher brings out
          MaxFaults   \* bound: failed downloads and statements, bad files, kills

Bulk  == {"feodo", "threatfox", "crowdsec-lapi"}
Files == {"ipinfo-lite", "city", "asn"}
Feeds == Bulk \union {"ipinfo-lite", "geolite"}

\* Blocklists first, and IPinfo before GeoLite.
Priority == [f \in Feeds |-> IF f \in Bulk THEN 50 ELSE IF f = "ipinfo-lite" THEN 60 ELSE 70]

ASSUME FeedAssumption ==
    /\ Order \in Seq(Feeds) /\ Order # <<>>
    /\ \A j, k \in 1 .. Len(Order) :
           j < k => Order[j] # Order[k] /\ Priority[Order[j]] <= Priority[Order[k]]
    /\ Chunks \in Nat \ {0}
    /\ {MaxVersion, MaxFaults} \subseteq Nat

VARIABLES
    upstream, \* the version the publishers have
    table,    \* [Bulk -> Rows]: feed_indicators
    index,    \* [Bulk -> Rows]: _ips, _iocs, _decisions
    disk,     \* [Files -> the inode the file is, or NoInode]
    data,     \* [Files -> [Inodes -> the version it holds, or Torn]]
    reader,   \* [Files -> [inode, version]]: what an open reader was made for, or Closed
    aged,     \* IPinfo's file is older than IPINFO_DB_MAX_AGE_HOURS
    at,       \* where feed_refresh_loop is: down, load, fetch, store, swap, asn, sleep
    left,     \* the feeds of this round, the one at hand first
    version,  \* the version that was downloaded
    txn,      \* the rows of the open transaction
    faults    \* faults so far

onDisk   == <<table, disk, data, aged>>
inMemory == <<index, reader>>
loop     == <<at, left, version, txn>>
feedVars == <<upstream, onDisk, inMemory, loop, faults>>

Active == {Order[k] : k \in 1 .. Len(Order)}

Versions == 1 .. MaxVersion
Rows     == Versions \X (1 .. Chunks)
Copy(v)  == IF v = 0 THEN {} ELSE {v} \X (1 .. Chunks)

Inodes  == 1 .. 3 \* the file's, an old one under a reader, a new one
NoInode == 0
Torn    == 0      \* what was written breaks off, or is no database
Closed  == [inode |-> NoInode, version |-> 0]

Feed == Head(left)

\* The loop goes on to the next feed.
Onward(phase) == IF Len(left) > 1
                 THEN at' = phase /\ left' = Tail(left)
                 ELSE IF phase = "load"
                      THEN at' = "fetch" /\ left' = Order
                      ELSE at' = "sleep" /\ left' = <<>>

Fault == /\ faults < MaxFaults
         /\ faults' = faults + 1

-----------------------------------------------------------------------------
(* Database files *)

\* Mutant: a reader is made of any file.
Exists(f) == disk[f] # NoInode

\* A reader of f can be made if there is a whole file.
Openable(f) == disk[f] # NoInode /\ data[f][disk[f]] # Torn

ReaderOf(f) == [inode |-> disk[f], version |-> data[f][disk[f]]]

\* _open: what cannot be opened leaves the reader there is.
Opened(F) == reader' = [f \in Files |-> IF f \in F /\ Openable(f)' THEN ReaderOf(f)'
                                        ELSE reader[f]]

\* The file is inode i now and holds v.  What nobody refers to is gone.
Written(f, i, v) ==
    /\ disk' = [disk EXCEPT ![f] = i]
    /\ data' = [data EXCEPT ![f] = [j \in Inodes |-> IF j = i THEN v
                                                     ELSE IF j = reader[f].inode THEN @[j]
                                                     ELSE Torn]]

\* An inode that neither the file nor a reader is at.
NewInode(f) == CHOOSE i \in Inodes : i \notin {disk[f], reader[f].inode}

\* tar.extract opens the file to write: it is truncated, and keeps its inode, if there
\* is one.
Extracted(f, v) == Written(f, IF disk[f] = NoInode THEN NewInode(f) ELSE disk[f], v)

\* os.replace: the file becomes another inode, the old one lives while it is mapped.
Replaced(f, v) == Written(f, NewInode(f), v)

\* Mutant: IPinfo's file is written in place.
Overwritten(f, v) == Extracted(f, v)

Installed(f, v) == Replaced(f, v)

\* Mutant: no file is too old.
There == disk["ipinfo-lite"] # NoInode

\* IPinfo's file is there and young.
Fresh == disk["ipinfo-lite"] # NoInode /\ ~ aged

-----------------------------------------------------------------------------
(* feed_refresh_loop: load *)

Edition == {"city", "asn"}

FilesOf(f) == IF f = "geolite" THEN Edition ELSE {f} \intersect Files

\* The last stored copy is served at once.
Load ==
    /\ at = "load"
    /\ UNCHANGED onDisk
    /\ index' = IF Feed \in Bulk THEN [index EXCEPT ![Feed] = table[Feed]] ELSE index
    /\ Opened(FilesOf(Feed))
    /\ Onward("load")
    /\ UNCHANGED <<upstream, version, txn, faults>>

LoadFails ==
    /\ at = "load"
    /\ Feed \in Bulk
    /\ Fault
    /\ Onward("load")
    /\ UNCHANGED <<upstream, onDisk, inMemory, version, txn>>

-----------------------------------------------------------------------------
(* refresh of a blocklist *)

\* A download is there, and the transaction is open: the rows of this source are deleted.
Fetched(f) ==
    /\ at = "fetch"
    /\ Feed = f
    /\ version' = upstream
    /\ at' = "store"
    /\ txn' = {}
    /\ UNCHANGED <<upstream, onDisk, inMemory, left, faults>>

\* An empty blocklist is refused.
FetchFeodo == Fetched("feodo") /\ upstream > 0

FetchThreatFox == Fetched("threatfox")

FetchCrowdSec == Fetched("crowdsec-lapi")

\* Mutant: the rows are deleted and inserted outside a transaction.
StoredAtOnce(rows) == table' = [table EXCEPT ![Feed] = rows]

\* What others see of the table before the transaction ends.
Unseen(rows) == table' = table

\* _store: one batch more.  What is no address (a range, an unreadable line) is passed
\* over here and stays in the index, where no lookup asks for it; a copy is the rest.
Insert ==
    /\ at = "store"
    /\ \E row \in Copy(version) \ txn :
           /\ txn' = txn \union {row}
           /\ Unseen(txn \union {row})
    /\ UNCHANGED <<upstream, disk, data, aged, inMemory, at, left, version, faults>>

Commit ==
    /\ at = "store"
    /\ txn = Copy(version)
    /\ table' = [table EXCEPT ![Feed] = txn]
    /\ at' = "swap"
    /\ UNCHANGED <<upstream, disk, data, aged, inMemory, left, version, txn, faults>>

\* Mutant: the new copy is served before it is stored.
EvenUnstored == at \in {"store", "swap"}

Stored == at = "swap"

\* The new copy is served.
Swap ==
    /\ Stored
    /\ index' = [index EXCEPT ![Feed] = Copy(version)]
    /\ Onward("fetch")
    /\ txn' = {}
    /\ UNCHANGED <<upstream, onDisk, reader, version, faults>>

\* A download or a statement fails, a COMMIT perhaps after it took effect: what was
\* served is served on.
RefreshFails ==
    /\ at \in {"fetch", "store"}
    /\ Feed # "geolite"
    /\ Feed = "ipinfo-lite" => ~ Fresh
    /\ Fault
    /\ table' \in IF at = "store" /\ txn = Copy(version)
                  THEN {table, [table EXCEPT ![Feed] = txn]}
                  ELSE {table}
    /\ txn' = {}
    /\ Onward("fetch")
    /\ UNCHANGED <<upstream, disk, data, aged, inMemory, version>>

\* A publisher has nothing, which Feodo takes for a failure.
FeodoEmpty ==
    /\ at = "fetch"
    /\ Feed = "feodo"
    /\ upstream = 0
    /\ Onward("fetch")
    /\ UNCHANGED <<upstream, onDisk, inMemory, version, txn, faults>>

-----------------------------------------------------------------------------
(* refresh of the geo feeds *)

\* What a download leaves in the file: one that cannot be opened, or that the disk had
\* no room for the whole of, is a fault.
Download(v) == \/ v = upstream /\ UNCHANGED faults
               \/ v = Torn /\ Fault

\* IPinfo's file is young: it is opened if it is not.
RefreshFresh ==
    /\ at = "fetch"
    /\ Feed = "ipinfo-lite"
    /\ Fresh
    /\ UNCHANGED onDisk
    /\ Opened(IF reader["ipinfo-lite"] = Closed THEN {"ipinfo-lite"} ELSE {})
    /\ Onward("fetch")
    /\ UNCHANGED <<upstream, index, version, txn, faults>>

\* IPinfo: downloaded beside it, put in its place, opened.
RefreshIPinfo ==
    /\ at = "fetch"
    /\ Feed = "ipinfo-lite"
    /\ ~ Fresh
    /\ upstream > 0
    /\ \E v \in {upstream, Torn} : Download(v) /\ Installed("ipinfo-lite", v)
    /\ aged' = FALSE
    /\ Opened({"ipinfo-lite"})
    /\ Onward("fetch")
    /\ UNCHANGED <<upstream, table, index, version, txn>>

\* GeoLite: the City database, downloaded and extracted over the old one.  A failure is
\* logged, and may have written part of it.
RefreshCity ==
    /\ at = "fetch"
    /\ Feed = "geolite"
    /\ upstream > 0
    /\ \/ \E v \in {upstream, Torn} : Download(v) /\ Extracted("city", v)
       \/ Fault /\ UNCHANGED <<disk, data>>
    /\ at' = "asn"
    /\ UNCHANGED <<upstream, table, aged, inMemory, left, version, txn>>

\* GeoLite: the ASN database, then both are opened.
RefreshAsn ==
    /\ at = "asn"
    /\ \/ \E v \in {upstream, Torn} : Download(v) /\ Extracted("asn", v)
       \/ Fault /\ UNCHANGED <<disk, data>>
    /\ UNCHANGED <<table, aged>>
    /\ Opened(Edition)
    /\ Onward("fetch")
    /\ UNCHANGED <<upstream, index, version, txn>>

\* Nothing is published yet.
RefreshNothing ==
    /\ at = "fetch"
    /\ Feed \in {"ipinfo-lite", "geolite"}
    /\ upstream = 0
    /\ Onward("fetch")
    /\ UNCHANGED <<upstream, onDisk, inMemory, version, txn, faults>>

-----------------------------------------------------------------------------

\* FEED_REFRESH_S is over.
Wake ==
    /\ at = "sleep"
    /\ at' = "fetch"
    /\ left' = Order
    /\ UNCHANGED <<upstream, onDisk, inMemory, version, txn, faults>>

Publish ==
    /\ upstream < MaxVersion
    /\ upstream' = upstream + 1
    /\ UNCHANGED <<onDisk, inMemory, loop, faults>>

Age ==
    /\ disk["ipinfo-lite"] # NoInode
    /\ aged' = TRUE
    /\ UNCHANGED <<upstream, table, disk, data, inMemory, loop, faults>>

\* The worker dies: a transaction is rolled back, an extraction breaks off.
Kill ==
    /\ at # "down"
    /\ Fault
    /\ index' = [f \in Bulk |-> {}]
    /\ reader' = [f \in Files |-> Closed]
    /\ at' = "down"
    /\ left' = <<>>
    /\ txn' = {}
    /\ \/ UNCHANGED <<disk, data>>
       \/ at = "fetch" /\ Feed = "geolite" /\ Extracted("city", Torn)
       \/ at = "asn" /\ Extracted("asn", Torn)
    /\ UNCHANGED <<upstream, table, aged, version>>

Boot ==
    /\ at = "down"
    /\ at' = "load"
    /\ left' = Order
    /\ UNCHANGED <<upstream, onDisk, inMemory, version, txn, faults>>

FeedInit ==
    /\ upstream = 0
    /\ table = [f \in Bulk |-> {}]
    /\ index = [f \in Bulk |-> {}]
    /\ disk = [f \in Files |-> NoInode]
    /\ data = [f \in Files |-> [i \in Inodes |-> Torn]]
    /\ reader = [f \in Files |-> Closed]
    /\ aged = FALSE
    /\ at = "down"
    /\ left = <<>>
    /\ version = 0
    /\ txn = {}
    /\ faults = 0

Refresh == \/ FetchFeodo \/ FetchThreatFox \/ FetchCrowdSec \/ FeodoEmpty
           \/ Insert \/ Commit \/ Swap
           \/ RefreshFails
           \/ RefreshFresh \/ RefreshIPinfo
           \/ RefreshCity \/ RefreshAsn
           \/ RefreshNothing
           \/ Wake

FeedLoop == Boot \/ Load \/ LoadFails \/ Refresh

FeedNext == FeedLoop \/ Publish \/ Age \/ Kill

FeedSpec == FeedInit /\ [][FeedNext]_feedVars

\* Every await of the loop has a timeout, and files grow old.
FairFeedSpec == FeedSpec /\ WF_feedVars(FeedLoop) /\ WF_feedVars(Age)

-----------------------------------------------------------------------------
(* Properties *)

\* Every variable stays in its range, and a reader is of a whole file.
FeedTypeOK ==
    /\ upstream \in 0 .. MaxVersion
    /\ table \in [Bulk -> SUBSET Rows]
    /\ index \in [Bulk -> SUBSET Rows]
    /\ disk \in [Files -> Inodes \union {NoInode}]
    /\ data \in [Files -> [Inodes -> Versions \union {Torn}]]
    /\ reader \in [Files -> [inode : Inodes, version : Versions] \union {Closed}]
    /\ aged \in BOOLEAN
    /\ at \in {"down", "load", "fetch", "store", "swap", "asn", "sleep"}
    /\ left \in Seq(Active) /\ (left = <<>> <=> at \in {"down", "sleep"})
    /\ version \in 0 .. MaxVersion
    /\ txn \subseteq Copy(version)
    /\ faults \in 0 .. MaxFaults

\* "Atomically replace a source's indicators": wherever a refresh stops, table and index
\* hold one published copy, whole.
WholeCopies ==
    \A f \in Bulk : \E v, w \in 0 .. upstream : table[f] = Copy(v) /\ index[f] = Copy(w)

\* "Serve the last cached copy immediately": lookups are never answered from a copy
\* newer than the stored one, which a restart goes back to.
NeverAheadOfTable ==
    \A f \in Bulk : \A v, w \in 0 .. upstream :
        table[f] = Copy(v) /\ index[f] = Copy(w) => w <= v

\* What an open reader was opened on stays as it was.
Intact(f) == reader[f] # Closed => data[f][reader[f].inode] = reader[f].version

\* "An in-flight lookup during a refresh reads the old db, not a hole": the open IPinfo
\* reader never sees a file being written.  The file on disk is another matter: a download
\* cut short above the minimum size does replace it, and then cannot be opened.
IPinfoIntact == Intact("ipinfo-lite")

\* "Must leave the previous index intact when a download fails": after a round of
\* refreshes, whatever failed in it, every reader reads what it was opened for.
PreviousIndexIntact == \A f \in Files : at = "sleep" => Intact(f)

\* "Each feed fails independently -- refresh() logs and keeps its last copy": whatever
\* failed before, every active feed serves the latest version in the end.
Serves(f) == IF f \in Bulk THEN index[f] = Copy(upstream)
             ELSE \A g \in FilesOf(f) : reader[g].version = upstream

FeedsFollow ==
    \A f \in Active : <>[](upstream = 0 \/ Serves(f))
==============================================================================
