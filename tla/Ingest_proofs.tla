---------------------------- MODULE Ingest_proofs ----------------------------
(***************************************************************************)
(* Proofs about Ingest: its types, that it implements EventLedger, and     *)
(* that no address is credited with more events than it has rows.          *)
(*                                                                         *)
(* The invariant says whose a row is: one that is stored but has not gone  *)
(* on is in the hands of at most one consumer, the one that inserted it,   *)
(* and that consumer knows how far it has come.                            *)
(***************************************************************************)
EXTENDS Ingest, FiniteSetTheorems, TLAPS

\* Stages behind a successful insert.
Behind == {"upsert", "publish", "announce"}

TypeInv == /\ IngestTypeOK
           /\ \A c \in Consumers : stage[c] = "backoff" => attempt[c] < MaxAttempts

\* What is published was counted, what is counted was stored.
Nested == /\ \A w \in Rows : published[w] # 0 => w \in counted
          /\ counted \subseteq stored

\* A consumer behind the insert has a row of its record, and is where the row is.
InHand == \A c \in Consumers :
              /\ stage[c] \in Behind => row[c] \in Rows /\ row[c][1] = job[c]
              /\ stage[c] = "upsert" => row[c] \in stored \ counted
              /\ stage[c] = "publish" => row[c] \in counted /\ published[row[c]] = 0
              /\ stage[c] = "announce" => published[row[c]] # 0 /\ isNew[c]

\* Nobody else is there with the same row.
Alone == \A c, d \in Consumers :
             /\ c # d
             /\ stage[c] \in Behind
             /\ stage[d] \in Behind
             => row[c] # row[d]

\* A consumer that found its address new is the only one, and has yet to
\* announce it.
FirstSeen ==
    /\ \A c \in Consumers :
           isNew[c] => /\ stage[c] \in {"publish", "announce"}
                       /\ announced[SourceIp[row[c]]] = 0
                       /\ ipCount[SourceIp[row[c]]] # 0
    /\ \A c, d \in Consumers :
           c # d /\ isNew[c] /\ isNew[d] => SourceIp[row[c]] # SourceIp[row[d]]
    /\ \A ip \in Ips : announced[ip] # 0 => ipCount[ip] # 0

LedgerInv == Nested /\ InHand /\ Alone /\ FirstSeen

Inv == TypeInv /\ LedgerInv

-----------------------------------------------------------------------------

\* A row is of a record and about an address; a record's rows are its own.
LEMMA RowFacts ==
    /\ \A w \in Rows : w[1] \in Records /\ SourceIp[w] \in Ips
    /\ \A r \in Records : \A w \in RowsOf(r) : w \in Rows /\ w[1] = r
BY IngestAssumption DEF Rows, RowsOf, SourceIp

\* An XADD appends at least one entry.
LEMMA SendsPositive == \A n \in 1 .. Sends : n \in Nat /\ n > 0
BY IngestAssumption

\* A call that fails has done to the stores what it does when it succeeds, or
\* nothing.
LEMMA EffectCases ==
    ASSUME NEW c \in Consumers, stage[c] \in Calls, Effect(c)
    PROVE  \/ stage[c] = "insert" /\ \E w \in RowsOf(job[c]) : InsertRow(w)
           \/ stage[c] = "upsert" /\ CountIp(row[c])
           \/ stage[c] = "publish" /\ \E n \in 1 .. Sends : PublishEvent(row[c], n)
           \/ stage[c] = "announce" /\ \E n \in 1 .. Sends : AnnounceIp(row[c], n)
BY DEF Calls, Effect

LEMMA InitInv == IngestInit => Inv
BY IngestAssumption
   DEF IngestInit, WorkInit, Inv, TypeInv, IngestTypeOK, LedgerInv, Nested, InHand,
       Alone, FirstSeen, Stages, Behind

\* The consumers' part of TypeInv.
HandsOK ==
    /\ job \in [Consumers -> Records \union {NoRecord}]
    /\ row \in [Consumers -> Rows \union {NoRecord}]
    /\ stage \in [Consumers -> Stages]
    /\ \A c \in Consumers : stage[c] # "get" => job[c] \in Records
    /\ attempt \in [Consumers -> 1 .. MaxAttempts]
    /\ isNew \in [Consumers -> BOOLEAN]
    /\ \A c \in Consumers : stage[c] = "backoff" => attempt[c] < MaxAttempts

LEMMA FinishHands ==
    ASSUME HandsOK, NEW c \in Consumers, Finish(c)
    PROVE  HandsOK'
BY DEF HandsOK, Finish, Stages

LEMMA BackoffHands ==
    ASSUME HandsOK, NEW c \in Consumers, stage[c] # "get", attempt[c] < MaxAttempts,
           row' = [row EXCEPT ![c] = NoRecord], isNew' = [isNew EXCEPT ![c] = FALSE],
           Goto(c, "backoff")
    PROVE  HandsOK'
BY DEF HandsOK, Goto, Stages

\* The stores' part of TypeInv.
StoresOK ==
    /\ {stored, counted} \subseteq SUBSET Rows
    /\ published \in [Rows -> Nat]
    /\ {announced, ipCount} \subseteq [Ips -> Nat]

LEMMA EffectStores ==
    ASSUME StoresOK, NEW w \in Rows, NEW n \in 1 .. Sends,
           \/ InsertRow(w)
           \/ CountIp(w)
           \/ PublishEvent(w, n)
           \/ AnnounceIp(w, n)
    PROVE  StoresOK'
<1>1. SourceIp[w] \in Ips /\ n \in Nat
  BY RowFacts, SendsPositive
<1>2. CASE InsertRow(w)
  BY <1>2 DEF InsertRow, StoresOK
<1>3. CASE CountIp(w)
  BY <1>1, <1>3 DEF CountIp, StoresOK
<1>4. CASE PublishEvent(w, n)
  BY <1>1, <1>4 DEF PublishEvent, StoresOK
<1>5. CASE AnnounceIp(w, n)
  BY <1>1, <1>5 DEF AnnounceIp, StoresOK
<1> QED
  BY <1>2, <1>3, <1>4, <1>5

LEMMA EffectTyped ==
    ASSUME TypeInv, InHand, NEW c \in Consumers, stage[c] \in Calls, Effect(c)
    PROVE  StoresOK'
<1>1. StoresOK /\ job[c] \in Records
  BY DEF TypeInv, IngestTypeOK, StoresOK, Calls
<1>2. stage[c] # "insert" => row[c] \in Rows
  BY DEF InHand, Behind, Calls
<1>3. 1 \in 1 .. Sends
  BY IngestAssumption
<1>4. CASE stage[c] = "insert" /\ \E w \in RowsOf(job[c]) : InsertRow(w)
  BY <1>1, <1>3, <1>4, RowFacts, EffectStores
<1>5. CASE stage[c] = "upsert" /\ CountIp(row[c])
  BY <1>1, <1>2, <1>3, <1>5, EffectStores
<1>6. CASE stage[c] = "publish" /\ \E n \in 1 .. Sends : PublishEvent(row[c], n)
  BY <1>1, <1>2, <1>6, EffectStores
<1>7. CASE stage[c] = "announce" /\ \E n \in 1 .. Sends : AnnounceIp(row[c], n)
  BY <1>1, <1>2, <1>7, EffectStores
<1> QED
  BY <1>4, <1>5, <1>6, <1>7, EffectCases

LEMMA TypeStep == TypeInv /\ InHand /\ [IngestNext]_ingestVars => TypeInv'
<1> SUFFICES ASSUME TypeInv, InHand, [IngestNext]_ingestVars
             PROVE  TypeInv'
    OBVIOUS
<1>a. HandsOK /\ StoresOK
    BY DEF TypeInv, IngestTypeOK, HandsOK, StoresOK
<1>b. ASSUME HandsOK', StoresOK', queue' \in Seq(Records),
             {dropped, ignored}' \subseteq SUBSET Records, restarts' \in 0 .. MaxRestarts
      PROVE  TypeInv'
    BY <1>b DEF TypeInv, IngestTypeOK, HandsOK, StoresOK
<1>c. ASSUME UNCHANGED stores PROVE StoresOK'
    BY <1>a, <1>c DEF StoresOK, stores
<1>d. /\ queue \in Seq(Records)
      /\ {dropped, ignored} \subseteq SUBSET Records
      /\ restarts \in 0 .. MaxRestarts
      /\ \A c \in Consumers : stage[c] # "get" => job[c] \in Records
    BY DEF TypeInv, IngestTypeOK
<1>1. ASSUME NEW c \in Consumers, TakeRecord(c) PROVE TypeInv'
  <2>1. Head(queue) \in Records /\ Tail(queue) \in Seq(Records)
      BY <1>1, <1>d DEF TakeRecord
  <2>2. HandsOK'
      BY <1>1, <1>a, <2>1, IngestAssumption DEF TakeRecord, HandsOK, Stages
  <2> QED BY <1>1, <1>b, <1>c, <1>d, <2>1, <2>2 DEF TakeRecord, outcome
<1>2. ASSUME NEW c \in Consumers, Ignore(c) PROVE TypeInv'
    BY <1>2, <1>a, <1>b, <1>c, <1>d, FinishHands DEF Ignore
<1>3. ASSUME NEW c \in Consumers, Insert(c) PROVE TypeInv'
  <2>1. PICK w \in RowsOf(job[c]) : InsertRow(w) /\ row' = [row EXCEPT ![c] = w]
      BY <1>3 DEF Insert
  <2>2. w \in Rows /\ job[c] \in Records
      BY <1>3, <1>d, RowFacts DEF Insert
  <2>3. StoresOK'
      BY <1>a, <2>1, <2>2, EffectStores, IngestAssumption
  <2>4. HandsOK'
      BY <1>3, <1>a, <2>1, <2>2 DEF Insert, Goto, HandsOK, Stages
  <2> QED BY <1>3, <1>b, <1>d, <2>3, <2>4 DEF Insert, outcome
<1>4. ASSUME NEW c \in Consumers, InsertConflict(c) PROVE TypeInv'
    BY <1>4, <1>a, <1>b, <1>c, <1>d, FinishHands DEF InsertConflict, outcome
<1>5. ASSUME NEW c \in Consumers, Upsert(c) PROVE TypeInv'
  <2>1. row[c] \in Rows
      BY <1>5 DEF Upsert, InHand, Behind
  <2>2. StoresOK'
      BY <1>5, <1>a, <2>1, EffectStores, IngestAssumption DEF Upsert
  <2>3. HandsOK'
      BY <1>5, <1>a, <1>d DEF Upsert, Goto, HandsOK, Stages
  <2> QED BY <1>5, <1>b, <1>d, <2>2, <2>3 DEF Upsert, outcome
<1>6. ASSUME NEW c \in Consumers, Publish(c) PROVE TypeInv'
  <2>1. row[c] \in Rows
      BY <1>6 DEF Publish, InHand, Behind
  <2>2. StoresOK'
      BY <1>6, <1>a, <2>1, EffectStores DEF Publish
  <2>3. Finish(c) \/ (Goto(c, "announce") /\ UNCHANGED <<row, isNew>>)
      BY <1>6, Zenon DEF Publish
  <2>4. HandsOK'
      BY <1>6, <1>a, <1>d, <2>3, FinishHands DEF Publish, Goto, HandsOK, Stages
  <2> QED BY <1>6, <1>b, <1>d, <2>2, <2>4 DEF Publish, outcome
<1>7. ASSUME NEW c \in Consumers, Announce(c) PROVE TypeInv'
  <2>1. row[c] \in Rows
      BY <1>7 DEF Announce, InHand, Behind
  <2>2. StoresOK'
      BY <1>7, <1>a, <2>1, EffectStores DEF Announce
  <2> QED BY <1>7, <1>a, <1>b, <1>d, <2>2, FinishHands DEF Announce, outcome
<1>8. ASSUME NEW c \in Consumers, CallFails(c) PROVE TypeInv'
  <2>1. stage[c] \in Calls /\ job[c] \in Records
      BY <1>8, <1>d DEF CallFails, Calls
  <2>2. StoresOK'
      BY <1>8, <1>c, <2>1, EffectTyped DEF CallFails
  <2>3. CASE attempt[c] >= MaxAttempts
    <3>1. Finish(c) /\ dropped' = dropped \union {job[c]}
        BY <1>8, <2>3 DEF CallFails
    <3> QED BY <1>8, <1>a, <1>b, <1>d, <2>1, <2>2, <3>1, FinishHands DEF CallFails
  <2>4. CASE ~ (attempt[c] >= MaxAttempts)
    <3>1. /\ row' = [row EXCEPT ![c] = NoRecord]
          /\ isNew' = [isNew EXCEPT ![c] = FALSE]
          /\ Goto(c, "backoff")
          /\ UNCHANGED dropped
        BY <1>8, <2>4 DEF CallFails
    <3>2. stage[c] # "get" /\ attempt[c] < MaxAttempts
        BY <1>a, <2>1, <2>4, IngestAssumption DEF Calls, HandsOK
    <3>3. HandsOK'
        BY <1>a, <3>1, <3>2, BackoffHands
    <3> QED BY <1>8, <1>b, <1>d, <2>2, <3>1, <3>3 DEF CallFails
  <2> QED BY <2>3, <2>4
<1>9. ASSUME NEW c \in Consumers, CallRejected(c) PROVE TypeInv'
  <2>1. job[c] \in Records
      BY <1>9, <1>d DEF CallRejected, Calls
  <2> QED BY <1>9, <1>a, <1>b, <1>c, <1>d, <2>1, FinishHands DEF CallRejected
<1>10. ASSUME NEW c \in Consumers, Retry(c) PROVE TypeInv'
  <2>1. HandsOK'
      BY <1>10, <1>a, IngestAssumption DEF Retry, HandsOK, Stages
  <2> QED BY <1>10, <1>b, <1>c, <1>d, <2>1 DEF Retry, outcome
<1>11. ASSUME NEW r \in Records, Arrive(r) PROVE TypeInv'
    BY <1>11, <1>a, <1>b, <1>c, <1>d DEF Arrive, work, HandsOK, outcome
<1>12. CASE Restart
  <2>1. HandsOK'
      BY <1>12, IngestAssumption DEF Restart, ForgetWork, HandsOK, Stages
  <2>2. queue' \in Seq(Records) /\ restarts' \in 0 .. MaxRestarts
      BY <1>12, <1>d, IngestAssumption DEF Restart
  <2> QED BY <1>12, <1>b, <1>c, <1>d, <2>1, <2>2 DEF Restart, outcome
<1>13. CASE UNCHANGED ingestVars
    BY <1>13, <1>a, <1>b, <1>c, <1>d DEF ingestVars, work, HandsOK, outcome
<1> QED
    BY <1>1, <1>2, <1>3, <1>4, <1>5, <1>6, <1>7, <1>8, <1>9, <1>10, <1>11, <1>12, <1>13
       DEF IngestNext, ConsumerStep

-----------------------------------------------------------------------------
(* The invariant of the stores *)

\* Consumers other than c are where they were.
OthersStay(c) == \A d \in Consumers \ {c} : /\ job'[d] = job[d]
                                            /\ stage'[d] = stage[d]
                                            /\ row'[d] = row[d]
                                            /\ isNew'[d] = isNew[d]

\* Consumer c lets go of its record or goes back to the start with it.
Leaves(c) == OthersStay(c) /\ stage'[c] \notin Behind /\ ~ isNew'[c]

\* What consumer c may do to the stores: the call it is at, or nothing.
StoresMove(c) == UNCHANGED stores \/ (stage[c] \in Calls /\ job[c] \in Records /\ Effect(c))

\* The cases of StoresMove, with what is known of the row.
LEMMA MoveCases ==
    ASSUME Inv, NEW c \in Consumers, StoresMove(c)
    PROVE  \/ UNCHANGED stores
           \/ \E w \in Rows : InsertRow(w)
           \/ /\ stage[c] = "upsert" /\ row[c] \in Rows
              /\ row[c] \in stored \ counted
              /\ CountIp(row[c])
           \/ /\ stage[c] = "publish" /\ row[c] \in Rows
              /\ row[c] \in counted /\ published[row[c]] = 0
              /\ \E n \in 1 .. Sends : PublishEvent(row[c], n)
           \/ /\ stage[c] = "announce" /\ row[c] \in Rows /\ isNew[c]
              /\ published[row[c]] # 0 /\ announced[SourceIp[row[c]]] = 0
              /\ \E n \in 1 .. Sends : AnnounceIp(row[c], n)
<1> SUFFICES ASSUME stage[c] \in Calls, job[c] \in Records, Effect(c)
             PROVE  \/ \E w \in Rows : InsertRow(w)
                    \/ /\ stage[c] = "upsert" /\ row[c] \in Rows
                       /\ row[c] \in stored \ counted
                       /\ CountIp(row[c])
                    \/ /\ stage[c] = "publish" /\ row[c] \in Rows
                       /\ row[c] \in counted /\ published[row[c]] = 0
                       /\ \E n \in 1 .. Sends : PublishEvent(row[c], n)
                    \/ /\ stage[c] = "announce" /\ row[c] \in Rows /\ isNew[c]
                       /\ published[row[c]] # 0 /\ announced[SourceIp[row[c]]] = 0
                       /\ \E n \in 1 .. Sends : AnnounceIp(row[c], n)
    BY DEF StoresMove
<1>1. /\ stage[c] \in Behind => row[c] \in Rows
      /\ stage[c] = "upsert" => row[c] \in stored \ counted
      /\ stage[c] = "publish" => row[c] \in counted /\ published[row[c]] = 0
      /\ stage[c] = "announce" => published[row[c]] # 0 /\ isNew[c]
    BY DEF Inv, LedgerInv, InHand
<1>2. isNew[c] => announced[SourceIp[row[c]]] = 0
    BY DEF Inv, LedgerInv, FirstSeen
<1> QED BY <1>1, <1>2, EffectCases, RowFacts DEF Behind

\* Whatever a consumer does to the stores is a step of the ledger.
LEMMA EffectIsLedgerStep ==
    ASSUME Inv, NEW c \in Consumers, StoresMove(c)
    PROVE  [Ledger!LNext]_Ledger!ledger
<1>0. /\ published \in [Rows -> Nat]
      /\ announced \in [Ips -> Nat]
    BY DEF Inv, TypeInv, IngestTypeOK
<1>1. CASE UNCHANGED stores
    BY <1>1 DEF stores, Ledger!ledger
<1>2. ASSUME NEW w \in Rows, InsertRow(w)
      PROVE  [Ledger!LNext]_Ledger!ledger
  <2>1. CASE w \in stored
      BY <1>2, <2>1 DEF InsertRow, Ledger!ledger
  <2>2. CASE w \notin stored
      BY <1>2, <2>2 DEF InsertRow, Ledger!LNext, Ledger!Store
  <2> QED BY <2>1, <2>2
<1>3. CASE row[c] \in Rows /\ row[c] \in stored \ counted /\ CountIp(row[c])
    BY <1>3 DEF CountIp, Ledger!LNext, Ledger!Count
<1>4. ASSUME row[c] \in Rows, row[c] \in counted, published[row[c]] = 0,
             NEW n \in 1 .. Sends, PublishEvent(row[c], n)
      PROVE  [Ledger!LNext]_Ledger!ledger
  <2>1. published' = [published EXCEPT ![row[c]] = n]
      BY <1>0, <1>4, SendsPositive DEF PublishEvent
  <2> QED BY <1>4, <2>1 DEF PublishEvent, Ledger!LNext, Ledger!Publish
<1>5. ASSUME row[c] \in Rows, published[row[c]] # 0, announced[SourceIp[row[c]]] = 0,
             NEW n \in 1 .. Sends, AnnounceIp(row[c], n)
      PROVE  [Ledger!LNext]_Ledger!ledger
  <2> DEFINE ip == SourceIp[row[c]]
  <2>1. ip \in Ips
      BY <1>5, RowFacts
  <2>2. announced' = [announced EXCEPT ![ip] = n]
    <3>1. announced' = [announced EXCEPT ![ip] = announced[ip] + n]
        BY <1>5 DEF AnnounceIp
    <3>2. announced[ip] + n = n
        BY <1>5, SendsPositive
    <3> QED BY <3>1, <3>2
  <2>3. published[row[c]] > 0
    <3>1. published[row[c]] \in Nat /\ published[row[c]] # 0
        BY <1>0, <1>5
    <3> QED BY <3>1
  <2>4. Ledger!Announce(ip)
      BY <1>5, <2>2, <2>3 DEF AnnounceIp, Ledger!Announce
  <2> QED BY <2>1, <2>4 DEF Ledger!LNext
<1> QED BY <1>1, <1>2, <1>3, <1>4, <1>5, MoveCases

\* A consumer that leaves its record where it is disturbs nobody, whatever its
\* last call has done.
LEMMA LeaveStep ==
    ASSUME Inv, NEW c \in Consumers, Leaves(c), StoresMove(c)
    PROVE  LedgerInv'
<1>1. /\ stage'[c] \notin Behind /\ ~ isNew'[c]
      /\ \A d \in Consumers : d # c => /\ job'[d] = job[d]
                                       /\ stage'[d] = stage[d]
                                       /\ row'[d] = row[d]
                                       /\ isNew'[d] = isNew[d]
    BY DEF Leaves, OthersStay
<1>0. /\ published \in [Rows -> Nat]
      /\ announced \in [Ips -> Nat]
      /\ ipCount \in [Ips -> Nat]
    BY DEF Inv, TypeInv, IngestTypeOK
<1>2. Alone'
    BY <1>1 DEF Inv, LedgerInv, Alone
<1>3. \A d \in Consumers : d # c /\ stage[d] \in Behind /\ stage[c] \in Behind => row[c] # row[d]
    BY DEF Inv, LedgerInv, Alone
\* What the step does to the sets, one fact per store.
<1>4. /\ stored \subseteq stored'
      /\ \/ counted' = counted
         \/ /\ counted' = counted \union {row[c]} /\ row[c] \in stored
            /\ stage[c] = "upsert"
    BY MoveCases DEF stores, InsertRow, CountIp, PublishEvent, AnnounceIp
<1>5. \/ published' = published
      \/ /\ stage[c] = "publish" /\ row[c] \in Rows /\ row[c] \in counted
         /\ \E n \in 1 .. Sends : published' = [published EXCEPT ![row[c]] = @ + n]
    BY MoveCases DEF stores, InsertRow, CountIp, PublishEvent, AnnounceIp
<1>6. \/ announced' = announced
      \/ /\ row[c] \in Rows /\ isNew[c]
         /\ \E n \in 1 .. Sends : announced' = [announced EXCEPT ![SourceIp[row[c]]] = @ + n]
    BY MoveCases DEF stores, InsertRow, CountIp, PublishEvent, AnnounceIp
<1>7. \/ ipCount' = ipCount
      \/ row[c] \in Rows /\ ipCount' = [ipCount EXCEPT ![SourceIp[row[c]]] = @ + 1]
    BY MoveCases DEF stores, InsertRow, CountIp, PublishEvent, AnnounceIp
<1>8. \A w \in Rows : \/ published'[w] = published[w]
                      \/ /\ w = row[c] /\ stage[c] = "publish" /\ w \in counted
                         /\ published'[w] # 0
    BY <1>0, <1>5, SendsPositive
<1>9. \A ip \in Ips : \/ announced'[ip] = announced[ip]
                      \/ row[c] \in Rows /\ isNew[c] /\ ip = SourceIp[row[c]]
    BY <1>0, <1>6, SendsPositive
<1>10. \A ip \in Ips : ipCount[ip] # 0 => ipCount'[ip] # 0
    BY <1>0, <1>7, RowFacts
<1>11. Nested'
    BY <1>4, <1>8 DEF Inv, LedgerInv, Nested
<1>12. InHand'
  <2> SUFFICES ASSUME NEW d \in Consumers, d # c
               PROVE  /\ stage[d] \in Behind => row[d] \in Rows /\ row[d][1] = job[d]
                      /\ stage[d] = "upsert" => row[d] \in stored' \ counted'
                      /\ stage[d] = "publish" => row[d] \in counted' /\ published'[row[d]] = 0
                      /\ stage[d] = "announce" => published'[row[d]] # 0 /\ isNew[d]
      BY <1>1 DEF InHand, Behind
  <2>1. /\ stage[d] \in Behind => row[d] \in Rows /\ row[d][1] = job[d]
        /\ stage[d] = "upsert" => row[d] \in stored \ counted
        /\ stage[d] = "publish" => row[d] \in counted /\ published[row[d]] = 0
        /\ stage[d] = "announce" => published[row[d]] # 0 /\ isNew[d]
      BY DEF Inv, LedgerInv, InHand
  <2>2. stage[d] \in Behind /\ stage[c] \in Behind => row[c] # row[d]
      BY <1>3
  <2>3. stage[d] = "upsert" => row[d] \notin counted'
      BY <1>4, <2>1, <2>2 DEF Behind
  <2>4. stage[d] = "publish" => published'[row[d]] = 0
      BY <1>8, <2>1, <2>2 DEF Behind
  <2>5. stage[d] = "announce" => published'[row[d]] # 0
      BY <1>8, <2>1 DEF Behind
  <2> QED BY <1>4, <2>1, <2>3, <2>4, <2>5
<1>13. FirstSeen'
  <2>1. ASSUME NEW d \in Consumers, isNew'[d]
        PROVE  /\ stage'[d] \in {"publish", "announce"}
               /\ announced'[SourceIp[row'[d]]] = 0
               /\ ipCount'[SourceIp[row'[d]]] # 0
    <3>1. d # c /\ isNew[d]
        BY <1>1, <2>1
    <3>2. stage[d] \in {"publish", "announce"} /\ announced[SourceIp[row[d]]] = 0
          /\ ipCount[SourceIp[row[d]]] # 0
        BY <3>1 DEF Inv, LedgerInv, FirstSeen
    <3>3. row[d] \in Rows /\ SourceIp[row[d]] \in Ips
        BY <3>2, RowFacts DEF Inv, LedgerInv, InHand, Behind
    <3>4. isNew[c] => SourceIp[row[c]] # SourceIp[row[d]]
        BY <3>1 DEF Inv, LedgerInv, FirstSeen
    <3> QED BY <1>1, <1>9, <1>10, <3>1, <3>2, <3>3, <3>4
  <2>2. ASSUME NEW d \in Consumers, NEW e \in Consumers, d # e, isNew'[d], isNew'[e]
        PROVE  SourceIp[row'[d]] # SourceIp[row'[e]]
      BY <1>1, <2>2 DEF Inv, LedgerInv, FirstSeen
  <2>3. ASSUME NEW ip \in Ips, announced'[ip] # 0
        PROVE  ipCount'[ip] # 0
    <3>1. ipCount[ip] # 0
        BY <1>9, <2>3 DEF Inv, LedgerInv, FirstSeen
    <3> QED BY <1>10, <3>1
  <2> QED BY <2>1, <2>2, <2>3 DEF FirstSeen
<1> QED BY <1>2, <1>11, <1>12, <1>13 DEF LedgerInv

\* A consumer whose insert found no row is the one the row belongs to.
LEMMA InsertStep ==
    ASSUME Inv, NEW c \in Consumers, Insert(c)
    PROVE  LedgerInv'
<1>1. PICK w \in RowsOf(job[c]) \ stored :
          InsertRow(w) /\ row' = [row EXCEPT ![c] = w]
    BY DEF Insert
<1>2. /\ stage[c] = "insert"
      /\ job[c] \in Records
      /\ stage' = [stage EXCEPT ![c] = "upsert"]
      /\ UNCHANGED <<job, isNew, ipCount, published, announced, counted>>
      /\ stored' = stored \union {w}
    BY <1>1 DEF Insert, InsertRow, Goto, Inv, TypeInv, IngestTypeOK
<1>3. w \in Rows /\ w[1] = job[c]
    BY <1>2, RowFacts
<1>4. /\ stage'[c] = "upsert" /\ row'[c] = w
      /\ \A d \in Consumers : d # c => stage'[d] = stage[d] /\ row'[d] = row[d]
    BY <1>1, <1>2 DEF Inv, TypeInv, IngestTypeOK
<1>5. ~ isNew[c]
    BY <1>2 DEF Inv, LedgerInv, FirstSeen
<1>6. \A d \in Consumers : stage[d] \in Behind => row[d] \in stored
    BY DEF Inv, LedgerInv, Nested, InHand, Behind
<1>7. Nested'
    BY <1>2 DEF Inv, LedgerInv, Nested
<1>8. InHand'
    BY <1>1, <1>2, <1>3, <1>4 DEF Inv, LedgerInv, Nested, InHand
<1>9. Alone'
    BY <1>1, <1>4, <1>6 DEF Inv, LedgerInv, Alone, Behind
<1>10. FirstSeen'
    BY <1>2, <1>4, <1>5 DEF Inv, LedgerInv, FirstSeen
<1> QED BY <1>7, <1>8, <1>9, <1>10 DEF LedgerInv

\* The consumer that counts the first event of an address is the only one to
\* find it new: nobody else can have, and it was not announced.
LEMMA UpsertStep ==
    ASSUME Inv, NEW c \in Consumers, Upsert(c)
    PROVE  LedgerInv'
<1> DEFINE ip == SourceIp[row[c]]
<1>1. /\ stage[c] = "upsert"
      /\ counted' = counted \union {row[c]}
      /\ ipCount' = [ipCount EXCEPT ![ip] = @ + 1]
      /\ isNew' = [isNew EXCEPT ![c] = ipCount[ip] = 0]
      /\ stage' = [stage EXCEPT ![c] = "publish"]
      /\ UNCHANGED <<job, row, stored, published, announced>>
    BY DEF Upsert, CountIp, Goto
<1>2. /\ stage \in [Consumers -> Stages]
      /\ isNew \in [Consumers -> BOOLEAN]
      /\ ipCount \in [Ips -> Nat]
      /\ announced \in [Ips -> Nat]
    BY DEF Inv, TypeInv, IngestTypeOK
<1>3. \A d \in Consumers : stage[d] \in Behind => row[d] \in Rows /\ SourceIp[row[d]] \in Ips
    BY RowFacts DEF Inv, LedgerInv, InHand
<1>4. ip \in Ips /\ row[c] \in Rows /\ row[c] \in stored \ counted /\ published[row[c]] = 0
    BY <1>1, <1>3 DEF Inv, LedgerInv, InHand, Nested, Behind
<1>5. Nested'
    BY <1>1, <1>4 DEF Inv, LedgerInv, Nested
<1>6. Alone'
    BY <1>1, <1>2 DEF Inv, LedgerInv, Alone, Behind
<1>7. InHand'
  <2>1. ASSUME NEW d \in Consumers, d # c
        PROVE  /\ stage[d] = "upsert" => row[d] # row[c]
               /\ stage'[d] = stage[d]
               /\ isNew'[d] = isNew[d]
      BY <1>1, <1>2, <2>1 DEF Inv, LedgerInv, Alone, Behind
  <2>2. stage'[c] = "publish"
      BY <1>1, <1>2
  <2>3. row[c] \in Rows /\ row[c][1] = job[c]
      BY <1>1 DEF Inv, LedgerInv, InHand, Behind
  <2> QED BY <1>1, <1>4, <2>1, <2>2, <2>3 DEF Inv, LedgerInv, Nested, InHand
<1>8. ipCount'[ip] # 0 /\ \A other \in Ips : ipCount[other] # 0 => ipCount'[other] # 0
    BY <1>1, <1>2, <1>4
<1>9. FirstSeen'
  <2>1. \A d \in Consumers : d # c => stage'[d] = stage[d] /\ isNew'[d] = isNew[d]
      BY <1>1, <1>2
  <2>2. /\ stage'[c] = "publish"
        /\ isNew'[c] => ipCount[ip] = 0
      BY <1>1, <1>2
  <2>3. ipCount[ip] = 0 => /\ announced[ip] = 0
                           /\ \A d \in Consumers : isNew[d] => SourceIp[row[d]] # ip
      BY <1>4 DEF Inv, LedgerInv, FirstSeen
  <2>4. \A d \in Consumers : isNew[d] => SourceIp[row[d]] \in Ips
      BY <1>3 DEF Inv, LedgerInv, FirstSeen, Behind
  <2>5. ASSUME NEW d \in Consumers, isNew'[d]
        PROVE  /\ stage'[d] \in {"publish", "announce"}
               /\ announced[SourceIp[row[d]]] = 0
               /\ ipCount'[SourceIp[row[d]]] # 0
      BY <1>8, <2>1, <2>2, <2>3, <2>4, <2>5 DEF Inv, LedgerInv, FirstSeen
  <2>6. ASSUME NEW d \in Consumers, NEW e \in Consumers, d # e, isNew'[d], isNew'[e]
        PROVE  SourceIp[row[d]] # SourceIp[row[e]]
      BY <2>1, <2>2, <2>3, <2>6 DEF Inv, LedgerInv, FirstSeen
  <2>7. \A other \in Ips : announced[other] # 0 => ipCount'[other] # 0
      BY <1>8 DEF Inv, LedgerInv, FirstSeen
  <2> QED BY <1>1, <2>5, <2>6, <2>7 DEF FirstSeen
<1> QED BY <1>5, <1>6, <1>7, <1>9 DEF LedgerInv

\* A consumer with a new address goes on to announce it.
LEMMA PublishStep ==
    ASSUME Inv, NEW c \in Consumers, Publish(c), isNew[c]
    PROVE  LedgerInv'
<1>1. /\ stage[c] = "publish"
      /\ stage' = [stage EXCEPT ![c] = "announce"]
      /\ UNCHANGED <<job, row, isNew, stored, counted, ipCount, announced>>
    BY DEF Publish, PublishEvent, Goto
<1>2. PICK n \in 1 .. Sends : published' = [published EXCEPT ![row[c]] = @ + n]
    BY DEF Publish, PublishEvent
<1>3. stage \in [Consumers -> Stages] /\ published \in [Rows -> Nat]
    BY DEF Inv, TypeInv, IngestTypeOK
<1>4. row[c] \in Rows /\ row[c][1] = job[c] /\ row[c] \in counted /\ published[row[c]] = 0
    BY <1>1 DEF Inv, LedgerInv, InHand, Behind
<1>5. published'[row[c]] # 0 /\ \A w \in Rows : w # row[c] => published'[w] = published[w]
    BY <1>2, <1>3, <1>4, SendsPositive
<1>6. /\ stage'[c] = "announce"
      /\ \A d \in Consumers : d # c => stage'[d] = stage[d]
    BY <1>1, <1>3
<1>7. Nested' /\ Alone' /\ FirstSeen'
    BY <1>1, <1>4, <1>5, <1>6 DEF Inv, LedgerInv, Nested, Alone, FirstSeen, Behind
<1>8. InHand'
  <2>1. \A d \in Consumers : d # c /\ stage[d] \in Behind => row[d] # row[c] /\ row[d] \in Rows
      BY <1>1 DEF Inv, LedgerInv, Alone, InHand, Behind
  <2> QED BY <1>1, <1>4, <1>5, <1>6, <2>1 DEF Inv, LedgerInv, InHand, Behind
<1> QED BY <1>7, <1>8 DEF LedgerInv

-----------------------------------------------------------------------------
(* Every step *)

LEMMA FinishLeaves ==
    ASSUME Inv, NEW c \in Consumers, Finish(c)
    PROVE  Leaves(c)
BY DEF Inv, TypeInv, IngestTypeOK, Finish, Leaves, OthersStay, Behind

\* What a consumer step does to the stores, and what it leaves of the invariant.
LEMMA ConsumerLedger ==
    ASSUME Inv, NEW c \in Consumers, ConsumerStep(c)
    PROVE  StoresMove(c) /\ LedgerInv'
<1> USE DEF Inv, TypeInv, IngestTypeOK
<1>1. stage[c] # "get" => job[c] \in Records
    OBVIOUS
<1>2. CASE TakeRecord(c)
  <2>1. Leaves(c) /\ StoresMove(c)
      BY <1>2 DEF TakeRecord, Leaves, OthersStay, Behind, StoresMove, LedgerInv, FirstSeen
  <2> QED BY <2>1, LeaveStep
<1>3. CASE Ignore(c) \/ InsertConflict(c) \/ CallRejected(c)
  <2>1. Finish(c) /\ StoresMove(c)
      BY <1>3 DEF Ignore, InsertConflict, CallRejected, StoresMove, stores
  <2> QED BY <2>1, FinishLeaves, LeaveStep
<1>4. CASE Retry(c)
  <2>1. Leaves(c) /\ StoresMove(c)
      BY <1>4 DEF Retry, Leaves, OthersStay, Behind, StoresMove, LedgerInv, FirstSeen
  <2> QED BY <2>1, LeaveStep
<1>5. CASE CallFails(c)
  <2>1. StoresMove(c)
      BY <1>1, <1>5 DEF CallFails, StoresMove, Calls
  <2>2. CASE Finish(c)
      BY <2>1, <2>2, FinishLeaves, LeaveStep
  <2>3. CASE /\ row' = [row EXCEPT ![c] = NoRecord]
             /\ isNew' = [isNew EXCEPT ![c] = FALSE]
             /\ Goto(c, "backoff")
    <3>1. Leaves(c)
        BY <2>3 DEF Goto, Leaves, OthersStay, Behind
    <3> QED BY <2>1, <3>1, LeaveStep
  <2> QED BY <1>5, <2>2, <2>3 DEF CallFails
<1>6. CASE Insert(c)
  <2>1. Effect(c) /\ stage[c] \in Calls
      BY <1>6 DEF Insert, Calls, Effect
  <2>2. StoresMove(c)
      BY <1>1, <2>1 DEF StoresMove, Calls
  <2> QED BY <1>6, <2>2, InsertStep
<1>7. CASE Upsert(c)
  <2>1. StoresMove(c)
      BY <1>1, <1>7 DEF Upsert, StoresMove, Calls, Effect
  <2> QED BY <1>7, <2>1, UpsertStep
<1>8. CASE Publish(c)
  <2>1. StoresMove(c)
      BY <1>1, <1>8 DEF Publish, StoresMove, Calls, Effect
  <2>2. CASE isNew[c]
      BY <1>8, <2>1, <2>2, PublishStep
  <2>3. CASE ~ isNew[c]
    <3>1. Finish(c)
        BY <1>8, <2>3, Zenon DEF Publish
    <3> QED BY <2>1, <3>1, FinishLeaves, LeaveStep
  <2> QED BY <2>2, <2>3
<1>9. CASE Announce(c)
  <2>1. Finish(c) /\ StoresMove(c)
      BY <1>1, <1>9 DEF Announce, StoresMove, Calls, Effect
  <2> QED BY <2>1, FinishLeaves, LeaveStep
<1> QED
    BY <1>2, <1>3, <1>4, <1>5, <1>6, <1>7, <1>8, <1>9 DEF ConsumerStep

\* Behind the insert, the record in hand has a row.
LEMMA BehindRecorded ==
    ASSUME Inv, NEW c \in Consumers, stage[c] \in Behind
    PROVE  job[c] \in Recorded
<1>1. row[c] \in stored /\ row[c][1] = job[c]
    BY DEF Inv, LedgerInv, Nested, InHand, Behind
<1> QED BY <1>1 DEF Recorded

\* What is neither in the stores nor in a hand does not matter to the ledger.
LEMMA KeepsLedger ==
    ASSUME LedgerInv, UNCHANGED <<job, stage, row, isNew, stores>>
    PROVE  LedgerInv'
<1>1. Nested' /\ InHand'
    BY DEF LedgerInv, Nested, InHand, stores
<1>2. Alone'
    BY DEF LedgerInv, Alone
<1>3. FirstSeen'
  <2>1. /\ isNew' = isNew /\ stage' = stage /\ row' = row
        /\ announced' = announced /\ ipCount' = ipCount
      BY DEF stores
  <2>2. FirstSeen
      BY DEF LedgerInv
  <2> QED BY <2>1, <2>2, SMT DEF FirstSeen
<1> QED BY <1>1, <1>2, <1>3 DEF LedgerInv

\* Nor does it that every consumer forgets its record.
LEMMA ForgetKeepsLedger ==
    ASSUME LedgerInv, UNCHANGED stores, ForgetWork
    PROVE  LedgerInv'
<1>1. \A c \in Consumers : stage'[c] = "get" /\ ~ isNew'[c]
    BY DEF ForgetWork
<1>2. Nested' /\ InHand' /\ Alone'
    BY <1>1 DEF LedgerInv, Nested, InHand, Alone, Behind, stores
<1>3. FirstSeen'
  <2>1. announced' = announced /\ ipCount' = ipCount
      BY DEF stores
  <2>2. \A ip \in Ips : announced[ip] # 0 => ipCount[ip] # 0
      BY DEF LedgerInv, FirstSeen
  <2> QED BY <1>1, <2>1, <2>2, SMT DEF FirstSeen
<1> QED BY <1>2, <1>3 DEF LedgerInv

\* Every step keeps the invariant and is a step of the ledger.
LEMMA IngestStep ==
    ASSUME Inv, [IngestNext]_ingestVars
    PROVE  Inv' /\ [Ledger!LNext]_Ledger!ledger
<1>1. TypeInv'
    BY TypeStep DEF Inv, LedgerInv
<1>2. ASSUME NEW c \in Consumers, ConsumerStep(c)
      PROVE  LedgerInv' /\ [Ledger!LNext]_Ledger!ledger
    BY <1>2, ConsumerLedger, EffectIsLedgerStep
<1>3. CASE UNCHANGED <<job, stage, row, isNew, stores>>
    BY <1>1, <1>3, KeepsLedger DEF Inv, stores, Ledger!ledger
<1>4. ASSUME NEW r \in Records, Arrive(r)
      PROVE  UNCHANGED <<job, stage, row, isNew, stores>>
    BY <1>4 DEF Arrive, work
<1>5. CASE Restart
    BY <1>1, <1>5, ForgetKeepsLedger DEF Inv, Restart, stores, Ledger!ledger
<1>6. CASE UNCHANGED ingestVars
    BY <1>3, <1>6 DEF ingestVars, work
<1> QED BY <1>1, <1>2, <1>3, <1>4, <1>5, <1>6 DEF IngestNext, Inv

\* Every variable of the consumers stays in its range, and no record is tried
\* more often than INGEST_ITEM_MAX_ATTEMPTS.
THEOREM IngestTypeCorrect == IngestSpec => []IngestTypeOK
<1>1. Inv => IngestTypeOK
    BY DEF Inv, TypeInv
<1> QED
    BY <1>1, InitInv, IngestStep, PTL DEF IngestSpec

\* The ingestor implements the ledger: whatever is replayed, retried after a
\* failure that may have taken effect, or handled by several consumers at once,
\* a row is counted by one statement and then published by one call, and an
\* address announced by one call, though that call may have been sent several
\* times and a record without a timestamp may have several rows.
THEOREM LedgerImplemented == IngestSpec => LedgerKept
<1>1. IngestInit => Ledger!LInit
    BY DEF IngestInit, WorkInit, Ledger!LInit
<1>2. IngestSpec => []Inv
    BY InitInv, IngestStep, PTL DEF IngestSpec
<1> QED
    BY <1>1, <1>2, IngestStep, PTL DEF IngestSpec, LedgerKept, Ledger!LSpec

-----------------------------------------------------------------------------
(* Counts *)

CountedOf(ip) == {w \in counted : SourceIp[w] = ip}

\* An address's count is the number of its records counted.
CountInv == \A ip \in Ips : ipCount[ip] = Cardinality(CountedOf(ip))

LEMMA RowsFinite == IsFiniteSet(Rows)
BY FS_Product, IngestAssumption DEF Rows

LEMMA CountStep ==
    ASSUME Inv, CountInv, [Ledger!LNext]_Ledger!ledger
    PROVE  CountInv'
<1>1. CASE UNCHANGED <<counted, ipCount>>
    BY <1>1 DEF CountInv, CountedOf
<1>2. ASSUME NEW w \in Rows, Ledger!Count(w)
      PROVE  CountInv'
  <2> SUFFICES ASSUME NEW ip \in Ips
               PROVE  ipCount'[ip] = Cardinality(CountedOf(ip)')
      BY DEF CountInv
  <2>1. /\ w \notin counted
        /\ counted' = counted \union {w}
        /\ ipCount' = [ipCount EXCEPT ![SourceIp[w]] = @ + 1]
        /\ ipCount \in [Ips -> Nat]
        /\ counted \subseteq Rows
      BY <1>2 DEF Ledger!Count, Inv, TypeInv, IngestTypeOK
  <2>2. ipCount[ip] = Cardinality(CountedOf(ip))
      BY DEF CountInv
  <2>3. CASE SourceIp[w] = ip
    <3>1. CountedOf(ip)' = CountedOf(ip) \union {w} /\ w \notin CountedOf(ip)
        BY <2>1, <2>3 DEF CountedOf
    <3>2. IsFiniteSet(CountedOf(ip))
        BY <2>1, FS_Subset, RowsFinite DEF CountedOf
    <3>3. Cardinality(CountedOf(ip)') = Cardinality(CountedOf(ip)) + 1
        BY <3>1, <3>2, FS_AddElement
    <3> QED BY <2>1, <2>2, <2>3, <3>3
  <2>4. CASE SourceIp[w] # ip
    <3>1. CountedOf(ip)' = CountedOf(ip)
        BY <2>1, <2>4 DEF CountedOf
    <3> QED BY <2>1, <2>2, <2>4, <3>1
  <2> QED BY <2>3, <2>4
<1>3. ASSUME NEW w \in Rows, Ledger!Store(w) \/ Ledger!Publish(w)
      PROVE  UNCHANGED <<counted, ipCount>>
    BY <1>3 DEF Ledger!Store, Ledger!Publish
<1>4. ASSUME NEW ip \in Ips, Ledger!Announce(ip)
      PROVE  UNCHANGED <<counted, ipCount>>
    BY <1>4 DEF Ledger!Announce
<1>5. CASE UNCHANGED Ledger!ledger
    BY <1>1, <1>5 DEF Ledger!ledger
<1> QED BY <1>1, <1>2, <1>3, <1>4, <1>5 DEF Ledger!LNext

\* event_count is never inflated: an address is credited with at most as many
\* events as it has rows.
THEOREM CountsHonest == IngestSpec => []CountNeverInflated
<1>1. IngestInit => CountInv
  <2>1. ASSUME IngestInit, NEW ip \in Ips
        PROVE  ipCount[ip] = 0 /\ CountedOf(ip) = {}
      BY <2>1 DEF IngestInit, WorkInit, CountedOf
  <2> QED BY <2>1, FS_EmptySet DEF CountInv
<1>2. Inv /\ CountInv /\ [IngestNext]_ingestVars => CountInv'
    BY IngestStep, CountStep
<1>3. ASSUME Inv, CountInv PROVE CountNeverInflated
  <2> SUFFICES ASSUME NEW ip \in Ips
               PROVE  ipCount[ip] <= Cardinality({w \in stored : SourceIp[w] = ip})
      BY DEF CountNeverInflated
  <2> DEFINE Own == {w \in stored : SourceIp[w] = ip}
  <2>1. /\ stored \subseteq Rows
        /\ counted \subseteq stored
      BY <1>3 DEF Inv, TypeInv, IngestTypeOK, LedgerInv, Nested
  <2>2. IsFiniteSet(Own) /\ CountedOf(ip) \subseteq Own
      BY <2>1, FS_Subset, RowsFinite DEF CountedOf
  <2>3. Cardinality(CountedOf(ip)) <= Cardinality(Own)
      BY <2>2, FS_Subset
  <2> QED BY <1>3, <2>3 DEF CountInv
<1> QED
    BY <1>1, <1>2, <1>3, InitInv, IngestStep, PTL DEF IngestSpec
==============================================================================
