------------------------- MODULE EnrichQueue_proofs -------------------------
(***************************************************************************)
(* Proofs about EnrichQueue, for any addresses, batches, attempts and      *)
(* bounds.                                                                 *)
(***************************************************************************)
EXTENDS EnrichQueue, FiniteSetTheorems, SequenceTheorems, TLAPS

-----------------------------------------------------------------------------
(* Names, sequences and sets *)

\* A set of naturals that is not empty has a least element.
LEMMA LeastElement ==
    ASSUME NEW S \in SUBSET Nat, S # {}
    PROVE  \E i \in S : \A j \in S : i <= j
<1> DEFINE R == OpToRel(<, Nat)
<1>1. IsWellFoundedOn(R, Nat)
  BY NatLessThanWellFounded
<1>2. \A a \in Nat, b \in Nat : a < b => <<a, b>> \in R
  BY DEF OpToRel
<1>3. \E i \in S : \A j \in S : ~ (<<j, i>> \in R)
  <2> HIDE DEF R
  <2> QED
    BY <1>1, WFMin
<1> HIDE DEF R
<1>4. PICK i \in S : \A j \in S : ~ (<<j, i>> \in R)
  BY <1>3
<1>5. ASSUME NEW j \in S PROVE i <= j
  <2>1. i \in Nat /\ j \in Nat
    OBVIOUS
  <2>2. ~ (j < i)
    BY <1>2, <1>4, <2>1, Zenon
  <2> QED
    BY <2>1, <2>2
<1> QED
  BY <1>5

\* SetToSeq lists a finite set, each element once.
LEMMA SetToSeqLists ==
    ASSUME NEW T, NEW S \in SUBSET T, IsFiniteSet(S), S # {}
    PROVE  /\ SetToSeq(S) \in Seq(T)
           /\ SetToSeq(S) # <<>>
           /\ \A k \in 1 .. Len(SetToSeq(S)) : SetToSeq(S)[k] \in S
<1> DEFINE n == Cardinality(S)
<1>1. n \in Nat /\ ExistsBijection(1 .. n, S)
  BY FS_CardinalityType
<1>2. PICK f : f \in Bijection(1 .. n, S)
  BY <1>1 DEF ExistsBijection
<1>3. f \in [1 .. n -> S] /\ IsInjective(f)
  BY <1>2 DEF Bijection, Injection
<1>4. SetToSeq(S) \in [1 .. n -> S]
  BY <1>3 DEF SetToSeq
<1>5. n # 0
  BY FS_EmptySet
<1> QED
  BY <1>1, <1>4, <1>5

-----------------------------------------------------------------------------
(* Type correctness *)

\* No two places of the stream hold entries of one id.
Distinct ==
    \A j, k \in 1 .. Len(stream) : stream[j].id = stream[k].id => j = k

\* A message is only queued again while it has tries left.
TypeInv ==
    /\ QueueTypeOK
    /\ batch \in [Loops -> Seq(Entries)]
    /\ Distinct
    /\ \A l \in Loops : at[l] = "requeue" => ~ LastTry(Msg(l))

\* The message in hand is an entry, and what is left of the batch stays one.
LEMMA MsgType ==
    ASSUME TypeInv, NEW l \in Loops, at[l] \in Handling
    PROVE  /\ Msg(l) \in Entries
           /\ Msg(l) \in InBatch(l)
           /\ Len(batch[l]) \in Nat \ {0}
           /\ Tail(batch[l]) \in Seq(Entries)
           /\ Len(batch[l]) # 1 => Tail(batch[l]) # <<>>
           /\ Len(batch[l]) = 1 => Tail(batch[l]) = <<>>
           /\ {Tail(batch[l])[k] : k \in 1 .. Len(Tail(batch[l]))} \subseteq InBatch(l)
<1> DEFINE b == batch[l]
<1>1. b \in Seq(Entries) /\ b # <<>>
  BY DEF TypeInv, QueueTypeOK
<1>2. Len(b) \in Nat \ {0} /\ Head(b) = b[1] /\ b[1] \in Entries
  BY <1>1
<1>3. /\ Tail(b) \in Seq(Entries) /\ Len(Tail(b)) = Len(b) - 1
      /\ \A k \in 1 .. Len(b) - 1 : Tail(b)[k] = b[k + 1]
  BY <1>1
<1>4. Tail(b) # <<>> => Len(Tail(b)) # 0
  BY <1>3, EmptySeq
<1>5. Len(b) # 1 <=> Tail(b) # <<>>
  <2>1. Len(<<>>) = 0
    OBVIOUS
  <2>2. CASE Len(b) = 1
    BY <1>3, <1>4, <2>2
  <2>3. CASE Len(b) # 1
    <3>1. Len(Tail(b)) # 0
      BY <1>2, <1>3, <2>3
    <3> QED
      BY <2>1, <2>3, <3>1
  <2> QED
    BY <2>2, <2>3
<1>6. \A k \in 1 .. Len(Tail(b)) : Tail(b)[k] \in InBatch(l)
  BY <1>2, <1>3 DEF InBatch
<1> QED
  BY <1>2, <1>3, <1>4, <1>5, <1>6 DEF Msg, InBatch

\* XADD puts one new entry at the end, under an id nobody uses; what it trims
\* away unanswered is recorded.
LEMMA XAddFacts ==
    ASSUME TypeInv, NEW ip \in Addrs, NEW force \in BOOLEAN,
           NEW attempt \in 0 .. MaxAttempts - 1, XAdd(ip, force, attempt)
    PROVE  \E e \in Entries :
              /\ e.ip = ip /\ e.attempt = attempt
              /\ e \notin InStream \union pending \union Holding
              /\ stream' \in Seq(Entries) /\ Len(stream') <= StreamMax
              /\ unread' \in 0 .. Len(stream')
              /\ pending' \subseteq InStream' \ Waiting' /\ pending' \subseteq pending
              /\ Distinct'
              /\ InStream' \subseteq InStream \union {e}
              /\ e \in Waiting'
              /\ \A x \in Waiting \union pending :
                     x \in Waiting' \union pending' \/ x.ip \in missed'
              /\ missed \subseteq missed' /\ missed' \subseteq Addrs
<1>1. /\ stream \in Seq(Entries) /\ Len(stream) \in Nat /\ Len(stream) <= StreamMax
      /\ unread \in 0 .. Len(stream) /\ pending \subseteq InStream \ Waiting
      /\ StreamMax \in Nat \ {0} /\ missed \subseteq Addrs
      /\ \A k \in 1 .. Len(stream) : stream[k] \in Entries
  BY QueueAssumption DEF TypeInv, QueueTypeOK
<1> DEFINE i == CHOOSE i \in FreeIds : \A j \in FreeIds : i <= j
           e == [id |-> i, ip |-> ip, force |-> force, attempt |-> attempt]
           n == Len(stream)
<1>2. FreeIds \in SUBSET Nat /\ FreeIds # {}
  BY QueueAssumption DEF FreeIds, XAdd
<1>3. i \in FreeIds
  <2>1. \E m \in FreeIds : \A j \in FreeIds : m <= j
    BY <1>2, LeastElement
  <2> QED
    BY <2>1
<1>4. e \in Entries /\ e.ip = ip /\ e.attempt = attempt /\ e.id = i
  BY <1>3 DEF Entries, FreeIds
<1>5. e.id \notin {x.id : x \in InStream \union pending \union Holding}
  BY <1>3, <1>4 DEF FreeIds
<1>6. e \notin InStream \union pending \union Holding
  BY <1>5
<1>7. \A k \in 1 .. n : stream[k].id # e.id /\ stream[k] # e
  BY <1>5 DEF InStream
<1>8. XAdd(ip, force, attempt) =>
        IF n < StreamMax
        THEN /\ stream' = Append(stream, e)
             /\ unread' = unread + 1
             /\ UNCHANGED <<pending, missed>>
        ELSE /\ stream' = Append(Tail(stream), e)
             /\ unread' = IF unread < StreamMax THEN unread + 1 ELSE unread
             /\ pending' = pending \ {Head(stream)}
             /\ Lose({Head(stream)} \intersect (Waiting \union pending))
  BY DEF XAdd
<1> HIDE DEF e, i
<1>9. CASE n < StreamMax
  <2>1. /\ stream' = Append(stream, e) /\ unread' = unread + 1
        /\ UNCHANGED <<pending, missed>>
    BY <1>8, <1>9
  <2>2. /\ stream' \in Seq(Entries) /\ Len(stream') = n + 1
        /\ \A k \in 1 .. n : stream'[k] = stream[k]
        /\ stream'[n + 1] = e
    BY <1>1, <1>4, <2>1
  <2>3. InStream' = InStream \union {e}
    BY <1>1, <2>2 DEF InStream
  <2>4. Waiting' = Waiting \union {e}
    <3>1. Len(stream') - unread' = n - unread
      BY <1>1, <2>1, <2>2
    <3>2. \A k \in (n - unread) + 1 .. n + 1 : k \in (n - unread) + 1 .. n \/ k = n + 1
      BY <1>1
    <3>3. (n - unread) + 1 .. n \subseteq 1 .. n
      BY <1>1
    <3>4. Waiting' = {stream'[k] : k \in (n - unread) + 1 .. n + 1}
      BY <2>2, <3>1 DEF Waiting, Delivered
    <3>5. Waiting = {stream[k] : k \in (n - unread) + 1 .. n}
      BY DEF Waiting, Delivered
    <3>6. n + 1 \in (n - unread) + 1 .. n + 1
          /\ (n - unread) + 1 .. n \subseteq (n - unread) + 1 .. n + 1
      BY <1>1
    <3> QED
      BY <2>2, <3>2, <3>3, <3>4, <3>5, <3>6
  <2>5. Distinct'
    <3> SUFFICES ASSUME NEW j \in 1 .. n + 1, NEW k \in 1 .. n + 1,
                        stream'[j].id = stream'[k].id
                 PROVE  j = k
      BY <2>2 DEF Distinct
    <3>1. CASE j \in 1 .. n /\ k \in 1 .. n
      BY <2>2, <3>1 DEF TypeInv, Distinct
    <3>2. CASE j = n + 1 /\ k \in 1 .. n
      BY <1>7, <2>2, <3>2
    <3>3. CASE k = n + 1 /\ j \in 1 .. n
      BY <1>7, <2>2, <3>3
    <3> QED
      BY <1>1, <3>1, <3>2, <3>3
  <2>6. pending' \subseteq InStream' \ Waiting'
    BY <1>1, <1>6, <2>1, <2>3, <2>4
  <2> QED
    BY <1>1, <1>4, <1>6, <1>9, <2>1, <2>2, <2>3, <2>4, <2>5, <2>6
<1>10. CASE ~ (n < StreamMax)
  <2> DEFINE h == Head(stream)
  <2>1. /\ stream' = Append(Tail(stream), e)
        /\ unread' = IF unread < StreamMax THEN unread + 1 ELSE unread
        /\ pending' = pending \ {h}
        /\ missed' = missed \union AddrsOf({h} \intersect (Waiting \union pending))
    BY <1>8, <1>10 DEF Lose
  <2>2. n = StreamMax /\ n > 0 /\ stream # <<>>
    BY <1>1, <1>10
  <2>3. /\ stream' \in Seq(Entries) /\ Len(stream') = n /\ h = stream[1]
        /\ \A k \in 1 .. n - 1 : stream'[k] = stream[k + 1]
        /\ stream'[n] = e
    <3>1. /\ Tail(stream) \in Seq(Entries) /\ Len(Tail(stream)) = n - 1
          /\ \A k \in 1 .. n - 1 : Tail(stream)[k] = stream[k + 1]
      BY <1>1, <2>2
    <3> QED
      BY <1>1, <1>4, <2>1, <2>2, <3>1
  <2>4. InStream' = {stream[k] : k \in 2 .. n} \union {e}
    <3>1. \A k \in 1 .. n : k = n \/ (k \in 1 .. n - 1 /\ k + 1 \in 2 .. n)
      BY <1>1
    <3>2. \A k \in 2 .. n : k - 1 \in 1 .. n - 1 /\ (k - 1) + 1 = k
      BY <1>1
    <3>3. \A x \in InStream' : x \in {stream[k] : k \in 2 .. n} \union {e}
      BY <2>3, <3>1 DEF InStream
    <3>4. \A k \in 2 .. n : stream[k] = stream'[k - 1] /\ k - 1 \in 1 .. Len(stream')
      BY <1>1, <2>3, <3>2
    <3>5. e \in InStream' /\ \A k \in 2 .. n : stream[k] \in InStream'
      BY <1>1, <2>2, <2>3, <3>4 DEF InStream
    <3> QED
      BY <3>3, <3>5
  <2>5. /\ e \in Waiting'
        /\ Waiting' \subseteq Waiting \union {e}
        /\ \A x \in Waiting : x \in Waiting' \/ x = h
    <3> DEFINE d == n - unread  c == n - unread'
    <3>1. /\ unread' \in 1 .. n /\ d \in 0 .. n /\ c \in 0 .. n - 1
          /\ (d > 0 => c = d - 1) /\ (d = 0 => c = 0)
      BY <1>1, <2>1, <2>2
    <3>2. Waiting' = {stream'[k] : k \in c + 1 .. n}
      BY <2>3 DEF Waiting, Delivered
    <3>3. Waiting = {stream[k] : k \in d + 1 .. n}
      BY DEF Waiting, Delivered
    <3> HIDE DEF c, d
    <3>4. e \in Waiting'
      <4>1. n \in c + 1 .. n
        BY <1>1, <3>1
      <4> QED
        BY <2>3, <3>2, <4>1
    <3>5. \A k \in c + 1 .. n : k = n \/ (k \in 1 .. n - 1 /\ k + 1 \in d + 1 .. n)
      <4> SUFFICES ASSUME NEW k \in c + 1 .. n, k # n
                   PROVE  k \in 1 .. n - 1 /\ k + 1 \in d + 1 .. n
        OBVIOUS
      <4>1. n \in Nat /\ k \in Nat /\ c \in Nat /\ d \in Nat /\ d <= c + 1
        BY <1>1, <3>1
      <4> QED
        BY <4>1
    <3>6. \A k \in d + 1 .. n : k = 1 \/ (/\ k - 1 \in 1 .. n - 1 /\ k - 1 \in c + 1 .. n
                                          /\ (k - 1) + 1 = k)
      <4> SUFFICES ASSUME NEW k \in d + 1 .. n, k # 1
                   PROVE  /\ k - 1 \in 1 .. n - 1 /\ k - 1 \in c + 1 .. n
                          /\ (k - 1) + 1 = k
        OBVIOUS
      <4>1. n \in Nat /\ k \in Nat /\ c \in Nat /\ d \in Nat /\ (c = 0 \/ d = c + 1)
        BY <1>1, <3>1
      <4> QED
        BY <4>1
    <3>7. Waiting' \subseteq Waiting \union {e}
      BY <2>3, <3>2, <3>3, <3>5
    <3>8. \A x \in Waiting : x \in Waiting' \/ x = h
      BY <2>3, <3>2, <3>3, <3>6
    <3> QED
      BY <3>4, <3>7, <3>8
  <2>6. Distinct'
    <3> SUFFICES ASSUME NEW j \in 1 .. n, NEW k \in 1 .. n, stream'[j].id = stream'[k].id
                 PROVE  j = k
      BY <2>3 DEF Distinct
    <3>1. \A m \in 1 .. n : m # n => /\ m + 1 \in 1 .. n /\ stream'[m] = stream[m + 1]
      BY <1>1, <2>3
    <3>2. \A m \in 1 .. n : m # n => stream'[m].id # e.id
      BY <1>7, <3>1
    <3>3. CASE j # n /\ k # n
      <4>1. j + 1 = k + 1
        BY <3>1, <3>3 DEF TypeInv, Distinct
      <4> QED
        BY <1>1, <4>1
    <3> QED
      BY <2>3, <3>2, <3>3
  <2>7. pending' \subseteq InStream' \ Waiting'
    <3>1. \A x \in pending : x # h => x \in {stream[k] : k \in 2 .. n}
      BY <1>1, <2>3 DEF InStream
    <3> QED
      BY <1>1, <1>6, <2>1, <2>4, <2>5, <3>1
  <2>8. InStream' \subseteq InStream \union {e}
    <3>1. 2 .. n \subseteq 1 .. n
      BY <1>1
    <3> QED
      BY <2>4, <3>1 DEF InStream
  <2>9. \A x \in Waiting \union pending :
            x \in Waiting' \union pending' \/ x.ip \in missed'
    BY <2>1, <2>5 DEF AddrsOf
  <2>10. missed \subseteq missed' /\ missed' \subseteq Addrs
    <3>1. h \in Entries
      BY <1>1, <2>2, <2>3
    <3> QED
      BY <1>1, <2>1, <3>1 DEF AddrsOf, Entries
  <2>11. unread' \in 0 .. Len(stream')
    BY <1>1, <2>1, <2>2, <2>3
  <2> QED
    BY <1>1, <1>4, <1>6, <2>1, <2>2, <2>3, <2>5, <2>6, <2>7, <2>8, <2>9, <2>10, <2>11
<1> QED
  BY <1>9, <1>10

\* XREADGROUP moves entries from waiting to pending and hands them to consume.
LEMMA ReadFacts ==
    ASSUME TypeInv, Read
    PROVE  /\ batch'["consume"] \in Seq(Entries) /\ batch'["consume"] # <<>>
           /\ batch'["reclaim"] = batch["reclaim"]
           /\ at' = [at EXCEPT !["consume"] = "check"]
           /\ unread' \in 0 .. Len(stream)
           /\ pending' \subseteq InStream' \ Waiting'
           /\ InStream' = InStream
           /\ Waiting \union pending \subseteq Waiting' \union pending'
           /\ \A k \in 1 .. Len(batch'["consume"]) : batch'["consume"][k] \in InStream
<1> DEFINE d == Delivered
           n == IF unread < BatchMax THEN unread ELSE BatchMax
           got == SubSeq(stream, d + 1, d + n)
<1>1. /\ stream \in Seq(Entries) /\ Len(stream) \in Nat
      /\ unread \in 1 .. Len(stream) /\ pending \subseteq InStream \ Waiting
      /\ BatchMax \in Nat \ {0}
      /\ \A k \in 1 .. Len(stream) : stream[k] \in Entries
      /\ \A l \in Loops : batch[l] \in Seq(Entries)
  BY QueueAssumption DEF TypeInv, QueueTypeOK, Read
<1>2. /\ d \in 0 .. Len(stream) - 1 /\ d + unread = Len(stream)
      /\ n \in 1 .. unread
  BY <1>1 DEF Delivered
<1>3. /\ got \in Seq(Entries) /\ Len(got) = n
      /\ \A k \in 1 .. n : got[k] = stream[d + k]
  <2>1. /\ d + 1 \in Int /\ d + n \in Int
        /\ \A k \in d + 1 .. d + n : stream[k] \in Entries
    BY <1>1, <1>2
  <2>2. /\ got \in Seq(Entries)
        /\ Len(got) = IF d + 1 <= d + n THEN (d + n) - (d + 1) + 1 ELSE 0
        /\ \A k \in 1 .. (d + n) - (d + 1) + 1 : got[k] = stream[d + 1 + k - 1]
    <3> HIDE DEF d, n
    <3> QED
      BY <2>1, SubSeqProperties
  <2>3. \A k \in 1 .. n : d + 1 + k - 1 = d + k /\ k \in 1 .. (d + n) - (d + 1) + 1
    BY <1>2
  <2> QED
    BY <1>2, <2>2, <2>3
<1>4. /\ unread' = unread - n /\ stream' = stream
      /\ pending' = pending \union ToSet(got)
      /\ batch' = [batch EXCEPT !["consume"] = got]
      /\ at' = [at EXCEPT !["consume"] = "check"]
  BY DEF Read, Deliver
<1>5. batch'["consume"] = got /\ batch'["reclaim"] = batch["reclaim"]
  BY <1>4 DEF TypeInv, Loops
<1>6. got # <<>>
  BY <1>2, <1>3, EmptySeq
<1>7. DOMAIN got = 1 .. n
  BY <1>3, LenProperties
<1>8. ToSet(got) = {stream[d + k] : k \in 1 .. n}
  BY <1>3, <1>7 DEF ToSet
<1>9. Waiting' = {stream[k] : k \in d + n + 1 .. Len(stream)}
  <2>1. Len(stream') - unread' = d + n
    BY <1>1, <1>2, <1>4
  <2> QED
    BY <1>4, <2>1 DEF Waiting, Delivered
<1>10. Waiting = {stream[k] : k \in d + 1 .. Len(stream)}
  BY DEF Waiting
<1>11. InStream' = InStream
  BY <1>4 DEF InStream
<1> HIDE DEF d, n, got
<1>12. \A k \in 1 .. n : /\ d + k \in 1 .. Len(stream)
                         /\ d + k \in d + 1 .. Len(stream)
                         /\ d + k \notin d + n + 1 .. Len(stream)
  BY <1>1, <1>2
<1>13. \A k \in 1 .. n : stream[d + k] \in InStream /\ stream[d + k] \notin Waiting'
  <2> SUFFICES ASSUME NEW k \in 1 .. n
               PROVE  stream[d + k] \in InStream /\ stream[d + k] \notin Waiting'
    OBVIOUS
  <2>1. stream[d + k] \in InStream
    BY <1>12 DEF InStream
  <2>2. ASSUME NEW j \in d + n + 1 .. Len(stream) PROVE stream[d + k] # stream[j]
    <3>1. j \in 1 .. Len(stream) /\ d + k # j
      BY <1>1, <1>2
    <3> QED
      BY <1>12, <3>1 DEF TypeInv, Distinct
  <2> QED
    BY <1>9, <2>1, <2>2
<1>14. Waiting' \subseteq Waiting
  <2>1. d + n + 1 .. Len(stream) \subseteq d + 1 .. Len(stream)
    BY <1>1, <1>2
  <2> QED
    BY <1>9, <1>10, <2>1
<1>15. Waiting \subseteq Waiting' \union ToSet(got)
  <2>1. \A k \in d + 1 .. Len(stream) :
            \/ k \in d + n + 1 .. Len(stream)
            \/ k - d \in 1 .. n /\ d + (k - d) = k
    BY <1>1, <1>2
  <2>2. \A k \in d + 1 .. Len(stream) : stream[k] \in Waiting' \union ToSet(got)
    BY <1>8, <1>9, <2>1
  <2> QED
    BY <1>10, <2>2
<1>16. pending' \subseteq InStream' \ Waiting'
  BY <1>1, <1>4, <1>8, <1>11, <1>13, <1>14
<1>17. unread' \in 0 .. Len(stream)
  BY <1>1, <1>2, <1>4
<1>18. \A k \in 1 .. Len(batch'["consume"]) : batch'["consume"][k] \in InStream
  BY <1>3, <1>5, <1>13
<1> QED
  BY <1>3, <1>4, <1>5, <1>6, <1>11, <1>15, <1>16, <1>17, <1>18

\* XAUTOCLAIM hands pending entries to reclaim_loop.
LEMMA ClaimFacts ==
    ASSUME TypeInv, NEW S \in SUBSET pending, ClaimAll(S)
    PROVE  /\ batch'["reclaim"] \in Seq(Entries) /\ batch'["reclaim"] # <<>>
           /\ batch'["consume"] = batch["consume"]
           /\ at' = [at EXCEPT !["reclaim"] = "check"]
           /\ \A k \in 1 .. Len(batch'["reclaim"]) : batch'["reclaim"][k] \in InStream
<1>1. /\ stream \in Seq(Entries) /\ pending \subseteq InStream
      /\ \A k \in 1 .. Len(stream) : stream[k] \in Entries
      /\ S # {}
  BY DEF TypeInv, QueueTypeOK, ClaimAll
<1>2. InStream \subseteq Entries
  BY <1>1 DEF InStream
<1>3. IsFiniteSet(InStream)
  <2>1. Len(stream) \in Nat /\ stream \in [1 .. Len(stream) -> Entries]
    BY <1>1, LenProperties
  <2>2. stream \in Surjection(1 .. Len(stream), InStream)
    BY <2>1 DEF Surjection, InStream
  <2>3. ExistsSurjection(1 .. Len(stream), InStream)
    BY <2>2 DEF ExistsSurjection
  <2> QED
    BY <2>1, <2>3, FS_NatSurjection
<1>4. S \in SUBSET Entries /\ IsFiniteSet(S)
  BY <1>1, <1>2, <1>3, FS_Subset
<1>5. /\ SetToSeq(S) \in Seq(Entries) /\ SetToSeq(S) # <<>>
      /\ \A k \in 1 .. Len(SetToSeq(S)) : SetToSeq(S)[k] \in S
  BY <1>1, <1>4, SetToSeqLists
<1>6. batch'["reclaim"] = SetToSeq(S) /\ batch'["consume"] = batch["consume"]
  BY DEF ClaimAll, TypeInv, Loops
<1> QED
  BY <1>1, <1>5, <1>6 DEF ClaimAll

LEMMA TypeInit == QueueInit => TypeInv
<1> SUFFICES ASSUME QueueInit PROVE TypeInv
  OBVIOUS
<1>1. /\ <<>> \in Seq(Entries) /\ Len(<<>>) = 0
  BY EmptySeq
<1>2. \A l \in Loops : at[l] \in {"read", "sleep"} /\ batch[l] = <<>>
  BY DEF QueueInit, Rest
<1>3. MaxFails \in Nat /\ MaxFaults \in Nat /\ StreamMax \in Nat
  BY QueueAssumption
<1>4. QueueTypeOK
  <2>1. at \in [Loops -> Stages] /\ \A l \in Loops : at[l] \notin Handling
    BY DEF QueueInit, Stages, Handling, Rest
  <2>2. /\ stream \in Seq(Entries) /\ Len(stream) <= StreamMax
        /\ unread \in 0 .. Len(stream)
    BY <1>1, <1>3 DEF QueueInit
  <2>3. \A l \in Loops : batch[l] \in Seq(Entries)
    BY <1>1, <1>2
  <2>4. /\ row \in [Addrs -> Answers \union {"none", "stale"}]
        /\ fails \in [Addrs -> 0 .. MaxFails] /\ faults \in 0 .. MaxFaults
    BY <1>3 DEF QueueInit
  <2> QED
    BY <1>2, <2>1, <2>2, <2>3, <2>4 DEF QueueInit, QueueTypeOK
<1>5. Distinct
  BY <1>1 DEF QueueInit, Distinct
<1>6. batch \in [Loops -> Seq(Entries)]
  BY <1>1 DEF QueueInit
<1> QED
  BY <1>2, <1>4, <1>5, <1>6 DEF TypeInv

\* A step that leaves the stream alone leaves its contents alone.
LEMMA SameStream ==
    ASSUME UNCHANGED <<stream, unread>>
    PROVE  /\ InStream' = InStream /\ Waiting' = Waiting
           /\ Distinct' <=> Distinct
  BY DEF InStream, Waiting, Delivered, Distinct

\* handle_message goes from one of its places to another.
LEMMA GotoType ==
    ASSUME TypeInv, NEW l \in Loops, at[l] \in Handling, NEW s \in Handling,
           Goto(l, s), s = "requeue" => ~ LastTry(Msg(l))
    PROVE  /\ at' \in [Loops -> Stages]
           /\ UNCHANGED batch
           /\ \A k \in Loops : batch'[k] # <<>> <=> at'[k] \in Handling
           /\ \A k \in Loops : at'[k] = "requeue" => ~ LastTry(Msg(k))'
  BY DEF TypeInv, QueueTypeOK, Goto, LastTry, Msg, Stages

LEMMA HandleTypeStep ==
    ASSUME TypeInv, NEW l \in Loops, Handle(l)
    PROVE  TypeInv'
<1> USE DEF TypeInv, QueueTypeOK
<1>1. at[l] \in Handling
  BY DEF Handle, Check, Lookup, Hint, CallFails, CallRejected, Requeue, RequeueFails,
         Ack, Handling
<1>2. /\ Msg(l) \in Entries /\ Msg(l).ip \in Addrs /\ Msg(l).force \in BOOLEAN
      /\ Msg(l).attempt \in 0 .. MaxAttempts - 1
  BY <1>1, MsgType DEF Entries
<1>3. MaxFails \in Nat /\ MaxFaults \in Nat /\ MaxAttempts \in Nat \ {0}
  BY QueueAssumption
<1>4. AddrsOf({Msg(l)}) \subseteq Addrs
  BY <1>2 DEF AddrsOf
<1> DEFINE Moved == \E s \in Handling :
                        Goto(l, s) /\ (s = "requeue" => ~ LastTry(Msg(l)))
<1>5. ASSUME Moved
      PROVE  /\ at' \in [Loops -> Stages]
             /\ UNCHANGED batch
             /\ \A k \in Loops : batch'[k] # <<>> <=> at'[k] \in Handling
             /\ \A k \in Loops : at'[k] = "requeue" => ~ LastTry(Msg(k))'
  BY <1>1, <1>5, GotoType
<1>6. CASE Check(l)
  <2>1. Moved
    BY <1>6 DEF Check, Handling
  <2>2. UNCHANGED <<store, redis, phase, refreshing, history, faults>>
    BY <1>6 DEF Check
  <2> HIDE DEF Moved
  <2> QED
    BY <1>5, <2>1, <2>2, SameStream DEF store, redis, history
<1>7. CASE Lookup(l)
  <2>1. Moved
    BY <1>7 DEF Lookup, Handling
  <2>2. /\ UNCHANGED <<redis, phase, refreshing, history, faults, known, hinted>>
        /\ row' \in [Addrs -> Answers \union {"none", "stale"}]
    BY <1>2, <1>7 DEF Lookup, Upserts
  <2> HIDE DEF Moved
  <2> QED
    BY <1>5, <2>1, <2>2, SameStream DEF redis, history
<1>8. CASE Hint(l)
  <2>1. Moved
    BY <1>8 DEF Hint, Handling
  <2>2. /\ UNCHANGED <<redis, phase, refreshing, history, faults, known, row>>
        /\ hinted' \subseteq Addrs
    BY <1>2, <1>8 DEF Hint, Hints
  <2> HIDE DEF Moved
  <2> QED
    BY <1>5, <2>1, <2>2, SameStream DEF redis, history
<1>9. CASE CallFails(l)
  <2>1. Moved
    BY <1>9 DEF CallFails, Handling
  <2>2. /\ UNCHANGED <<redis, phase, refreshing, missed, faults, known>>
        /\ row' \in [Addrs -> Answers \union {"none", "stale"}]
        /\ hinted' \subseteq Addrs
    BY <1>2, <1>9 DEF CallFails, Effect, Upserts, Hints, store
  <2>3. fails' \in [Addrs -> 0 .. MaxFails]
    BY <1>2, <1>3, <1>9 DEF CallFails
  <2>4. gaveUp' \subseteq Addrs
    BY <1>2, <1>9 DEF CallFails
  <2> HIDE DEF Moved
  <2> QED
    BY <1>5, <2>1, <2>2, <2>3, <2>4, SameStream DEF redis
<1>10. CASE CallRejected(l) \/ RequeueFails(l)
  <2>1. Moved
    BY <1>10 DEF CallRejected, RequeueFails, Handling
  <2>2. /\ UNCHANGED <<store, redis, phase, refreshing, gaveUp, fails>>
        /\ Fault /\ Lose({Msg(l)})
    BY <1>10 DEF CallRejected, RequeueFails
  <2>3. faults' \in 0 .. MaxFaults
    BY <1>3, <2>2 DEF Fault
  <2>4. missed' \subseteq Addrs
    BY <1>4, <2>2 DEF Lose
  <2> HIDE DEF Moved
  <2> QED
    BY <1>5, <2>1, <2>2, <2>3, <2>4, SameStream DEF store, redis
<1>11. CASE Requeue(l)
  <2>1. Moved
    BY <1>11 DEF Requeue, Handling
  <2>2. Msg(l).attempt + 1 \in 0 .. MaxAttempts - 1
    BY <1>2, <1>3, <1>11 DEF Requeue, LastTry
  <2>3. XAdd(Msg(l).ip, Msg(l).force, Msg(l).attempt + 1)
    BY <1>11 DEF Requeue
  <2>4. /\ stream' \in Seq(Entries) /\ Len(stream') <= StreamMax
        /\ unread' \in 0 .. Len(stream')
        /\ pending' \subseteq InStream' \ Waiting' /\ Distinct'
        /\ missed' \subseteq Addrs
    BY <1>2, <2>2, <2>3, XAddFacts
  <2>5. /\ UNCHANGED <<store, phase, refreshing, gaveUp, fails, faults>>
        /\ group' = group
    BY <1>11 DEF Requeue, XAdd
  <2> HIDE DEF Moved
  <2> QED
    BY <1>5, <2>1, <2>4, <2>5 DEF store
<1>12. CASE Ack(l)
  <2>1. /\ UNCHANGED <<store, stream, unread, group, phase, refreshing, history>>
        /\ pending' \subseteq pending
        /\ faults' \in 0 .. MaxFaults
    BY <1>3, <1>12 DEF Ack, Fault
  <2>2. \/ /\ at' = [at EXCEPT ![l] = "done"]
           /\ batch' = [batch EXCEPT ![l] = <<>>]
        \/ /\ at' = [at EXCEPT ![l] = IF Len(batch[l]) = 1 THEN Rest(l) ELSE "check"]
           /\ batch' = [batch EXCEPT ![l] = Tail(batch[l])]
    BY <1>12 DEF Ack
  <2>3. /\ <<>> \in Seq(Entries)
        /\ Tail(batch[l]) \in Seq(Entries)
        /\ Len(batch[l]) # 1 => Tail(batch[l]) # <<>>
        /\ Len(batch[l]) = 1 => Tail(batch[l]) = <<>>
    BY <1>1, MsgType, EmptySeq
  <2>4. Rest(l) \in Stages /\ Rest(l) \notin Handling
        /\ "done" \in Stages /\ "done" \notin Handling /\ "check" \in Handling
    BY DEF Rest, Stages, Handling
  <2>5. /\ at' \in [Loops -> Stages]
        /\ batch' \in [Loops -> Seq(Entries)]
        /\ \A k \in Loops : batch'[k] # <<>> <=> at'[k] \in Handling
    BY <2>2, <2>3, <2>4 DEF Stages
  <2>6. \A k \in Loops : at'[k] = "requeue" => at[k] = "requeue" /\ batch'[k] = batch[k]
    BY <2>2 DEF Rest
  <2>7. \A k \in Loops : at'[k] = "requeue" => ~ LastTry(Msg(k))'
    BY <2>6 DEF LastTry, Msg
  <2> QED
    BY <2>1, <2>5, <2>7, SameStream DEF store, history
<1> QED
  BY <1>6, <1>7, <1>8, <1>9, <1>10, <1>11, <1>12 DEF Handle

\* consume and reclaim_loop between messages, and refresh_loop.
LEMMA LoopTypeStep ==
    ASSUME TypeInv, Consume \/ Claim \/ Refresh
    PROVE  TypeInv'
<1> USE DEF TypeInv, QueueTypeOK
<1>1. /\ MaxFaults \in Nat /\ MaxAttempts \in Nat \ {0}
      /\ "consume" \in Loops /\ "reclaim" \in Loops
      /\ \A l \in Loops : l = "consume" \/ l = "reclaim"
  BY QueueAssumption DEF Loops
<1>2. CASE Read
  <2>1. /\ batch'["consume"] \in Seq(Entries) /\ batch'["consume"] # <<>>
        /\ batch'["reclaim"] = batch["reclaim"]
        /\ at' = [at EXCEPT !["consume"] = "check"]
        /\ unread' \in 0 .. Len(stream)
        /\ pending' \subseteq InStream' \ Waiting'
    BY <1>2, ReadFacts
  <2>2. UNCHANGED <<store, stream, group, phase, refreshing, history, faults>>
        /\ batch' \in [Loops -> Seq(Entries)]
    BY <1>1, <1>2, <2>1 DEF Read
  <2>3. at'["consume"] = "check" /\ at'["reclaim"] = at["reclaim"]
        /\ at' \in [Loops -> Stages]
    BY <1>1, <2>1 DEF Stages, Handling
  <2>4. \A l \in Loops : batch'[l] # <<>> <=> at'[l] \in Handling
    BY <1>1, <2>1, <2>3 DEF Handling
  <2>5. \A l \in Loops : at'[l] = "requeue" => ~ LastTry(Msg(l))'
    BY <1>1, <2>1, <2>3 DEF LastTry, Msg
  <2>6. Distinct'
    BY <2>2 DEF Distinct
  <2> QED
    BY <2>1, <2>2, <2>3, <2>4, <2>5, <2>6 DEF store, history
<1>3. CASE ReadFails \/ ReadStops \/ Reconnect
  <2>1. /\ UNCHANGED <<store, stream, unread, pending, batch, phase, refreshing, history>>
        /\ group' \in BOOLEAN
        /\ faults' \in 0 .. MaxFaults
        /\ at["consume"] \notin Handling
        /\ \E s \in {"read", "reconnect", "done"} : at' = [at EXCEPT !["consume"] = s]
    <3>1. CASE ReadFails
      BY <1>1, <3>1 DEF ReadFails, Goto, Fault, redis, Handling
    <3>2. CASE ReadStops
      BY <3>2 DEF ReadStops, Goto, redis, Handling
    <3>3. CASE Reconnect
      <4>1. group' \in BOOLEAN /\ faults' \in 0 .. MaxFaults
        <5>1. CASE group' = TRUE /\ UNCHANGED faults
          BY <5>1
        <5>2. CASE Fault /\ UNCHANGED group
          <6>1. faults' \in 0 .. MaxFaults
            BY <1>1, <5>2 DEF Fault
          <6>2. group' \in BOOLEAN
            BY <5>2, Zenon
          <6> QED
            BY <6>1, <6>2
        <5>3. Regroup
          BY <3>3 DEF Reconnect
        <5> QED
          BY <5>1, <5>2, <5>3 DEF Regroup
      <4>2. /\ UNCHANGED <<store, stream, unread, pending, batch, phase, refreshing, history>>
            /\ at["consume"] = "reconnect"
            /\ \/ at' = [at EXCEPT !["consume"] = "read"]
               \/ at' = [at EXCEPT !["consume"] = "done"]
        BY <3>3 DEF Reconnect, Goto
      <4> QED
        BY <4>1, <4>2 DEF Handling
    <3> QED
      BY <1>3, <3>1, <3>2, <3>3
  <2>2. at' \in [Loops -> Stages]
    BY <2>1 DEF Stages
  <2>3. \A l \in Loops : at'[l] = at[l] \/ (at[l] \notin Handling /\ at'[l] \notin Handling)
    BY <1>1, <2>1 DEF Handling
  <2>4. \A l \in Loops : at'[l] = "requeue" => ~ LastTry(Msg(l))'
    BY <2>1, <2>3 DEF LastTry, Msg, Handling
  <2> QED
    BY <2>1, <2>2, <2>3, <2>4, SameStream DEF store, history
<1>4. CASE Claim
  <2>1. PICK S \in SUBSET pending : ClaimAll(S)
    BY <1>4 DEF Claim
  <2>2. /\ batch'["reclaim"] \in Seq(Entries) /\ batch'["reclaim"] # <<>>
        /\ batch'["consume"] = batch["consume"]
        /\ at' = [at EXCEPT !["reclaim"] = "check"]
    BY <2>1, ClaimFacts
  <2>3. UNCHANGED <<store, redis, phase, refreshing, history, faults>>
        /\ batch' \in [Loops -> Seq(Entries)]
    BY <1>1, <2>1, <2>2 DEF ClaimAll
  <2>4. at'["reclaim"] = "check" /\ at'["consume"] = at["consume"]
        /\ at' \in [Loops -> Stages]
    BY <1>1, <2>2 DEF Stages, Handling
  <2>5. \A l \in Loops : batch'[l] # <<>> <=> at'[l] \in Handling
    BY <1>1, <2>2, <2>4 DEF Handling
  <2>6. \A l \in Loops : at'[l] = "requeue" => ~ LastTry(Msg(l))'
    BY <1>1, <2>2, <2>4 DEF LastTry, Msg
  <2> QED
    BY <2>3, <2>4, <2>5, <2>6, SameStream DEF store, redis, history
<1>5. CASE SelectDue \/ RefreshFails
  <2>1. /\ UNCHANGED <<store, redis, phase, at, batch, history>>
        /\ refreshing' \subseteq Addrs
        /\ faults' \in 0 .. MaxFaults
    BY <1>1, <1>5 DEF SelectDue, RefreshFails, Due, Fault
  <2> QED
    BY <2>1, SameStream DEF store, redis, history, LastTry, Msg
<1>6. CASE QueueDue
  <2>1. PICK ip \in refreshing : XAdd(ip, TRUE, 0) /\ refreshing' = refreshing \ {ip}
    BY <1>6 DEF QueueDue
  <2>2. /\ UNCHANGED <<store, phase, at, batch, gaveUp, fails, faults>>
        /\ group' = group
    BY <1>6, <2>1 DEF QueueDue, XAdd
  <2>3. 0 \in 0 .. MaxAttempts - 1 /\ ip \in Addrs
    BY <1>1
  <2>4. /\ stream' \in Seq(Entries) /\ Len(stream') <= StreamMax
        /\ unread' \in 0 .. Len(stream')
        /\ pending' \subseteq InStream' \ Waiting' /\ Distinct'
        /\ missed' \subseteq Addrs
    BY <2>1, <2>3, XAddFacts
  <2> QED
    BY <2>1, <2>2, <2>4 DEF store, LastTry, Msg
<1> QED
  BY <1>2, <1>3, <1>4, <1>5, <1>6 DEF Consume, Refresh

\* The pipeline, the cache's age, Redis, and the process.
LEMMA WorldTypeStep ==
    ASSUME TypeInv, World \/ Boot \/ Stop \/ Halt \/ Kill
    PROVE  TypeInv'
<1> USE DEF TypeInv, QueueTypeOK
<1>1. MaxFaults \in Nat /\ StreamMax \in Nat /\ MaxAttempts \in Nat \ {0}
  BY QueueAssumption
<1>2. CASE \E ip \in Addrs : SeeAddress(ip)
  <2>1. PICK ip \in Addrs : SeeAddress(ip)
    BY <1>2
  <2>2. /\ UNCHANGED <<row, hinted, phase, at, batch, refreshing, gaveUp, fails>>
        /\ known' \subseteq Addrs
    BY <2>1 DEF SeeAddress, worker
  <2>3. CASE XAdd(ip, FALSE, 0) /\ UNCHANGED faults
    <3>1. 0 \in 0 .. MaxAttempts - 1
      BY <1>1
    <3>2. /\ stream' \in Seq(Entries) /\ Len(stream') <= StreamMax
          /\ unread' \in 0 .. Len(stream')
          /\ pending' \subseteq InStream' \ Waiting' /\ Distinct'
          /\ missed' \subseteq Addrs
      BY <2>3, <3>1, XAddFacts
    <3>3. group' = group
      BY <2>3 DEF XAdd
    <3> QED
      BY <2>2, <2>3, <3>2, <3>3 DEF LastTry, Msg
  <2>4. CASE Fault /\ missed' = missed \union {ip} /\ UNCHANGED redis
    <3>1. faults' \in 0 .. MaxFaults /\ missed' \subseteq Addrs
      BY <1>1, <2>4 DEF Fault
    <3> QED
      BY <2>2, <2>4, <3>1, SameStream DEF redis, LastTry, Msg
  <2> QED
    BY <2>1, <2>3, <2>4 DEF SeeAddress
<1>3. CASE \E ip \in Addrs : Age(ip)
  <2>1. PICK ip \in Addrs : Age(ip)
    BY <1>3
  <2>2. /\ UNCHANGED <<known, hinted, redis, worker, history, faults>>
        /\ row' \in [Addrs -> Answers \union {"none", "stale"}]
    BY <2>1 DEF Age
  <2> QED
    BY <2>2, SameStream DEF redis, worker, history, LastTry, Msg
<1>4. CASE LoseRedis
  <2>1. InStream \subseteq Entries /\ Waiting \subseteq InStream
    <3>1. \A k \in 1 .. Len(stream) : stream[k] \in Entries
      OBVIOUS
    <3>2. Delivered + 1 .. Len(stream) \subseteq 1 .. Len(stream)
      BY DEF Delivered
    <3> QED
      BY <3>1, <3>2 DEF InStream, Waiting
  <2>2. missed' \subseteq Addrs
    BY <1>4, <2>1 DEF LoseRedis, Lose, AddrsOf, Entries
  <2>3. /\ stream' = <<>> /\ unread' = 0 /\ pending' = {} /\ group' = FALSE
        /\ faults' \in 0 .. MaxFaults
        /\ UNCHANGED <<store, worker, gaveUp, fails>>
    BY <1>1, <1>4 DEF LoseRedis, Fault
  <2>4. /\ stream' \in Seq(Entries) /\ Len(stream') = 0
        /\ Len(stream') <= StreamMax /\ unread' \in 0 .. Len(stream')
    BY <1>1, <2>3, EmptySeq
  <2>5. Distinct'
    BY <2>4 DEF Distinct
  <2>6. \A l \in Loops : at'[l] = "requeue" => ~ LastTry(Msg(l))'
    BY <2>3 DEF worker, LastTry, Msg
  <2>7. UNCHANGED <<known, row, hinted, phase, at, batch, refreshing>>
    BY <2>3 DEF store, worker
  <2> QED
    BY <2>2, <2>3, <2>4, <2>5, <2>6, <2>7
<1>5. CASE Boot \/ Halt \/ Kill
  <2>1. /\ UNCHANGED <<store, stream, unread, gaveUp, fails>>
        /\ group' \in BOOLEAN
        /\ phase' \in {"down", "up"}
        /\ pending' \subseteq pending
        /\ faults' \in 0 .. MaxFaults
        /\ Idle
    <3>1. CASE Boot
      BY <3>1 DEF Boot, history
    <3>2. CASE Halt
      BY <3>2 DEF Halt
    <3>3. CASE Kill
      BY <1>1, <3>3 DEF Kill, Fault, redis, history
    <3> QED
      BY <1>5, <3>1, <3>2, <3>3
  <2>2. missed' \subseteq Addrs
    <3>1. CASE Halt
      <4>1. PICK acks \in SUBSET {l \in Loops : at[l] \in Handling} :
                Lose({Msg(l) : l \in {k \in acks : at[k] # "ack"}})
        BY <3>1 DEF Halt
      <4>2. \A l \in acks : Msg(l).ip \in Addrs
        BY MsgType DEF Entries
      <4> QED
        BY <4>1, <4>2 DEF Lose, AddrsOf
    <3>2. CASE Boot \/ Kill
      BY <3>2 DEF Boot, Kill, history
    <3> QED
      BY <1>5, <3>1, <3>2
  <2>3. /\ at' = [l \in Loops |-> Rest(l)] /\ batch' = [l \in Loops |-> <<>>]
        /\ refreshing' = {}
    BY <2>1 DEF Idle
  <2>4. \A l \in Loops : Rest(l) \in Stages \ Handling
    BY DEF Rest, Stages, Handling
  <2>5. at' \in [Loops -> Stages] /\ batch' \in [Loops -> Seq(Entries)]
        /\ \A l \in Loops : batch'[l] = <<>> /\ at'[l] \notin Handling
    BY <2>3, <2>4, EmptySeq
  <2>6. \A l \in Loops : at'[l] # "requeue"
    BY <2>5 DEF Handling
  <2> QED
    BY <2>1, <2>2, <2>3, <2>5, <2>6, SameStream DEF store
<1>6. CASE Stop
  <2>1. /\ UNCHANGED <<store, redis, at, batch, refreshing, history>>
        /\ phase' = "stopping" /\ faults' \in 0 .. MaxFaults
    BY <1>1, <1>6 DEF Stop, Fault
  <2> QED
    BY <2>1, SameStream DEF store, redis, history, LastTry, Msg
<1> QED
  BY <1>2, <1>3, <1>4, <1>5, <1>6 DEF World

LEMMA TypeStep == TypeInv /\ [QueueNext]_queueVars => TypeInv'
<1> SUFFICES ASSUME TypeInv, [QueueNext]_queueVars PROVE TypeInv'
  OBVIOUS
<1>1. CASE UNCHANGED queueVars
  BY <1>1, SameStream DEF queueVars, store, redis, worker, history, TypeInv, QueueTypeOK,
     LastTry, Msg
<1> QED
  BY <1>1, HandleTypeStep, LoopTypeStep, WorldTypeStep DEF QueueNext

\* Every variable of the enrichment queue stays in range, and a loop has
\* messages in hand exactly while it is handling one.
THEOREM QueueTypeCorrect == QueueSpec => []QueueTypeOK
<1>1. TypeInv => QueueTypeOK
  BY DEF TypeInv
<1> QED
  BY <1>1, TypeInit, TypeStep, PTL DEF QueueSpec

-----------------------------------------------------------------------------
(* No address is forgotten *)

\* Entries whose outcome is known and which are about to be acknowledged, and the
\* entries of the stream that an address without a row can still rely on.
Decided == {Msg(l) : l \in {k \in Loops : at[k] = "ack"}}
Live    == (Waiting \union pending) \ Decided

Accounted(ip) == ip \in AddrsOf(Live) \union missed \union gaveUp

\* The hint is raised for an address that has its row.
KeptInv ==
    /\ \A ip \in known : row[ip] = "none" => Accounted(ip)
    /\ \A l \in Loops : at[l] = "hint" => row[Msg(l).ip] # "none"

\* What a step has to respect: a new address has an entry, an answer stays, and an
\* entry that is lived by no more has left an answer, another entry or a report.
LEMMA KeptBy ==
    ASSUME TypeInv, KeptInv, known' \subseteq Addrs,
           \A ip \in known' \ known : Accounted(ip)',
           \A ip \in Addrs : row[ip] # "none" => row'[ip] # "none",
           missed \subseteq missed', gaveUp \subseteq gaveUp',
           \A e \in Live : e \in Live' \/ row'[e.ip] # "none" \/ Accounted(e.ip)',
           \A l \in Loops : at'[l] = "hint" =>
                \/ /\ at[l] = "hint" /\ Msg(l)' = Msg(l) /\ Msg(l).ip \in Addrs
                \/ row'[Msg(l)'.ip] # "none"
    PROVE  KeptInv'
<1>1. ASSUME NEW ip \in known', row'[ip] = "none" PROVE Accounted(ip)'
  <2>1. CASE ip \in known
    <3>1. Accounted(ip)
      BY <1>1, <2>1 DEF KeptInv
    <3>2. CASE ip \in missed \union gaveUp
      BY <3>2 DEF Accounted
    <3>3. CASE ip \in AddrsOf(Live)
      <4>1. PICK e \in Live : e.ip = ip
        BY <3>3 DEF AddrsOf
      <4>2. e \in Live' \/ Accounted(ip)'
        BY <1>1, <4>1
      <4>3. e \in Live' => ip \in AddrsOf(Live')
        BY <4>1 DEF AddrsOf
      <4>4. AddrsOf(Live)' = AddrsOf(Live')
        BY DEF AddrsOf
      <4> QED
        BY <4>2, <4>3, <4>4 DEF Accounted
    <3> QED
      BY <3>1, <3>2, <3>3 DEF Accounted
  <2> QED
    BY <2>1
<1>2. \A l \in Loops : at'[l] = "hint" => row'[Msg(l)'.ip] # "none"
  BY DEF KeptInv
<1> QED
  BY <1>1, <1>2 DEF KeptInv

LEMMA KeptInit == QueueInit => KeptInv
  BY DEF QueueInit, KeptInv, Rest

\* Going on inside handle_message decides at most the message in hand.
LEMMA GotoKeeps ==
    ASSUME TypeInv, NEW l \in Loops, at[l] \in Handling, NEW s \in Handling, Goto(l, s)
    PROVE  /\ Decided' \subseteq Decided \union {Msg(l)}
           /\ s # "ack" => Decided' \subseteq Decided
           /\ \A k \in Loops : at'[k] = "hint" =>
                 \/ /\ at[k] = "hint" /\ Msg(k)' = Msg(k) /\ Msg(k).ip \in Addrs
                 \/ k = l /\ s = "hint" /\ Msg(l)' = Msg(l)
<1>1. /\ at' = [at EXCEPT ![l] = s] /\ UNCHANGED batch
      /\ at \in [Loops -> Stages]
  BY DEF Goto, TypeInv, QueueTypeOK
<1>2. \A k \in Loops : Msg(k)' = Msg(k)
  BY <1>1 DEF Msg
<1>3. at'[l] = s /\ \A k \in Loops : k # l => at'[k] = at[k]
  BY <1>1
<1>4. \A k \in Loops : at[k] = "hint" => Msg(k).ip \in Addrs
  BY MsgType DEF Handling, Entries
<1>5. Decided' = {Msg(k)' : k \in {j \in Loops : at'[j] = "ack"}}
  BY DEF Decided
<1>6. \A k \in Loops : at'[k] = "ack" =>
          Msg(k)' \in Decided \/ (k = l /\ s = "ack" /\ Msg(k)' = Msg(l))
  BY <1>2, <1>3 DEF Decided
<1> QED
  BY <1>2, <1>3, <1>4, <1>5, <1>6

\* The entries on Redis stay, and no more of them are decided.
LEMMA StillLive ==
    ASSUME Waiting \union pending \subseteq Waiting' \union pending' \union Decided,
           Decided' \subseteq Decided
    PROVE  Live \subseteq Live'
  BY DEF Live

\* An entry is an entry: what is live has an address.
LEMMA LiveTyped == TypeInv => Live \subseteq Entries
<1> SUFFICES ASSUME TypeInv PROVE Waiting \union pending \subseteq Entries
  BY DEF Live
<1>1. /\ stream \in Seq(Entries) /\ unread \in 0 .. Len(stream)
      /\ pending \subseteq InStream
      /\ \A k \in 1 .. Len(stream) : stream[k] \in Entries
  BY DEF TypeInv, QueueTypeOK
<1>2. Delivered + 1 .. Len(stream) \subseteq 1 .. Len(stream)
  BY <1>1 DEF Delivered
<1> QED
  BY <1>1, <1>2 DEF InStream, Waiting

LEMMA HandleKeptStep ==
    ASSUME TypeInv, KeptInv, NEW l \in Loops, Handle(l)
    PROVE  KeptInv'
<1>1. at[l] \in Handling
  BY DEF Handle, Check, Lookup, Hint, CallFails, CallRejected, Requeue, RequeueFails,
         Ack, Handling
<1>2. /\ Msg(l) \in Entries /\ Msg(l).ip \in Addrs /\ Msg(l).force \in BOOLEAN
      /\ Msg(l).attempt \in 0 .. MaxAttempts - 1 /\ Msg(l) \in InBatch(l)
  BY <1>1, MsgType DEF Entries
<1>3. known \subseteq Addrs /\ row \in [Addrs -> Answers \union {"none", "stale"}]
  BY DEF TypeInv, QueueTypeOK
<1>4. "ack" \in Handling /\ "lookup" \in Handling /\ "hint" \in Handling
      /\ "requeue" \in Handling
  BY DEF Handling
<1>5. CASE Check(l)
  <2>1. /\ UNCHANGED <<known, row, stream, unread, pending, missed, gaveUp>>
        /\ \/ Goto(l, "lookup")
           \/ Goto(l, "ack") /\ row[Msg(l).ip] \in Answers
    BY <1>5 DEF Check, store, redis, history
  <2>2. UNCHANGED <<Waiting, InStream>>
    BY <2>1, SameStream
  <2>3. /\ Decided' \subseteq Decided \union {Msg(l)}
        /\ Decided' \subseteq Decided \/ row[Msg(l).ip] \in Answers
        /\ \A k \in Loops : at'[k] = "hint" =>
               at[k] = "hint" /\ Msg(k)' = Msg(k) /\ Msg(k).ip \in Addrs
    BY <1>1, <1>4, <2>1, GotoKeeps
  <2>4. \A e \in Live : e \in Live' \/ row'[e.ip] # "none"
    BY <2>1, <2>2, <2>3 DEF Live, Answers
  <2> QED
    BY <1>3, <2>1, <2>3, <2>4, KeptBy
<1>6. CASE Lookup(l)
  <2>1. PICK answer \in Answers :
            /\ row' = [row EXCEPT ![Msg(l).ip] = answer]
            /\ Goto(l, IF answer = "attacker" THEN "hint" ELSE "ack")
    BY <1>6 DEF Lookup, Upserts
  <2>2. UNCHANGED <<known, stream, unread, pending, missed, gaveUp>>
    BY <1>6 DEF Lookup, Upserts, redis, history
  <2>3. UNCHANGED <<Waiting, InStream>>
    BY <2>2, SameStream
  <2>4. row'[Msg(l).ip] # "none" /\ \A ip \in Addrs : row[ip] # "none" => row'[ip] # "none"
    BY <1>2, <1>3, <2>1 DEF Answers
  <2>5. /\ Decided' \subseteq Decided \union {Msg(l)}
        /\ \A k \in Loops : at'[k] = "hint" =>
               \/ at[k] = "hint" /\ Msg(k)' = Msg(k) /\ Msg(k).ip \in Addrs
               \/ Msg(k)' = Msg(l)
    BY <1>1, <1>4, <2>1, GotoKeeps
  <2>6. \A e \in Live : e \in Live' \/ row'[e.ip] # "none"
    BY <2>2, <2>3, <2>4, <2>5 DEF Live
  <2>7. \A k \in Loops : at'[k] = "hint" =>
            \/ at[k] = "hint" /\ Msg(k)' = Msg(k) /\ Msg(k).ip \in Addrs
            \/ row'[Msg(k)'.ip] # "none"
    BY <2>4, <2>5
  <2> QED
    BY <1>3, <2>2, <2>4, <2>6, <2>7, KeptBy
<1>7. CASE Hint(l)
  <2>1. /\ UNCHANGED <<known, row, stream, unread, pending, missed, gaveUp>>
        /\ Goto(l, "ack") /\ at[l] = "hint"
    BY <1>7 DEF Hint, Hints, redis, history
  <2>2. UNCHANGED <<Waiting, InStream>>
    BY <2>1, SameStream
  <2>3. /\ Decided' \subseteq Decided \union {Msg(l)}
        /\ \A k \in Loops : at'[k] = "hint" =>
               at[k] = "hint" /\ Msg(k)' = Msg(k) /\ Msg(k).ip \in Addrs
    BY <1>1, <1>4, <2>1, GotoKeeps
  <2>4. row[Msg(l).ip] # "none"
    BY <2>1 DEF KeptInv
  <2>5. \A e \in Live : e \in Live' \/ row'[e.ip] # "none"
    BY <2>1, <2>2, <2>3, <2>4 DEF Live
  <2> QED
    BY <1>3, <2>1, <2>3, <2>5, KeptBy
<1>8. CASE CallFails(l)
  <2>1. /\ UNCHANGED <<known, stream, unread, pending, missed>> /\ Effect(l)
        /\ \/ Goto(l, "ack") /\ gaveUp' = gaveUp \union {Msg(l).ip}
           \/ Goto(l, "requeue") /\ UNCHANGED gaveUp
    BY <1>8 DEF CallFails, Effect, Upserts, Hints, redis, store
  <2>2. UNCHANGED <<Waiting, InStream>>
    BY <2>1, SameStream
  <2>3. \A ip \in Addrs : row[ip] # "none" => row'[ip] # "none"
    <3>1. CASE UNCHANGED row
      BY <3>1
    <3>2. CASE \E answer \in Answers : row' = [row EXCEPT ![Msg(l).ip] = answer]
      BY <1>2, <1>3, <3>2 DEF Answers
    <3> QED
      BY <2>1, <3>1, <3>2 DEF Effect, store, Upserts, Hints
  <2>4. /\ Decided' \subseteq Decided \union {Msg(l)}
        /\ Decided' \subseteq Decided \/ Msg(l).ip \in gaveUp'
        /\ \A k \in Loops : at'[k] = "hint" =>
               at[k] = "hint" /\ Msg(k)' = Msg(k) /\ Msg(k).ip \in Addrs
    BY <1>1, <1>4, <2>1, GotoKeeps
  <2>5. \A e \in Live : e \in Live' \/ Accounted(e.ip)'
    BY <2>1, <2>2, <2>4 DEF Live, Accounted
  <2> QED
    BY <1>3, <2>1, <2>3, <2>4, <2>5, KeptBy
<1>9. CASE CallRejected(l) \/ RequeueFails(l)
  <2>1. /\ UNCHANGED <<known, row, stream, unread, pending, gaveUp>>
        /\ Goto(l, "ack") /\ Lose({Msg(l)})
    BY <1>9 DEF CallRejected, RequeueFails, store, redis
  <2>2. UNCHANGED <<Waiting, InStream>>
    BY <2>1, SameStream
  <2>3. missed \subseteq missed' /\ Msg(l).ip \in missed'
    BY <2>1 DEF Lose, AddrsOf
  <2>4. /\ Decided' \subseteq Decided \union {Msg(l)}
        /\ \A k \in Loops : at'[k] = "hint" =>
               at[k] = "hint" /\ Msg(k)' = Msg(k) /\ Msg(k).ip \in Addrs
    BY <1>1, <1>4, <2>1, GotoKeeps
  <2>5. \A e \in Live : e \in Live' \/ Accounted(e.ip)'
    BY <2>1, <2>2, <2>3, <2>4 DEF Live, Accounted
  <2> QED
    BY <1>3, <2>1, <2>3, <2>4, <2>5, KeptBy
<1>10. CASE Requeue(l)
  <2>1. /\ UNCHANGED <<known, row, gaveUp>> /\ at[l] = "requeue"
        /\ XAdd(Msg(l).ip, Msg(l).force, Msg(l).attempt + 1)
        /\ Goto(l, "ack")
    BY <1>10 DEF Requeue, store
  <2>2. Msg(l).attempt + 1 \in 0 .. MaxAttempts - 1
    BY <1>2, <2>1, QueueAssumption DEF TypeInv, LastTry
  <2>3. PICK e \in Entries :
            /\ e.ip = Msg(l).ip
            /\ e \notin InStream \union pending \union Holding
            /\ e \in Waiting'
            /\ \A x \in Waiting \union pending :
                   x \in Waiting' \union pending' \/ x.ip \in missed'
            /\ missed \subseteq missed'
    BY <1>2, <2>1, <2>2, XAddFacts
  <2>4. /\ Decided' \subseteq Decided \union {Msg(l)}
        /\ \A k \in Loops : at'[k] = "hint" =>
               at[k] = "hint" /\ Msg(k)' = Msg(k) /\ Msg(k).ip \in Addrs
    BY <1>1, <1>4, <2>1, GotoKeeps
  <2>5. Decided \union {Msg(l)} \subseteq Holding
    <3>1. \A k \in Loops : at[k] = "ack" => Msg(k) \in InBatch(k)
      BY <1>4, MsgType
    <3> QED
      BY <1>2, <3>1 DEF Decided, Holding
  <2>6. e \in Live'
    BY <2>3, <2>4, <2>5 DEF Live
  <2>7. Msg(l).ip \in AddrsOf(Live')
    BY <2>3, <2>6 DEF AddrsOf
  <2>8. \A x \in Live : x \in Live' \/ x = Msg(l) \/ x.ip \in missed'
    BY <2>3, <2>4 DEF Live
  <2>9. \A x \in Live : x \in Live' \/ Accounted(x.ip)'
    BY <2>7, <2>8 DEF Accounted, AddrsOf
  <2> QED
    BY <1>3, <2>1, <2>3, <2>4, <2>9, KeptBy
<1>11. CASE Ack(l)
  <2>1. /\ UNCHANGED <<known, row, stream, unread, missed, gaveUp>>
        /\ at[l] = "ack"
        /\ pending \subseteq pending' \union {Msg(l)}
        /\ \E s \in Stages \ {"ack", "hint"} : at' = [at EXCEPT ![l] = s]
        /\ \E b : batch' = [batch EXCEPT ![l] = b]
    BY <1>11 DEF Ack, store, history, Stages, Handling, Rest
  <2>2. UNCHANGED <<Waiting, InStream>>
    BY <2>1, SameStream
  <2>3. /\ at'[l] \notin {"ack", "hint"}
        /\ \A k \in Loops : k # l => at'[k] = at[k] /\ Msg(k)' = Msg(k)
    BY <2>1 DEF TypeInv, QueueTypeOK, Msg
  <2>4. Decided' \subseteq Decided /\ Msg(l) \in Decided
    BY <2>1, <2>3 DEF Decided
  <2>5. Live \subseteq Live'
    BY <2>1, <2>2, <2>4, StillLive
  <2>6. \A k \in Loops : at'[k] = "hint" =>
            at[k] = "hint" /\ Msg(k)' = Msg(k) /\ Msg(k).ip \in Addrs
    BY <1>4, <2>3, MsgType DEF Entries
  <2> QED
    BY <1>3, <2>1, <2>5, <2>6, KeptBy
<1> QED
  BY <1>5, <1>6, <1>7, <1>8, <1>9, <1>10, <1>11 DEF Handle

LEMMA LoopKeptStep ==
    ASSUME TypeInv, KeptInv, Consume \/ Claim \/ Refresh
    PROVE  KeptInv'
<1>1. known \subseteq Addrs /\ at \in [Loops -> Stages]
      /\ batch \in [Loops -> Seq(Entries)]
  BY DEF TypeInv, QueueTypeOK
<1>2. "consume" \in Loops /\ "reclaim" \in Loops
      /\ \A l \in Loops : l = "consume" \/ l = "reclaim"
  BY DEF Loops
<1>3. \A k \in Loops : at[k] = "hint" => Msg(k).ip \in Addrs
  BY MsgType DEF Handling, Entries
<1>4. UNCHANGED <<known, row, gaveUp>>
  BY DEF Consume, Read, ReadFails, ReadStops, Reconnect, Claim, ClaimAll, Refresh,
         SelectDue, QueueDue, RefreshFails, store, history
<1>5. CASE Read
  <2>1. /\ UNCHANGED missed
        /\ at' = [at EXCEPT !["consume"] = "check"]
        /\ batch'["reclaim"] = batch["reclaim"]
        /\ at["consume"] = "read"
        /\ Waiting \union pending \subseteq Waiting' \union pending'
    BY <1>5, ReadFacts DEF Read, history
  <2>2. at'["consume"] = "check" /\ at'["reclaim"] = at["reclaim"]
        /\ Msg("reclaim")' = Msg("reclaim")
    BY <1>1, <1>2, <2>1 DEF Msg
  <2>3. Decided' \subseteq Decided
    BY <1>2, <2>2 DEF Decided
  <2>4. Live \subseteq Live'
    BY <2>1, <2>3, StillLive
  <2>5. \A k \in Loops : at'[k] = "hint" => at[k] = "hint" /\ Msg(k)' = Msg(k)
    BY <1>2, <2>2
  <2> QED
    BY <1>1, <1>3, <1>4, <2>1, <2>4, <2>5, KeptBy
<1>6. CASE ReadFails \/ ReadStops \/ Reconnect
  <2>1. /\ UNCHANGED <<stream, unread, pending, missed, batch>>
        /\ \E s \in {"read", "reconnect", "done"} : at' = [at EXCEPT !["consume"] = s]
    <3>1. CASE ReadFails
      BY <3>1 DEF ReadFails, Goto, redis, history
    <3>2. CASE ReadStops
      BY <3>2 DEF ReadStops, Goto, redis, history
    <3>3. CASE Reconnect
      BY <3>3 DEF Reconnect, Goto, history
    <3> QED
      BY <1>6, <3>1, <3>2, <3>3
  <2>2. UNCHANGED <<Waiting, InStream>> /\ \A k \in Loops : Msg(k)' = Msg(k)
    BY <2>1, SameStream DEF Msg
  <2>3. \A k \in Loops : at'[k] \in {"ack", "hint"} => at'[k] = at[k]
    BY <1>1, <1>2, <2>1
  <2>4. Decided' \subseteq Decided
    BY <2>2, <2>3 DEF Decided
  <2>5. Live \subseteq Live'
    BY <2>1, <2>2, <2>4, StillLive
  <2>6. \A k \in Loops : at'[k] = "hint" =>
            at[k] = "hint" /\ Msg(k)' = Msg(k) /\ Msg(k).ip \in Addrs
    BY <1>3, <2>2, <2>3
  <2> QED
    BY <1>1, <1>4, <2>1, <2>5, <2>6, KeptBy
<1>7. CASE Claim
  <2>1. PICK S \in SUBSET pending : ClaimAll(S)
    BY <1>7 DEF Claim
  <2>2. /\ UNCHANGED <<stream, unread, pending, missed>>
        /\ at' = [at EXCEPT !["reclaim"] = "check"]
        /\ batch'["consume"] = batch["consume"]
    BY <2>1, ClaimFacts DEF ClaimAll, redis, history
  <2>3. at'["reclaim"] = "check" /\ at'["consume"] = at["consume"]
        /\ Msg("consume")' = Msg("consume") /\ UNCHANGED <<Waiting, InStream>>
    BY <1>1, <1>2, <2>2, SameStream DEF Msg
  <2>4. Decided' \subseteq Decided
    BY <1>2, <2>3 DEF Decided
  <2>5. Live \subseteq Live'
    BY <2>2, <2>3, <2>4, StillLive
  <2>6. \A k \in Loops : at'[k] = "hint" =>
            at[k] = "hint" /\ Msg(k)' = Msg(k) /\ Msg(k).ip \in Addrs
    BY <1>2, <1>3, <2>3
  <2> QED
    BY <1>1, <1>4, <2>2, <2>5, <2>6, KeptBy
<1>8. CASE SelectDue \/ RefreshFails
  <2>1. UNCHANGED <<stream, unread, pending, missed, at, batch>>
    BY <1>8 DEF SelectDue, RefreshFails, redis, history
  <2>2. UNCHANGED <<Waiting, InStream>> /\ \A k \in Loops : Msg(k)' = Msg(k)
    BY <2>1, SameStream DEF Msg
  <2>3. Decided' \subseteq Decided
    BY <2>1, <2>2 DEF Decided
  <2>4. Live \subseteq Live'
    BY <2>1, <2>2, <2>3, StillLive
  <2> QED
    BY <1>1, <1>3, <1>4, <2>1, <2>2, <2>4, KeptBy
<1>9. CASE QueueDue
  <2>1. UNCHANGED <<at, batch>> /\ \E ip \in refreshing : XAdd(ip, TRUE, 0)
    BY <1>9 DEF QueueDue
  <2>2. PICK ip \in Addrs : XAdd(ip, TRUE, 0)
    BY <2>1 DEF TypeInv, QueueTypeOK
  <2>3. 0 \in 0 .. MaxAttempts - 1
    BY QueueAssumption
  <2>4. /\ missed \subseteq missed'
        /\ \A x \in Waiting \union pending :
               x \in Waiting' \union pending' \/ x.ip \in missed'
    BY <2>2, <2>3, XAddFacts
  <2>5. \A k \in Loops : Msg(k)' = Msg(k)
    BY <2>1 DEF Msg
  <2>6. Decided' \subseteq Decided
    BY <2>1, <2>5 DEF Decided
  <2>7. \A x \in Live : x \in Live' \/ Accounted(x.ip)'
    BY <2>4, <2>6 DEF Live, Accounted
  <2> QED
    BY <1>1, <1>3, <1>4, <2>1, <2>4, <2>5, <2>7, KeptBy
<1> QED
  BY <1>5, <1>6, <1>7, <1>8, <1>9 DEF Consume, Refresh

LEMMA WorldKeptStep ==
    ASSUME TypeInv, KeptInv, World \/ Boot \/ Stop \/ Halt \/ Kill
    PROVE  KeptInv'
<1>1. known \subseteq Addrs /\ row \in [Addrs -> Answers \union {"none", "stale"}]
  BY DEF TypeInv, QueueTypeOK
<1>2. \A k \in Loops : at[k] = "hint" => Msg(k).ip \in Addrs
  BY MsgType DEF Handling, Entries
<1>3. ASSUME UNCHANGED <<at, batch>>
      PROVE  Decided' \subseteq Decided /\ \A k \in Loops : Msg(k)' = Msg(k)
  <2>1. \A k \in Loops : Msg(k)' = Msg(k)
    BY <1>3 DEF Msg
  <2> QED
    BY <1>3, <2>1 DEF Decided
<1>4. CASE \E ip \in Addrs : SeeAddress(ip)
  <2>1. PICK ip \in Addrs : SeeAddress(ip)
    BY <1>4
  <2>2. /\ UNCHANGED <<row, at, batch, gaveUp>> /\ known' = known \union {ip}
    BY <2>1 DEF SeeAddress, worker
  <2>3. CASE XAdd(ip, FALSE, 0)
    <3>1. 0 \in 0 .. MaxAttempts - 1
      BY QueueAssumption
    <3>2. PICK e \in Entries :
              /\ e.ip = ip
              /\ e \notin InStream \union pending \union Holding
              /\ e \in Waiting'
              /\ \A x \in Waiting \union pending :
                     x \in Waiting' \union pending' \/ x.ip \in missed'
              /\ missed \subseteq missed'
      BY <2>3, <3>1, XAddFacts
    <3>3. Decided \subseteq Holding
      <4>1. \A k \in Loops : at[k] = "ack" => Msg(k) \in InBatch(k)
        BY MsgType DEF Handling
      <4> QED
        BY <4>1 DEF Decided, Holding
    <3>4. e \in Live'
      BY <1>3, <2>2, <3>2, <3>3 DEF Live
    <3>5. Accounted(ip)'
      BY <3>2, <3>4 DEF Accounted, AddrsOf
    <3>6. \A x \in Live : x \in Live' \/ Accounted(x.ip)'
      BY <1>3, <2>2, <3>2 DEF Live, Accounted
    <3> QED
      BY <1>1, <1>2, <1>3, <2>2, <3>2, <3>5, <3>6, KeptBy
  <2>4. CASE missed' = missed \union {ip} /\ UNCHANGED redis
    <3>1. UNCHANGED <<stream, unread, pending>>
      BY <2>4 DEF redis
    <3>2. UNCHANGED <<Waiting, InStream>>
      BY <3>1, SameStream
    <3>3. Live \subseteq Live'
      BY <1>3, <2>2, <3>1, <3>2, StillLive
    <3>4. Accounted(ip)'
      BY <2>4 DEF Accounted
    <3> QED
      BY <1>1, <1>2, <1>3, <2>2, <2>4, <3>3, <3>4, KeptBy
  <2> QED
    BY <2>1, <2>3, <2>4 DEF SeeAddress
<1>5. CASE \/ \E ip \in Addrs : Age(ip)
           \/ Stop
  <2>1. /\ UNCHANGED <<known, stream, unread, pending, at, batch, missed, gaveUp>>
        /\ \A ip \in Addrs : row[ip] # "none" => row'[ip] # "none"
    <3>1. CASE Stop
      BY <3>1 DEF Stop, store, redis, history
    <3>2. CASE \E ip \in Addrs : Age(ip)
      BY <1>1, <3>2 DEF Age, redis, worker, history
    <3> QED
      BY <1>5, <3>1, <3>2
  <2>2. UNCHANGED <<Waiting, InStream>>
    BY <2>1, SameStream
  <2>3. Live \subseteq Live'
    BY <1>3, <2>1, <2>2, StillLive
  <2> QED
    BY <1>1, <1>2, <1>3, <2>1, <2>3, KeptBy
<1>6. CASE LoseRedis
  <2>1. /\ UNCHANGED <<known, row, at, batch, gaveUp>>
        /\ missed' = missed \union AddrsOf(Waiting \union pending)
    BY <1>6 DEF LoseRedis, Lose, store, worker
  <2>2. \A x \in Live : Accounted(x.ip)'
    BY <2>1 DEF Live, Accounted, AddrsOf
  <2> QED
    BY <1>1, <1>2, <1>3, <2>1, <2>2, KeptBy
<1>7. CASE Boot \/ Kill
  <2>1. UNCHANGED <<known, row, stream, unread, pending, missed, gaveUp>> /\ Idle
    BY <1>7 DEF Boot, Kill, store, redis, history
  <2>2. \A l \in Loops : at'[l] \in {"read", "sleep"}
    BY <2>1 DEF Idle, Rest
  <2>3. Decided' \subseteq Decided /\ UNCHANGED <<Waiting, InStream>>
    BY <2>1, <2>2, SameStream DEF Decided
  <2>4. Live \subseteq Live'
    BY <2>1, <2>3, StillLive
  <2> QED
    BY <1>1, <2>1, <2>2, <2>4, KeptBy
<1>8. CASE Halt
  <2>1. PICK acks \in SUBSET {l \in Loops : at[l] \in Handling} :
            /\ pending' = pending \ {Msg(l) : l \in acks}
            /\ Lose({Msg(l) : l \in {k \in acks : at[k] # "ack"}})
    BY <1>8 DEF Halt
  <2>2. UNCHANGED <<known, row, stream, unread, gaveUp>> /\ Idle
    BY <1>8 DEF Halt, store
  <2>3. \A l \in Loops : at'[l] \in {"read", "sleep"}
    BY <2>2 DEF Idle, Rest
  <2>4. Decided' = {} /\ UNCHANGED <<Waiting, InStream>>
    BY <2>2, <2>3, SameStream DEF Decided
  <2>5. missed \subseteq missed' /\ \A l \in acks : at[l] # "ack" => Msg(l).ip \in missed'
    BY <2>1 DEF Lose, AddrsOf
  <2>6. \A l \in acks : at[l] = "ack" => Msg(l) \in Decided
    BY DEF Decided
  <2>7. \A x \in Live : x \in Live' \/ x.ip \in missed'
    BY <2>1, <2>4, <2>5, <2>6 DEF Live
  <2>8. \A x \in Live : x \in Live' \/ Accounted(x.ip)'
    BY <2>7 DEF Accounted
  <2> QED
    BY <1>1, <2>2, <2>3, <2>5, <2>8, KeptBy
<1> QED
  BY <1>4, <1>5, <1>6, <1>7, <1>8 DEF World

LEMMA KeptStep == TypeInv /\ KeptInv /\ [QueueNext]_queueVars => KeptInv'
<1> SUFFICES ASSUME TypeInv, KeptInv, [QueueNext]_queueVars PROVE KeptInv'
  OBVIOUS
<1>1. CASE UNCHANGED queueVars
  <2>1. UNCHANGED <<Waiting, InStream>> /\ \A k \in Loops : Msg(k)' = Msg(k)
    BY <1>1, SameStream DEF queueVars, redis, worker, Msg
  <2>2. UNCHANGED Live
    BY <1>1, <2>1 DEF queueVars, redis, worker, Live, Decided
  <2> QED
    BY <1>1, <2>1, <2>2 DEF queueVars, store, worker, history, KeptInv, Accounted, AddrsOf
<1> QED
  BY <1>1, HandleKeptStep, LoopKeptStep, WorldKeptStep DEF QueueNext

\* What is live is in the stream or pending.
LEMMA KeptIsEnough == KeptInv => NothingForgotten
  BY DEF KeptInv, Accounted, NothingForgotten, Live, AddrsOf

\* An address without a row is still in the stream or pending, however often its
\* entries are read, reclaimed by the other loop, acknowledged under it, trimmed
\* or lost, unless it was reported as missed or given up on.
THEOREM NoneForgotten == QueueSpec => []NothingForgotten
  BY TypeInit, TypeStep, KeptInit, KeptStep, KeptIsEnough, PTL DEF QueueSpec

-----------------------------------------------------------------------------
(* Nobody is given up on early *)

\* Every copy of an entry, wherever it is, was preceded by as many failures of its
\* address as it counts attempts; one that waits for its backoff by one more.
TriesInv ==
    /\ \A e \in InStream \union Holding : fails[e.ip] >= e.attempt
    /\ \A l \in Loops : at[l] = "requeue" => fails[Msg(l).ip] > Msg(l).attempt
    /\ GivenUpLast

\* What a step has to respect: failures are not taken back, and what is new in the
\* stream or in a hand counts no more attempts than its address had failures.
LEMMA TriesBy ==
    ASSUME TypeInv, TriesInv, TypeInv',
           \A ip \in Addrs : fails'[ip] >= fails[ip],
           \A e \in InStream' \union Holding' :
               e \in InStream \union Holding \/ fails'[e.ip] >= e.attempt,
           \A l \in Loops : at'[l] = "requeue" =>
               \/ at[l] = "requeue" /\ Msg(l)' = Msg(l)
               \/ fails'[Msg(l)'.ip] > Msg(l)'.attempt,
           \A ip \in gaveUp' : ip \in gaveUp \/ fails'[ip] >= MaxAttempts
    PROVE  TriesInv'
<1>1. /\ fails \in [Addrs -> 0 .. MaxFails] /\ fails' \in [Addrs -> 0 .. MaxFails]
      /\ gaveUp \subseteq Addrs /\ MaxFails \in Nat /\ MaxAttempts \in Nat \ {0}
  BY QueueAssumption DEF TypeInv, QueueTypeOK
<1>2. InStream \union Holding \subseteq Entries
  <2>1. \A k \in 1 .. Len(stream) : stream[k] \in Entries
    BY DEF TypeInv, QueueTypeOK
  <2>2. \A l \in Loops : batch[l] \in Seq(Entries)
    BY DEF TypeInv
  <2>3. \A l \in Loops : \A k \in 1 .. Len(batch[l]) : batch[l][k] \in Entries
    BY <2>2
  <2> QED
    BY <2>1, <2>3 DEF InStream, Holding, InBatch
<1>3. ASSUME NEW e \in InStream \union Holding PROVE fails'[e.ip] >= e.attempt
  <2>1. e.ip \in Addrs /\ e.attempt \in 0 .. MaxAttempts - 1
    BY <1>2 DEF Entries
  <2> QED
    BY <1>1, <2>1 DEF TriesInv
<1>4. ASSUME NEW l \in Loops, at[l] = "requeue" PROVE fails'[Msg(l).ip] > Msg(l).attempt
  <2>1. Msg(l).ip \in Addrs /\ Msg(l).attempt \in 0 .. MaxAttempts - 1
    BY <1>4, MsgType DEF Handling, Entries
  <2> QED
    BY <1>1, <1>4, <2>1 DEF TriesInv
<1>5. \A ip \in gaveUp : fails'[ip] >= MaxAttempts
  BY <1>1 DEF TriesInv, GivenUpLast
<1>6. \A e \in InStream' \union Holding' : fails'[e.ip] >= e.attempt
  BY <1>3
<1>7. \A l \in Loops : at'[l] = "requeue" => fails'[Msg(l)'.ip] > Msg(l)'.attempt
  BY <1>4
<1>8. \A ip \in gaveUp' : fails'[ip] >= MaxAttempts
  BY <1>5
<1> QED
  BY <1>6, <1>7, <1>8 DEF TriesInv, GivenUpLast

LEMMA TriesInit == QueueInit => TriesInv
<1> SUFFICES ASSUME QueueInit PROVE TriesInv
  OBVIOUS
<1>1. stream = <<>> /\ Len(<<>>) = 0 /\ gaveUp = {} /\ \A l \in Loops : batch[l] = <<>>
  BY EmptySeq DEF QueueInit
<1>2. InStream = {} /\ Holding = {}
  BY <1>1 DEF InStream, Holding, InBatch
<1>3. \A l \in Loops : at[l] # "requeue"
  BY DEF QueueInit, Rest
<1> QED
  BY <1>1, <1>2, <1>3 DEF TriesInv, GivenUpLast

\* A batch that shrinks, or whose hands stay the same, holds nothing new.
LEMMA HoldingShrinks ==
    ASSUME \A l \in Loops : InBatch(l)' \subseteq InBatch(l)
    PROVE  Holding' \subseteq Holding
  BY DEF Holding

LEMMA SameBatch ==
    ASSUME UNCHANGED batch
    PROVE  /\ Holding' = Holding
           /\ \A l \in Loops : Msg(l)' = Msg(l)
  BY DEF Holding, InBatch, Msg

LEMMA HandleTriesStep ==
    ASSUME TypeInv, TriesInv, TypeInv', NEW l \in Loops, Handle(l)
    PROVE  TriesInv'
<1>1. at[l] \in Handling
  BY DEF Handle, Check, Lookup, Hint, CallFails, CallRejected, Requeue, RequeueFails,
         Ack, Handling
<1>2. /\ Msg(l) \in Entries /\ Msg(l).ip \in Addrs /\ Msg(l).force \in BOOLEAN
      /\ Msg(l).attempt \in 0 .. MaxAttempts - 1
      /\ Msg(l) \in InStream \union Holding
  BY <1>1, MsgType DEF Entries, Holding
<1>3. /\ fails \in [Addrs -> 0 .. MaxFails] /\ at \in [Loops -> Stages]
      /\ batch \in [Loops -> Seq(Entries)]
      /\ MaxFails \in Nat /\ MaxAttempts \in Nat \ {0}
  BY QueueAssumption DEF TypeInv, QueueTypeOK
<1>4. CASE Check(l) \/ Lookup(l) \/ Hint(l) \/ CallRejected(l) \/ RequeueFails(l)
  <2>1. /\ UNCHANGED <<stream, unread, fails, gaveUp, batch>>
        /\ \E s \in Handling \ {"requeue"} : at' = [at EXCEPT ![l] = s]
    <3>1. CASE Check(l)
      BY <3>1 DEF Check, Goto, Handling, redis, history
    <3>2. CASE Lookup(l)
      BY <3>2 DEF Lookup, Goto, Handling, redis, history
    <3>3. CASE Hint(l)
      BY <3>3 DEF Hint, Goto, Handling, redis, history
    <3>4. CASE CallRejected(l) \/ RequeueFails(l)
      BY <3>4 DEF CallRejected, RequeueFails, Goto, Handling, redis
    <3> QED
      BY <1>4, <3>1, <3>2, <3>3, <3>4
  <2>2. InStream' = InStream /\ Holding' = Holding /\ \A k \in Loops : Msg(k)' = Msg(k)
    BY <2>1, SameStream, SameBatch
  <2>3. \A k \in Loops : at'[k] = "requeue" => at[k] = "requeue"
    BY <1>3, <2>1
  <2>4. \A ip \in Addrs : fails'[ip] >= fails[ip]
    BY <1>3, <2>1
  <2> QED
    BY <2>1, <2>2, <2>3, <2>4, TriesBy
<1>5. CASE CallFails(l)
  <2>1. /\ UNCHANGED <<stream, unread, batch>>
        /\ fails' = [fails EXCEPT ![Msg(l).ip] = fails[Msg(l).ip] + 1]
        /\ \/ /\ LastTry(Msg(l)) /\ at' = [at EXCEPT ![l] = "ack"]
              /\ gaveUp' = gaveUp \union {Msg(l).ip}
           \/ at' = [at EXCEPT ![l] = "requeue"] /\ UNCHANGED gaveUp
    BY <1>5 DEF CallFails, Goto, redis
  <2>2. InStream' = InStream /\ Holding' = Holding /\ \A k \in Loops : Msg(k)' = Msg(k)
    BY <2>1, SameStream, SameBatch
  <2>3. \A ip \in Addrs : fails'[ip] >= fails[ip]
    BY <1>2, <1>3, <2>1
  <2>4. fails[Msg(l).ip] >= Msg(l).attempt
    BY <1>2 DEF TriesInv
  <2>5. fails'[Msg(l).ip] > Msg(l).attempt
    BY <1>2, <1>3, <2>1, <2>4
  <2>6. \A k \in Loops : at'[k] = "requeue" => at[k] = "requeue" \/ k = l
    BY <1>3, <2>1
  <2>7. LastTry(Msg(l)) => fails'[Msg(l).ip] >= MaxAttempts
    <3>1. fails'[Msg(l).ip] \in Int
      BY <1>2, <1>3, <2>1
    <3> QED
      BY <1>2, <1>3, <2>5, <3>1 DEF LastTry
  <2>8. \A ip \in gaveUp' : ip \in gaveUp \/ fails'[ip] >= MaxAttempts
    BY <2>1, <2>7
  <2>9. \A k \in Loops : at'[k] = "requeue" =>
            \/ at[k] = "requeue" /\ Msg(k)' = Msg(k)
            \/ fails'[Msg(k)'.ip] > Msg(k)'.attempt
    BY <2>2, <2>5, <2>6
  <2> QED
    BY <2>2, <2>3, <2>8, <2>9, TriesBy
<1>6. CASE Requeue(l)
  <2>1. /\ UNCHANGED <<fails, gaveUp, batch>> /\ at[l] = "requeue"
        /\ at' = [at EXCEPT ![l] = "ack"]
        /\ XAdd(Msg(l).ip, Msg(l).force, Msg(l).attempt + 1)
    BY <1>6 DEF Requeue, Goto
  <2>2. Msg(l).attempt + 1 \in 0 .. MaxAttempts - 1
    BY <1>2, <1>3, <2>1 DEF TypeInv, LastTry
  <2>3. PICK e \in Entries :
            /\ e.ip = Msg(l).ip /\ e.attempt = Msg(l).attempt + 1
            /\ InStream' \subseteq InStream \union {e}
    BY <1>2, <2>1, <2>2, XAddFacts
  <2>4. fails'[e.ip] >= e.attempt
    <3>1. fails[Msg(l).ip] > Msg(l).attempt
      BY <2>1 DEF TriesInv
    <3> QED
      BY <1>2, <1>3, <2>1, <2>3, <3>1
  <2>5. Holding' = Holding /\ \A k \in Loops : Msg(k)' = Msg(k)
    BY <2>1, SameBatch
  <2>6. \A k \in Loops : at'[k] = "requeue" => at[k] = "requeue"
    BY <1>3, <2>1
  <2>7. \A ip \in Addrs : fails'[ip] >= fails[ip]
    BY <1>3, <2>1
  <2> QED
    BY <2>1, <2>3, <2>4, <2>5, <2>6, <2>7, TriesBy
<1>7. CASE Ack(l)
  <2>1. /\ UNCHANGED <<stream, unread, fails, gaveUp>>
        /\ \E s \in Stages \ {"requeue"} : at' = [at EXCEPT ![l] = s]
        /\ \/ batch' = [batch EXCEPT ![l] = <<>>]
           \/ batch' = [batch EXCEPT ![l] = Tail(batch[l])]
    BY <1>7 DEF Ack, history, Stages, Handling, Rest
  <2>2. \A k \in Loops : k # l => batch'[k] = batch[k]
    BY <1>3, <2>1
  <2>3. InBatch(l)' \subseteq InBatch(l)
    <3>1. CASE batch' = [batch EXCEPT ![l] = <<>>]
      <4>1. batch'[l] = <<>> /\ Len(<<>>) = 0
        BY <1>3, <3>1, EmptySeq
      <4> QED
        BY <4>1 DEF InBatch
    <3>2. CASE batch' = [batch EXCEPT ![l] = Tail(batch[l])]
      <4>1. batch'[l] = Tail(batch[l])
        BY <1>3, <3>2
      <4>2. {Tail(batch[l])[k] : k \in 1 .. Len(Tail(batch[l]))} \subseteq InBatch(l)
        BY <1>1, MsgType
      <4> QED
        BY <4>1, <4>2 DEF InBatch
    <3> QED
      BY <2>1, <3>1, <3>2
  <2>4. \A k \in Loops : InBatch(k)' \subseteq InBatch(k)
    BY <2>2, <2>3 DEF InBatch
  <2>5. InStream' = InStream /\ Holding' \subseteq Holding
    BY <2>1, <2>4, SameStream, HoldingShrinks
  <2>6. \A k \in Loops : at'[k] = "requeue" => at[k] = "requeue" /\ Msg(k)' = Msg(k)
    BY <1>3, <2>1, <2>2 DEF Msg
  <2>7. \A ip \in Addrs : fails'[ip] >= fails[ip]
    BY <1>3, <2>1
  <2> QED
    BY <2>1, <2>5, <2>6, <2>7, TriesBy
<1> QED
  BY <1>4, <1>5, <1>6, <1>7 DEF Handle

\* Outside handle_message nothing fails and nobody is given up on: a step only has
\* to say what it puts on the stream and into a hand.
LEMMA TriesElsewhere ==
    ASSUME TypeInv, TriesInv, TypeInv', UNCHANGED <<fails, gaveUp>>,
           \A e \in InStream' : e \in InStream \/ (e.ip \in Addrs /\ e.attempt = 0),
           \A l \in Loops : \/ batch'[l] = batch[l]
                            \/ InBatch(l)' \subseteq InStream,
           \A l \in Loops : at'[l] = "requeue" => at[l] = "requeue" /\ batch'[l] = batch[l]
    PROVE  TriesInv'
<1>1. fails \in [Addrs -> 0 .. MaxFails] /\ MaxFails \in Nat
  BY QueueAssumption DEF TypeInv, QueueTypeOK
<1>2. Holding' \subseteq InStream \union Holding
  <2>1. \A l \in Loops : InBatch(l)' \subseteq InStream \union InBatch(l)
    BY DEF InBatch
  <2> QED
    BY <2>1 DEF Holding
<1>3. \A e \in InStream' : e \in InStream \/ fails'[e.ip] >= e.attempt
  BY <1>1
<1>4. \A ip \in Addrs : fails'[ip] >= fails[ip]
  BY <1>1
<1>5. \A l \in Loops : at'[l] = "requeue" => at[l] = "requeue" /\ Msg(l)' = Msg(l)
  BY DEF Msg
<1> QED
  BY <1>2, <1>3, <1>4, <1>5, TriesBy

LEMMA LoopTriesStep ==
    ASSUME TypeInv, TriesInv, TypeInv', Consume \/ Claim \/ Refresh
    PROVE  TriesInv'
<1>1. /\ at \in [Loops -> Stages] /\ refreshing \subseteq Addrs
      /\ batch \in [Loops -> Seq(Entries)]
      /\ "consume" \in Loops /\ "reclaim" \in Loops
      /\ \A l \in Loops : l = "consume" \/ l = "reclaim"
  BY DEF TypeInv, QueueTypeOK, Loops
<1>2. UNCHANGED <<fails, gaveUp>>
  BY DEF Consume, Read, ReadFails, ReadStops, Reconnect, Claim, ClaimAll, Refresh,
         SelectDue, QueueDue, RefreshFails, history
<1>3. CASE Read
  <2>1. /\ InStream' = InStream
        /\ at' = [at EXCEPT !["consume"] = "check"]
        /\ batch'["reclaim"] = batch["reclaim"]
        /\ \A k \in 1 .. Len(batch'["consume"]) : batch'["consume"][k] \in InStream
    BY <1>3, ReadFacts
  <2>2. InBatch("consume")' \subseteq InStream
    BY <2>1 DEF InBatch
  <2>3. \A l \in Loops : at'[l] = "requeue" => at[l] = "requeue" /\ batch'[l] = batch[l]
    BY <1>1, <2>1
  <2> QED
    BY <1>1, <1>2, <2>1, <2>2, <2>3, TriesElsewhere
<1>4. CASE ReadFails \/ ReadStops \/ Reconnect
  <2>1. /\ UNCHANGED <<stream, unread, batch>>
        /\ \E s \in {"read", "reconnect", "done"} : at' = [at EXCEPT !["consume"] = s]
    <3>1. CASE ReadFails
      BY <3>1 DEF ReadFails, Goto, redis
    <3>2. CASE ReadStops
      BY <3>2 DEF ReadStops, Goto, redis
    <3>3. CASE Reconnect
      BY <3>3 DEF Reconnect, Goto
    <3> QED
      BY <1>4, <3>1, <3>2, <3>3
  <2>2. \A l \in Loops : at'[l] = "requeue" => at[l] = "requeue"
    BY <1>1, <2>1
  <2> QED
    BY <1>2, <2>1, <2>2, SameStream, TriesElsewhere
<1>5. CASE Claim
  <2>1. PICK S \in SUBSET pending : ClaimAll(S)
    BY <1>5 DEF Claim
  <2>2. /\ UNCHANGED <<stream, unread>>
        /\ at' = [at EXCEPT !["reclaim"] = "check"]
        /\ batch'["consume"] = batch["consume"]
        /\ \A k \in 1 .. Len(batch'["reclaim"]) : batch'["reclaim"][k] \in InStream
    BY <2>1, ClaimFacts DEF ClaimAll, redis
  <2>3. InBatch("reclaim")' \subseteq InStream
    BY <2>2 DEF InBatch
  <2>4. \A l \in Loops : at'[l] = "requeue" => at[l] = "requeue" /\ batch'[l] = batch[l]
    BY <1>1, <2>2
  <2> QED
    BY <1>1, <1>2, <2>2, <2>3, <2>4, SameStream, TriesElsewhere
<1>6. CASE SelectDue \/ RefreshFails
  <2>1. UNCHANGED <<stream, unread, at, batch>>
    BY <1>6 DEF SelectDue, RefreshFails, redis
  <2> QED
    BY <1>2, <2>1, SameStream, TriesElsewhere
<1>7. CASE QueueDue
  <2>1. UNCHANGED <<at, batch>> /\ \E ip \in refreshing : XAdd(ip, TRUE, 0)
    BY <1>7 DEF QueueDue
  <2>2. PICK ip \in Addrs : XAdd(ip, TRUE, 0)
    BY <1>1, <2>1
  <2>3. 0 \in 0 .. MaxAttempts - 1
    BY QueueAssumption
  <2>4. PICK e \in Entries : e.ip = ip /\ e.attempt = 0 /\ InStream' \subseteq InStream \union {e}
    BY <2>2, <2>3, XAddFacts
  <2> QED
    BY <1>2, <2>1, <2>4, TriesElsewhere
<1> QED
  BY <1>3, <1>4, <1>5, <1>6, <1>7 DEF Consume, Refresh

LEMMA WorldTriesStep ==
    ASSUME TypeInv, TriesInv, TypeInv', World \/ Boot \/ Stop \/ Halt \/ Kill
    PROVE  TriesInv'
<1>1. UNCHANGED <<fails, gaveUp>>
  BY DEF World, SeeAddress, Age, LoseRedis, Boot, Stop, Halt, Kill, history
<1>2. CASE \E ip \in Addrs : SeeAddress(ip)
  <2>1. PICK ip \in Addrs : SeeAddress(ip)
    BY <1>2
  <2>2. UNCHANGED <<at, batch>>
    BY <2>1 DEF SeeAddress, worker
  <2>3. CASE XAdd(ip, FALSE, 0)
    <3>1. 0 \in 0 .. MaxAttempts - 1
      BY QueueAssumption
    <3>2. PICK e \in Entries :
              e.ip = ip /\ e.attempt = 0 /\ InStream' \subseteq InStream \union {e}
      BY <2>3, <3>1, XAddFacts
    <3> QED
      BY <1>1, <2>2, <3>2, TriesElsewhere
  <2>4. CASE UNCHANGED redis
    <3>1. UNCHANGED <<stream, unread>>
      BY <2>4 DEF redis
    <3> QED
      BY <1>1, <2>2, <3>1, SameStream, TriesElsewhere
  <2> QED
    BY <2>1, <2>3, <2>4 DEF SeeAddress
<1>3. CASE \/ \E ip \in Addrs : Age(ip)
           \/ Stop
  <2>1. UNCHANGED <<stream, unread, at, batch>>
    BY <1>3 DEF Age, Stop, redis, worker
  <2> QED
    BY <1>1, <2>1, SameStream, TriesElsewhere
<1>4. CASE LoseRedis
  <2>1. stream' = <<>> /\ UNCHANGED <<at, batch>>
    BY <1>4 DEF LoseRedis, worker
  <2>2. InStream' = {}
    BY <2>1, EmptySeq DEF InStream
  <2> QED
    BY <1>1, <2>1, <2>2, TriesElsewhere
<1>5. CASE Boot \/ Halt \/ Kill
  <2>1. UNCHANGED <<stream, unread>> /\ Idle
    BY <1>5 DEF Boot, Halt, Kill, redis
  <2>2. \A l \in Loops : at'[l] # "requeue" /\ batch'[l] = <<>>
    BY <2>1 DEF Idle, Rest
  <2>3. \A l \in Loops : InBatch(l)' = {}
    BY <2>2, EmptySeq DEF InBatch
  <2> QED
    BY <1>1, <2>1, <2>2, <2>3, SameStream, TriesElsewhere
<1> QED
  BY <1>2, <1>3, <1>4, <1>5 DEF World

LEMMA TriesStep == TypeInv /\ TriesInv /\ [QueueNext]_queueVars => TriesInv'
<1> SUFFICES ASSUME TypeInv, TriesInv, [QueueNext]_queueVars PROVE TriesInv'
  OBVIOUS
<1>1. TypeInv'
  BY TypeStep
<1>2. CASE UNCHANGED queueVars
  <2>1. UNCHANGED <<stream, unread, at, batch, fails, gaveUp>>
    BY <1>2 DEF queueVars, redis, worker, history
  <2> QED
    BY <1>1, <2>1, SameStream, TriesElsewhere
<1> QED
  BY <1>1, <1>2, HandleTriesStep, LoopTriesStep, WorldTriesStep DEF QueueNext

\* However an address's entries are duplicated, reclaimed, acknowledged under one
\* another or lost, it is given up on only after MaxAttempts failed lookups of it.
THEOREM GivesUpLast == QueueSpec => []GivenUpLast
<1>1. TriesInv => GivenUpLast
  BY DEF TriesInv
<1> QED
  BY <1>1, TypeInit, TypeStep, TriesInit, TriesStep, PTL DEF QueueSpec

=============================================================================
