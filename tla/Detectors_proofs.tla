-------------------------- MODULE Detectors_proofs --------------------------
(***************************************************************************)
(* Proofs about Detectors, for any addresses, ports, thresholds, windows   *)
(* and caps.                                                               *)
(*                                                                         *)
(* The invariant says what a window is to the detectors: sorted by age,    *)
(* and with an entry for everything that was heard within WINDOW_KEEP_S;   *)
(* so neither trimming nor a collection takes anything that counts.        *)
(***************************************************************************)
EXTENDS Detectors, FiniteSetTheorems, FunctionTheorems, SequenceTheorems, TLAPS

-----------------------------------------------------------------------------
(* Numbers *)

LEMMA Bounds ==
    /\ ScanThreshold \in Nat /\ ScanWindow \in Nat /\ BfWindow \in Nat /\ Keep \in Nat
    /\ ScanWindow > 0 /\ BfWindow > 0
    /\ MaxEvents \in Nat /\ MaxEvents > 0 /\ MaxIps \in Nat /\ MaxIps > 0 /\ MaxFaults \in Nat
    /\ TooOld \in Nat /\ TooOld > Keep /\ TooOld > ScanWindow /\ TooOld > BfWindow
    /\ Least(ScanWindow, Keep) \in Nat
    /\ Least(ScanWindow, Keep) <= ScanWindow /\ Least(ScanWindow, Keep) <= Keep
    /\ \A tag : /\ Span(tag) \in Nat /\ Span(tag) > 0
                /\ Never(tag) \in Nat /\ Never(tag) = 2 * Span(tag) + 1
BY DetectAssumption DEF Span, Never, TooOld, Greatest, Least

\* The ages of reports.
Aged == 0 .. Greatest(Never("scan"), Never("bf"))

LEMMA AgedFacts ==
    /\ Aged \subseteq Nat /\ 0 \in Aged
    /\ \A tag \in Tags : \A n \in Nat : n <= Never(tag) => n \in Aged
BY Bounds DEF Aged, Greatest, Never, Span, Tags

-----------------------------------------------------------------------------
(* Types *)

TypeInv ==
    /\ DetectTypeOK
    /\ window \in [Ips -> Seq(Entries)]
    /\ IsFiniteSet(Tracked)
    /\ told = reported
    /\ \A key \in Keys : reported[key] <= Never(key[1]) /\ filed[key] <= Span(key[1])

HandOK(h) == h = Idle \/ h \in [ip : Ips, event : Events, tag : Tags \union {"exploit"},
                                step : {"insert", "score"}]

LEMMA CountUpto ==
    ASSUME NEW n \in Nat
    PROVE  IsFiniteSet(1 .. n) /\ Cardinality(1 .. n) = n
<1>1. PICK a \in Int, b \in Int : a = 1 /\ b = n
  OBVIOUS
<1>2. IsFiniteSet(a .. b) /\ Cardinality(a .. b) = IF a > b THEN 0 ELSE b - a + 1
  BY FS_Interval
<1> QED
  BY <1>1, <1>2

\* What is left of a sequence without its first n elements.
LEMMA SuffixFacts ==
    ASSUME NEW S, NEW s \in Seq(S), NEW n \in 0 .. Len(s)
    PROVE  /\ SubSeq(s, n + 1, Len(s)) \in Seq(S)
           /\ Len(SubSeq(s, n + 1, Len(s))) = Len(s) - n
           /\ \A k \in 1 .. Len(s) - n : SubSeq(s, n + 1, Len(s))[k] = s[k + n]
<1>1. Len(s) \in Nat /\ n \in Nat /\ n <= Len(s)
  OBVIOUS
<1> QED
  BY <1>1

\* The front of w that is overdue is as long as it has events.
LEMMA OverdueFacts ==
    ASSUME NEW w \in Seq(Entries)
    PROVE  /\ Cardinality(Overdue(w)) \in 0 .. Len(w)
           /\ \A k \in 1 .. Cardinality(Overdue(w)) : w[k].age > Keep
           /\ \A k \in 1 .. Len(w) : w[k].age <= Keep => Cardinality(Overdue(w)) < k
<1> DEFINE O == Overdue(w)
           n == Cardinality(O)
<1>1. Len(w) \in Nat /\ O \subseteq 1 .. Len(w)
  BY DEF Overdue
<1>2. IsFiniteSet(1 .. Len(w)) /\ Cardinality(1 .. Len(w)) = Len(w)
  BY CountUpto
<1>3. IsFiniteSet(O) /\ n \in Nat /\ n <= Len(w)
  BY <1>1, <1>2, FS_Subset, FS_CardinalityType
<1>4. \A k \in O : 1 .. k \subseteq O
  BY <1>1 DEF Overdue
<1>5. \A k \in O : k <= n
  <2> SUFFICES ASSUME NEW k \in O PROVE k <= n
    OBVIOUS
  <2>1. k \in Nat /\ k >= 1 /\ Cardinality(1 .. k) = k
    BY <1>1, CountUpto
  <2> HIDE DEF O
  <2>2. Cardinality(1 .. k) <= Cardinality(O)
    BY <1>3, <1>4, FS_Subset
  <2> QED
    BY <2>1, <2>2
<1>6. O = 1 .. n
  <2> HIDE DEF O
  <2>1. O \subseteq 1 .. n
    BY <1>1, <1>3, <1>5
  <2>2. IsFiniteSet(1 .. n) /\ Cardinality(1 .. n) = n
    BY <1>3, CountUpto
  <2> QED
    BY <2>1, <2>2, FS_Subset
<1>7. \A k \in 1 .. n : w[k].age > Keep
  BY <1>6 DEF Overdue
<1>8. ASSUME NEW k \in 1 .. Len(w), w[k].age <= Keep PROVE n < k
  <2>0. w[k].age \in Nat /\ ~ (w[k].age > Keep) /\ k \in 1 .. k
    <3>1. w[k] \in Entries /\ k \in Nat /\ k >= 1
      OBVIOUS
    <3>2. w[k].age \in Nat
      BY <3>1 DEF Entries
    <3> QED
      BY <1>8, <3>1, <3>2, Bounds
  <2>1. k \notin O
    BY <2>0 DEF Overdue
  <2> HIDE DEF O
  <2> QED
    BY <1>3, <1>6, <2>1
<1> QED
  BY <1>3, <1>7, <1>8

\* A window with one event more is what was left of it, and the event.
LEMMA AppendedFacts ==
    ASSUME NEW w \in Seq(Entries), Len(w) <= MaxEvents, NEW e \in Events
    PROVE  \E d \in 0 .. Len(w) :
               /\ Appended(w, e) \in Seq(Entries)
               /\ Len(Appended(w, e)) = Len(w) - d + 1
               /\ Len(Appended(w, e)) <= MaxEvents
               /\ \A k \in 1 .. Len(w) - d : Appended(w, e)[k] = w[k + d]
               /\ Appended(w, e)[Len(w) - d + 1] = Entry(e)
               /\ \A k \in 1 .. d : w[k].age > Keep \/ (Full(w) /\ k = 1)
<1>1. Entry(e) \in Entries /\ Entry(e).age = 0
  BY Bounds DEF Entry, Entries, Events
<1>2. Len(w) \in Nat /\ \A k \in 1 .. Len(w) : w[k] \in Entries
  OBVIOUS
<1> DEFINE c == IF Full(w) THEN 1 ELSE 0
           kept == IF Full(w) THEN Tail(w) ELSE w
           added == Append(kept, Entry(e))
<1>3. /\ kept \in Seq(Entries) /\ Len(kept) = Len(w) - c /\ Len(kept) \in Nat
      /\ Len(kept) < MaxEvents
      /\ \A k \in 1 .. Len(kept) : kept[k] = w[k + c]
  <2>1. CASE Full(w)
    <3>1. w # <<>> /\ Len(w) = MaxEvents
      BY <2>1, Bounds DEF Full
    <3> QED
      BY <2>1, <3>1, Bounds
  <2>2. CASE ~ Full(w)
    BY <1>2, <2>2, Bounds DEF Full
  <2> QED
    BY <2>1, <2>2
<1> HIDE DEF kept
<1>4. /\ added \in Seq(Entries) /\ Len(added) = Len(w) - c + 1
      /\ \A k \in 1 .. Len(kept) : added[k] = w[k + c]
      /\ added[Len(added)] = Entry(e)
  BY <1>1, <1>3
<1> HIDE DEF added
<1> DEFINE n == Cardinality(Overdue(added))
<1>5. /\ n \in 0 .. Len(added)
      /\ \A k \in 1 .. n : added[k].age > Keep
      /\ n < Len(added)
  <2>1. Len(added) \in 1 .. Len(added) /\ added[Len(added)].age <= Keep
    BY <1>1, <1>3, <1>4, Bounds
  <2> QED
    BY <1>4, <2>1, OverdueFacts
<1>6. Appended(w, e) = SubSeq(added, n + 1, Len(added))
  BY DEF Appended, added, kept
<1> HIDE DEF n
<1> DEFINE d == n + c
<1>7. /\ SubSeq(added, n + 1, Len(added)) \in Seq(Entries)
      /\ Len(SubSeq(added, n + 1, Len(added))) = Len(added) - n
      /\ \A k \in 1 .. Len(added) - n : SubSeq(added, n + 1, Len(added))[k] = added[k + n]
  BY <1>4, <1>5, SuffixFacts
<1>8. c \in {0, 1} /\ d \in 0 .. Len(w) /\ Len(added) - n = Len(w) - d + 1
  BY <1>2, <1>3, <1>4, <1>5
<1>9. \A k \in 1 .. Len(w) - d : added[k + n] = w[k + d]
  <2> SUFFICES ASSUME NEW k \in 1 .. Len(w) - d PROVE added[k + n] = w[k + d]
    OBVIOUS
  <2>1. k + n \in 1 .. Len(kept) /\ (k + n) + c = k + d
    BY <1>2, <1>3, <1>5, <1>8
  <2> QED
    BY <1>4, <2>1
<1>10. \A k \in 1 .. d : w[k].age > Keep \/ (Full(w) /\ k = 1)
  <2> SUFFICES ASSUME NEW k \in 1 .. d, ~ (Full(w) /\ k = 1) PROVE w[k].age > Keep
    OBVIOUS
  <2>1. k - c \in 1 .. n /\ (k - c) + c = k
    BY <1>5, <1>8
  <2>2. k - c \in 1 .. Len(kept)
    BY <1>3, <1>4, <1>5, <2>1
  <2> QED
    BY <1>4, <1>5, <2>1, <2>2
<1>11. Len(Appended(w, e)) <= MaxEvents
  BY <1>2, <1>3, <1>4, <1>5, <1>6, <1>7, Bounds
<1> QED
  <2> HIDE DEF d
  <2>1. /\ Appended(w, e) \in Seq(Entries) /\ Len(Appended(w, e)) = Len(w) - d + 1
        /\ d \in 0 .. Len(w)
    BY <1>6, <1>7, <1>8
  <2>2. \A k \in 1 .. Len(w) - d : Appended(w, e)[k] = w[k + d]
    <3> SUFFICES ASSUME NEW k \in 1 .. Len(w) - d PROVE Appended(w, e)[k] = w[k + d]
      OBVIOUS
    <3>1. k \in 1 .. Len(added) - n
      BY <1>2, <1>8
    <3>2. Appended(w, e)[k] = added[k + n]
      BY <1>6, <1>7, <3>1
    <3> QED
      BY <1>9, <3>2
  <2>3. Appended(w, e)[Len(w) - d + 1] = Entry(e)
    <3>1. Len(w) - d + 1 \in 1 .. Len(added) - n /\ Len(w) - d + 1 + n = Len(added)
      BY <1>2, <1>4, <1>5, <1>8
    <3> QED
      BY <1>4, <1>6, <1>7, <3>1
  <2> QED
    BY <1>10, <1>11, <2>1, <2>2, <2>3

-----------------------------------------------------------------------------
(* Reports *)

\* The findings of one turn of the attack detector.
AttackDone(ip, e) ==
    /\ told' = reported'
    /\ reported' \in [Keys -> Aged]
    /\ HandOK(hand')
    /\ hand'.tag # "scan"
    /\ \A key \in Keys : /\ key[1] = "scan" => reported'[key] = reported[key]
                         /\ reported'[key] \in {reported[key], 0}
                         /\ reported'[key] # reported[key] => InHand(key)'
                         /\ InHand(key)' => reported[key] >= Span(key[1])
    /\ e.kind = "command" => reported'[<<"exec", ip>>] < BfWindow

LEMMA AttackFacts ==
    ASSUME TypeInv, NEW ip \in Ips, NEW e \in Events, NEW w, AttackTurn(ip, e, w, reported)
    PROVE  AttackDone(ip, e)
<1>1. told = reported /\ reported \in [Keys -> Aged]
  BY DEF TypeInv, DetectTypeOK, Aged
<1>2. HandOK(Idle) /\ Idle.tag = "none" /\ Idle.step = "idle"
  BY DEF HandOK, Idle
<1> DEFINE tag == Attack(e, w)
           key == <<tag, ip>>
<1>3. /\ tag \in {"exec", "exploit", "bf", "none"}
      /\ e.kind = "command" => tag = "exec"
  BY DEF Attack
<1>4. \A t \in Tags \union {"exploit"} :
          LET h == Writing(ip, e, t)
          IN  HandOK(h) /\ h.tag = t /\ h.ip = ip /\ h.step = "insert"
  BY DEF HandOK, Writing
<1>5. CASE tag \in Tags
  <2>1. /\ reported' = [reported EXCEPT ![key] = Tested(key)]
        /\ told' = [told EXCEPT ![key] = IF Dup(key) THEN told[key] ELSE 0]
        /\ hand' = IF Dup(key) THEN Idle ELSE Writing(ip, e, tag)
    BY <1>5 DEF AttackTurn, Marked
  <2>2. key \in Keys /\ key[1] = tag /\ tag \in {"exec", "bf"}
    BY <1>3, <1>5 DEF Keys, Tags
  <2>3. \A k \in Keys : k[1] \in Tags
    BY DEF Keys
  <2> HIDE DEF tag, key
  <2>4. Tested(key) = IF Dup(key) THEN reported[key] ELSE 0
    BY DEF Tested
  <2>5. told' = reported'
    BY <1>1, <2>1, <2>4
  <2>6. Tested(key) \in Aged
    BY <1>1, <2>2, <2>4, AgedFacts
  <2>7. /\ reported' \in [Keys -> Aged]
        /\ \A k \in Keys : reported'[k] = IF k = key THEN Tested(key) ELSE reported[k]
    BY <1>1, <2>1, <2>2, <2>6
  <2>8. HandOK(hand') /\ hand'.tag # "scan"
    BY <1>2, <1>4, <1>5, <2>1, <2>2
  <2>9. ~ Dup(key) => reported[key] >= Span(key[1])
    <3>1. reported[key] \in Nat /\ Span(key[1]) \in Nat
      BY <1>1, <2>2, Bounds, AgedFacts
    <3> QED
      BY <3>1 DEF Dup
  <2>10. hand'.step = "insert" => ~ Dup(key) /\ <<hand'.tag, hand'.ip>> = <<tag, ip>>
    BY <1>2, <1>4, <1>5, <2>1
  <2>12. ~ Dup(key) => InHand(key)'
    BY <1>4, <1>5, <2>1 DEF InHand, key
  <2>11. e.kind = "command" => reported'[<<"exec", ip>>] < BfWindow
    <3>1. <<"exec", ip>> = key => Tested(key) < BfWindow
      BY <1>1, <2>2, <2>4, Bounds, AgedFacts DEF Dup, Span
    <3> QED
      BY <1>3, <2>2, <2>7, <3>1 DEF key
  <2> QED
    BY <2>2, <2>4, <2>5, <2>7, <2>8, <2>9, <2>10, <2>11, <2>12
       DEF AttackDone, InHand, key
<1>6. CASE tag \notin Tags
  <2>1. /\ reported' = reported /\ told' = told
        /\ hand' = IF tag = "exploit" THEN Writing(ip, e, tag) ELSE Idle
    BY <1>6 DEF AttackTurn
  <2>2. e.kind # "command"
    BY <1>3, <1>6 DEF Tags
  <2>3. HandOK(hand') /\ hand'.tag \notin Tags
    BY <1>2, <1>4, <1>6, <2>1 DEF Tags
  <2>4. \A k \in Keys : <<hand'.tag, hand'.ip>> # k
    BY <2>3 DEF Keys
  <2> QED
    BY <1>1, <2>1, <2>2, <2>3, <2>4 DEF AttackDone, InHand, Tags
<1> QED
  BY <1>5, <1>6

\* The findings of both detectors about an event, up to the first that is written.
ScanDone(ip, e, w) ==
    /\ told' = reported'
    /\ reported' \in [Keys -> Aged]
    /\ HandOK(hand')
    /\ \A key \in Keys : /\ reported'[key] \in {reported[key], 0}
                         /\ reported'[key] # reported[key] => InHand(key)'
                         /\ InHand(key)' => reported[key] >= Span(key[1])
    /\ FansOut(w) => reported'[<<"scan", ip>>] < ScanWindow
    /\ e.kind = "command" => \/ reported'[<<"exec", ip>>] < BfWindow
                             \/ hand'.tag = "scan" /\ hand'.ip = ip /\ hand'.event = e

LEMMA ScanFacts ==
    ASSUME TypeInv, NEW ip \in Ips, NEW e \in Events, NEW w, ScanTurn(ip, e, w)
    PROVE  ScanDone(ip, e, w)
<1> DEFINE key == <<"scan", ip>>
<1>1. told = reported /\ reported \in [Keys -> Aged]
  BY DEF TypeInv, DetectTypeOK, Aged
<1>2. key \in Keys /\ key[1] = "scan"
  BY DEF Keys, Tags
<1> HIDE DEF key
<1>3. Dup(key) => reported[key] < ScanWindow
  BY <1>2 DEF Dup, Span
<1>4. ~ Dup(key) => reported[key] >= Span("scan")
  <2>1. reported[key] \in Nat /\ Span("scan") \in Nat
    BY <1>1, <1>2, Bounds, AgedFacts
  <2> QED
    BY <1>2, <2>1 DEF Dup
<1>5. CASE FansOut(w) /\ ~ Dup(key)
  <2>1. /\ reported' = [reported EXCEPT ![key] = 0]
        /\ told' = [told EXCEPT ![key] = 0]
        /\ hand' = Writing(ip, e, "scan")
    BY <1>5 DEF ScanTurn, Marked, Tested, key
  <2>2. /\ HandOK(hand') /\ hand'.tag = "scan" /\ hand'.ip = ip /\ hand'.event = e
        /\ hand'.step = "insert"
    BY <2>1 DEF HandOK, Writing, Tags
  <2>3. /\ reported' \in [Keys -> Aged]
        /\ \A k \in Keys : reported'[k] = IF k = key THEN 0 ELSE reported[k]
    BY <1>1, <1>2, <2>1, AgedFacts
  <2> QED
    BY <1>1, <1>2, <1>4, <1>5, <2>1, <2>2, <2>3, Bounds DEF ScanDone, InHand, key, Span
<1>6. CASE ~ (FansOut(w) /\ ~ Dup(key))
  <2>1. AttackTurn(ip, e, w, reported)
    <3>1. AttackTurn(ip, e, w, IF FansOut(w) THEN [reported EXCEPT ![key] = Tested(key)]
                                             ELSE reported)
      BY <1>6 DEF ScanTurn, key
    <3>2. FansOut(w) => [reported EXCEPT ![key] = Tested(key)] = reported
      BY <1>1, <1>2, <1>6 DEF Tested
    <3> QED
      BY <3>1, <3>2
  <2>2. AttackDone(ip, e)
    BY <2>1, AttackFacts
  <2>3. FansOut(w) => reported'[key] < ScanWindow
    BY <1>2, <1>3, <1>6, <2>2 DEF AttackDone
  <2> QED
    BY <2>2, <2>3 DEF AttackDone, ScanDone, key
<1> QED
  BY <1>5, <1>6

-----------------------------------------------------------------------------
(* Windows *)

\* The events of a window are in the order of their coming.
Sorted(w) == \A j, k \in 1 .. Len(w) : j <= k => w[j].age >= w[k].age

\* What was heard of a port within WINDOW_KEEP_S is in the window.
Linked(w, h) == \A p \in Ports : h[p] <= Keep =>
                    \E k \in 1 .. Len(w) : w[k].port = p /\ w[k].age = h[p]

WindowsOK == \A ip \in Ips : Sorted(window[ip]) /\ Linked(window[ip], heard[ip])

\* Evicting the coldest makes room for one more.
LEMMA CapKept ==
    ASSUME IsFiniteSet(Tracked), Cardinality(Tracked) <= MaxIps,
           NEW ip \in Ips, NEW gone \in Evictions(ip),
           \A i \in Ips \ {ip} : window'[i] = IF i \in gone THEN <<>> ELSE window[i]
    PROVE  IsFiniteSet(Tracked') /\ Cardinality(Tracked') <= MaxIps
<1> DEFINE T == Tracked
           U == Tracked'
<1>1. Cardinality(T) \in Nat /\ IsFiniteSet(T)
  BY FS_CardinalityType
<1>2. U \subseteq (T \ gone) \union {ip}
  BY DEF Tracked
<1>3. CASE ip \in T \/ Cardinality(T) < MaxIps
  <2> HIDE DEF T, U
  <2>1. /\ IsFiniteSet(T \union {ip})
        /\ Cardinality(T \union {ip}) = IF ip \in T THEN Cardinality(T) ELSE Cardinality(T) + 1
    BY <1>1, FS_AddElement
  <2>2. U \in SUBSET (T \union {ip})
    BY <1>2
  <2>3. IsFiniteSet(U) /\ Cardinality(U) <= Cardinality(T \union {ip})
    BY <2>1, <2>2, FS_Subset
  <2>4. Cardinality(T \union {ip}) <= MaxIps
    BY <1>1, <1>3, <2>1, Bounds DEF T
  <2>5. Cardinality(U) \in Nat /\ Cardinality(T \union {ip}) \in Nat
    BY <2>1, <2>3, FS_CardinalityType
  <2> QED
    BY <2>3, <2>4, <2>5, Bounds DEF U
<1>4. CASE ip \notin T /\ Cardinality(T) >= MaxIps
  <2>1. gone \in Coldest(Greatest(1, MaxIps \div 10))
    BY <1>4 DEF Evictions
  <2>2. gone \subseteq T /\ Cardinality(gone) >= 1
    <3>1. MaxIps \div 10 \in Nat
      BY Bounds
    <3> QED
      BY <2>1, <3>1 DEF Coldest, Greatest
  <2>3. PICK c \in gone : TRUE
    <3>1. gone # {}
      BY <2>2, FS_EmptySet
    <3> QED
      BY <3>1
  <2> HIDE DEF T, U
  <2>4. IsFiniteSet(T \ {c}) /\ Cardinality(T \ {c}) = Cardinality(T) - 1
    BY <1>1, <2>2, <2>3, FS_RemoveElement
  <2>5. /\ IsFiniteSet((T \ {c}) \union {ip})
        /\ Cardinality((T \ {c}) \union {ip}) = Cardinality(T \ {c}) + 1
    BY <1>4, <2>4, FS_AddElement
  <2>6. U \in SUBSET ((T \ {c}) \union {ip})
    BY <1>2, <2>3
  <2>7. IsFiniteSet(U) /\ Cardinality(U) <= Cardinality((T \ {c}) \union {ip})
    BY <2>5, <2>6, FS_Subset
  <2>8. Cardinality((T \ {c}) \union {ip}) = Cardinality(T)
    BY <1>1, <2>4, <2>5
  <2>9. Cardinality(U) \in Nat
    BY <2>7, FS_CardinalityType
  <2> QED
    BY <1>1, <2>7, <2>8, <2>9, Bounds DEF T, U
<1> QED
  BY <1>1, <1>3, <1>4, Bounds

\* Windows that only become empty stay within the cap.
LEMMA CapShrinks ==
    ASSUME IsFiniteSet(Tracked), Cardinality(Tracked) <= MaxIps, Tracked' \subseteq Tracked
    PROVE  IsFiniteSet(Tracked') /\ Cardinality(Tracked') <= MaxIps
<1>1. Cardinality(Tracked) \in Nat
  BY FS_CardinalityType
<1>2. IsFiniteSet(Tracked') /\ Cardinality(Tracked') <= Cardinality(Tracked)
  BY FS_Subset
<1>3. Cardinality(Tracked') \in Nat
  BY <1>2, FS_CardinalityType
<1> QED
  BY <1>1, <1>2, <1>3, Bounds

\* What was heard, one event later.
LEMMA SignalFacts ==
    ASSUME NEW h \in [Signals -> 0 .. TooOld], NEW w, NEW e \in Events
    PROVE  LET now == Signal(Overflown(h, w), e)
           IN  /\ now \in [Signals -> 0 .. TooOld]
               /\ \A p \in Ports : now[p] <= Keep /\ p # e.port =>
                      now[p] = h[p] /\ ~ (Full(w) /\ Head(w).port = p /\ Head(w).age = h[p])
               /\ e.port \in Ports => now[e.port] = 0
               /\ e.kind # "command" => now["command"] = h["command"]
<1>1. /\ \A p \in Ports : p \notin Kinds /\ p \in Signals
      /\ "command" \in Signals /\ "command" \notin Ports
      /\ e.kind \in Kinds /\ e.port \in Ports \union {NoPort} /\ NoPort \notin Ports
      /\ "command" \in Kinds
  BY DetectAssumption DEF Signals, Events, Kinds
<1>2. TooOld \in 0 .. TooOld /\ 0 \in 0 .. TooOld /\ TooOld > Keep /\ Keep \in Nat
  BY Bounds
<1> DEFINE o == Overflown(h, w)
           lost == Full(w) /\ Head(w).port \in Ports /\ h[Head(w).port] = Head(w).age
<1>3. /\ o \in [Signals -> 0 .. TooOld]
      /\ \A s \in Signals : o[s] = IF lost /\ s = Head(w).port THEN TooOld ELSE h[s]
  BY <1>1, <1>2 DEF Overflown
<1> HIDE DEF o
<1>4. /\ Signal(o, e) \in [Signals -> 0 .. TooOld]
      /\ \A s \in Signals : Signal(o, e)[s] = IF s = e.port \/ s = e.kind THEN 0 ELSE o[s]
  BY <1>2, <1>3 DEF Signal
<1>5. ASSUME NEW p \in Ports, Signal(o, e)[p] <= Keep, p # e.port
      PROVE  Signal(o, e)[p] = h[p] /\ ~ (Full(w) /\ Head(w).port = p /\ Head(w).age = h[p])
  <2>1. Signal(o, e)[p] = o[p]
    BY <1>1, <1>4, <1>5
  <2>2. o[p] # TooOld
    BY <1>2, <1>5, <2>1
  <2> QED
    BY <1>1, <1>3, <2>1, <2>2
<1>6. e.port \in Ports => Signal(o, e)[e.port] = 0
  BY <1>1, <1>4
<1>7. e.kind # "command" => Signal(o, e)["command"] = h["command"]
  <2>1. SUFFICES ASSUME e.kind # "command" PROVE Signal(o, e)["command"] = h["command"]
    OBVIOUS
  <2>2. "command" # e.port /\ "command" # e.kind
    BY <1>1, <2>1, DetectAssumption DEF NoPort
  <2> QED
    BY <1>1, <1>3, <1>4, <2>2
<1> QED
  BY <1>4, <1>5, <1>6, <1>7 DEF o

\* A window with one event more stays sorted, and what is heard stays in it.
LEMMA AppendedKeeps ==
    ASSUME NEW w \in Seq(Entries), Len(w) <= MaxEvents, NEW e \in Events,
           NEW h \in [Signals -> 0 .. TooOld], Sorted(w), Linked(w, h)
    PROVE  /\ Sorted(Appended(w, e))
           /\ Linked(Appended(w, e), Signal(Overflown(h, w), e))
<1> DEFINE a == Appended(w, e)
           now == Signal(Overflown(h, w), e)
<1>1. PICK d \in 0 .. Len(w) :
          /\ a \in Seq(Entries)
          /\ Len(a) = Len(w) - d + 1
          /\ \A k \in 1 .. Len(w) - d : a[k] = w[k + d]
          /\ a[Len(w) - d + 1] = Entry(e)
          /\ \A k \in 1 .. d : w[k].age > Keep \/ (Full(w) /\ k = 1)
  BY AppendedFacts
<1>2. /\ \A p \in Ports : now[p] <= Keep /\ p # e.port =>
              now[p] = h[p] /\ ~ (Full(w) /\ Head(w).port = p /\ Head(w).age = h[p])
      /\ e.port \in Ports => now[e.port] = 0
      /\ \A p \in Ports : h[p] \in Nat
  <2>1. \A p \in Ports : h[p] \in Nat
    BY Bounds DEF Signals
  <2> QED
    BY <2>1, SignalFacts
<1>3. Len(w) \in Nat /\ (\A k \in 1 .. Len(w) : w[k].age \in Nat) /\ Keep \in Nat
  <2>1. \A k \in 1 .. Len(w) : w[k] \in Entries
    OBVIOUS
  <2> QED
    BY <2>1, Bounds DEF Entries
<1>4. Entry(e).age = 0 /\ Entry(e).port = e.port
  BY DEF Entry
<1> HIDE DEF a, now
<1>7. Len(w) \in Nat /\ d \in Nat /\ d <= Len(w) /\ Len(a) = Len(w) - d + 1
  BY <1>1, <1>3
<1>5. Sorted(a)
  <2> SUFFICES ASSUME NEW j \in 1 .. Len(a), NEW k \in 1 .. Len(a), j <= k
               PROVE  a[j].age >= a[k].age
    BY DEF Sorted
  <2>1. \A i \in 1 .. Len(a) : /\ i <= Len(w) - d => a[i] = w[i + d] /\ i + d \in 1 .. Len(w)
                               /\ ~ (i <= Len(w) - d) => i = Len(w) - d + 1
    <3> SUFFICES ASSUME NEW i \in 1 .. Len(a)
                 PROVE  /\ i <= Len(w) - d => a[i] = w[i + d] /\ i + d \in 1 .. Len(w)
                        /\ ~ (i <= Len(w) - d) => i = Len(w) - d + 1
      OBVIOUS
    <3>1. i <= Len(w) - d => i \in 1 .. Len(w) - d /\ i + d \in 1 .. Len(w)
      BY <1>7
    <3>2. ~ (i <= Len(w) - d) => i = Len(w) - d + 1
      BY <1>7
    <3>3. \A l \in 1 .. Len(w) - d : a[l] = w[l + d]
      BY <1>1
    <3> QED
      BY <3>1, <3>2, <3>3
  <2>2. CASE k <= Len(w) - d
    <3>1. j <= Len(w) - d /\ j + d <= k + d
      BY <1>3, <2>2
    <3> QED
      BY <2>1, <2>2, <3>1 DEF Sorted
  <2>3. CASE ~ (k <= Len(w) - d)
    <3>1. a[k].age = 0
      BY <1>1, <1>4, <2>1, <2>3
    <3>2. a[j].age \in Nat
      <4>1. CASE j <= Len(w) - d
        BY <1>3, <2>1, <4>1
      <4>2. CASE ~ (j <= Len(w) - d)
        BY <1>1, <1>4, <2>1, <4>2
      <4> QED
        BY <4>1, <4>2
    <3> QED
      BY <3>1, <3>2
  <2> QED
    BY <2>2, <2>3
<1>6. Linked(a, now)
  <2> SUFFICES ASSUME NEW p \in Ports, now[p] <= Keep
               PROVE  \E k \in 1 .. Len(a) : a[k].port = p /\ a[k].age = now[p]
    BY DEF Linked
  <2>1. CASE p = e.port
    <3>1. Len(a) \in 1 .. Len(a) /\ a[Len(a)] = Entry(e)
      BY <1>1, <1>3
    <3> QED
      BY <1>2, <1>4, <2>1, <3>1
  <2>2. CASE p # e.port
    <3>1. /\ now[p] = h[p] /\ h[p] <= Keep
          /\ ~ (Full(w) /\ Head(w).port = p /\ Head(w).age = h[p])
      BY <1>2, <2>2
    <3>2. PICK k \in 1 .. Len(w) : w[k].port = p /\ w[k].age = h[p]
      BY <3>1 DEF Linked
    <3>3. k \notin 1 .. d
      <4>1. ~ (w[k].age > Keep)
        BY <1>2, <1>3, <3>1, <3>2
      <4>2. ~ (Full(w) /\ k = 1)
        BY <3>1, <3>2
      <4> QED
        BY <1>1, <4>1, <4>2
    <3>4. k - d \in 1 .. Len(w) - d /\ k - d \in 1 .. Len(a) /\ (k - d) + d = k
      BY <1>7, <3>3
    <3>5. a[k - d] = w[k]
      BY <1>1, <3>4
    <3> QED
      BY <3>1, <3>2, <3>4, <3>5
  <2> QED
    BY <2>1, <2>2
<1> QED
  BY <1>5, <1>6 DEF a, now

\* A scan that was heard is a fan-out in the window.
LEMMA ScanSeen ==
    ASSUME NEW w \in Seq(Entries), NEW h \in [Signals -> 0 .. TooOld], Linked(w, h),
           Cardinality({p \in Ports : h[p] <= Least(ScanWindow, Keep)}) >= ScanThreshold
    PROVE  FansOut(w)
<1> DEFINE recent == {p \in Ports : h[p] <= Least(ScanWindow, Keep)}
           Y == Young(w, ScanWindow)
           seen == {w[k].port : k \in Y}
           f == [k \in Y |-> w[k].port]
<1>1. Y \subseteq 1 .. Len(w) /\ Len(w) \in Nat
  BY DEF Young
<1>2. IsFiniteSet(Y)
  <2> HIDE DEF Y
  <2>1. IsFiniteSet(1 .. Len(w))
    BY <1>1, CountUpto
  <2> QED
    BY <1>1, <2>1, FS_Subset
<1>3. recent \subseteq seen \ {NoPort}
  <2> SUFFICES ASSUME NEW p \in Ports, h[p] <= Least(ScanWindow, Keep)
               PROVE  p \in seen /\ p # NoPort
    OBVIOUS
  <2>1. h[p] \in Nat
    BY Bounds DEF Signals
  <2>2. h[p] <= Keep /\ h[p] <= ScanWindow
    BY <2>1, Bounds
  <2>3. PICK k \in 1 .. Len(w) : w[k].port = p /\ w[k].age = h[p]
    BY <2>2 DEF Linked
  <2> QED
    BY <2>2, <2>3, DetectAssumption DEF Young
<1>4. IsFiniteSet(seen)
  <2>1. f \in [Y -> seen] /\ \A t \in seen : \E k \in Y : f[k] = t
    OBVIOUS
  <2> HIDE DEF f, seen, Y
  <2>2. f \in Surjection(Y, seen)
    BY <2>1, Fun_IsSurj
  <2> QED
    BY <1>2, <2>2, FS_Surjection
<1> HIDE DEF recent, seen
<1>5. IsFiniteSet(seen \ {NoPort})
  BY <1>4, FS_Subset
<1>6. /\ IsFiniteSet(recent) /\ Cardinality(recent) <= Cardinality(seen \ {NoPort})
      /\ Cardinality(recent) \in Nat /\ Cardinality(seen \ {NoPort}) \in Nat
  BY <1>3, <1>5, FS_Subset, FS_CardinalityType
<1>7. Cardinality(recent) >= ScanThreshold
  BY DEF recent
<1> QED
  BY <1>6, <1>7, Bounds DEF FansOut, seen

\* Everything in a window grows older by a tick.
Older(w) == [k \in 1 .. Len(w) |-> [w[k] EXCEPT !.age = Least(w[k].age + 1, TooOld)]]

LEMMA OlderFacts ==
    ASSUME NEW w \in Seq(Entries)
    PROVE  /\ Older(w) \in Seq(Entries)
           /\ Len(Older(w)) = Len(w)
           /\ \A k \in 1 .. Len(w) : /\ w[k].age \in Nat
                                     /\ Older(w)[k].port = w[k].port
                                     /\ Older(w)[k].age = Least(w[k].age + 1, TooOld)
           /\ Older(w) # <<>> => w # <<>>
<1>1. Len(w) \in Nat /\ \A k \in 1 .. Len(w) : w[k] \in Entries
  OBVIOUS
<1>2. ASSUME NEW x \in Entries
      PROVE  /\ x.age \in Nat
             /\ [x EXCEPT !.age = Least(x.age + 1, TooOld)] \in Entries
             /\ [x EXCEPT !.age = Least(x.age + 1, TooOld)].port = x.port
             /\ [x EXCEPT !.age = Least(x.age + 1, TooOld)].age = Least(x.age + 1, TooOld)
  <2>1. x.age \in Nat /\ x.age <= TooOld
    BY Bounds DEF Entries
  <2>2. Least(x.age + 1, TooOld) \in 0 .. TooOld
    BY <2>1, Bounds DEF Least
  <2> QED
    BY <2>1, <2>2 DEF Entries
<1>3. Older(w) \in [1 .. Len(w) -> Entries]
  BY <1>1, <1>2 DEF Older
<1>4. Older(w) \in Seq(Entries)
  BY <1>1, <1>3, SeqDef
<1>5. Len(Older(w)) = Len(w)
  BY <1>1, <1>3, <1>4, LenProperties
<1>6. Older(w) # <<>> => w # <<>>
  BY <1>1, <1>4, <1>5, EmptySeq
<1>7. \A k \in 1 .. Len(w) :
          /\ w[k].age \in Nat
          /\ Older(w)[k].port = w[k].port
          /\ Older(w)[k].age = Least(w[k].age + 1, TooOld)
  BY <1>1, <1>2 DEF Older
<1> QED
  BY <1>4, <1>5, <1>6, <1>7

LEMMA OlderKeeps ==
    ASSUME NEW w \in Seq(Entries), NEW h \in [Signals -> 0 .. TooOld], NEW now,
           \A s \in Signals : now[s] = Least(h[s] + 1, TooOld),
           Sorted(w), Linked(w, h)
    PROVE  Sorted(Older(w)) /\ Linked(Older(w), now)
<1>1. \A k \in 1 .. Len(w) : w[k].age \in Nat
  BY OlderFacts
<1>2. Sorted(Older(w))
  <2> SUFFICES ASSUME NEW j \in 1 .. Len(w), NEW k \in 1 .. Len(w), j <= k
               PROVE  Least(w[j].age + 1, TooOld) >= Least(w[k].age + 1, TooOld)
    BY OlderFacts DEF Sorted
  <2>1. w[j].age >= w[k].age /\ w[j].age \in Nat /\ w[k].age \in Nat
    BY <1>1 DEF Sorted
  <2> QED
    BY <2>1, Bounds DEF Least
<1>3. Linked(Older(w), now)
  <2> SUFFICES ASSUME NEW p \in Ports, now[p] <= Keep
               PROVE  \E k \in 1 .. Len(w) : Older(w)[k].port = p /\ Older(w)[k].age = now[p]
    BY OlderFacts DEF Linked
  <2>1. h[p] \in Nat /\ now[p] = Least(h[p] + 1, TooOld)
    BY Bounds DEF Signals
  <2>2. h[p] <= Keep
    BY <2>1, Bounds DEF Least
  <2>3. PICK k \in 1 .. Len(w) : w[k].port = p /\ w[k].age = h[p]
    BY <2>2 DEF Linked
  <2> QED
    BY <2>1, <2>3, OlderFacts
<1> QED
  BY <1>2, <1>3

\* A window that is collected holds nothing that counts.
LEMMA StaleForgets ==
    ASSUME NEW w \in Seq(Entries), NEW h \in [Signals -> 0 .. TooOld],
           Sorted(w), Linked(w, h), Stale(w)
    PROVE  Linked(<<>>, h)
<1>1. Len(w) \in Nat /\ Len(w) \in 1 .. Len(w)
  BY EmptySeq DEF Stale
<1>2. \A k \in 1 .. Len(w) : w[k].age \in Nat
  BY OlderFacts
<1> SUFFICES ASSUME NEW p \in Ports, h[p] <= Keep PROVE FALSE
  BY DEF Linked
<1>3. PICK k \in 1 .. Len(w) : w[k].age = h[p]
  BY DEF Linked
<1>4. w[k].age >= w[Len(w)].age /\ w[Len(w)].age > Keep
  BY <1>1 DEF Sorted, Stale, LastAge
<1> QED
  BY <1>1, <1>2, <1>3, <1>4, Bounds

-----------------------------------------------------------------------------
(* The inductive invariant *)

\* A command that was just heard is reported, unless the scan finding of its event is
\* still being written.
CommandInv ==
    \A ip \in Ips :
        heard[ip]["command"] = 0 =>
            \/ reported[<<"exec", ip>>] < BfWindow
            \/ hand.tag = "scan" /\ hand.ip = ip /\ hand.event.kind = "command"

\* The scan of an address that scans is marked.
FanOutInv == \A ip \in Ips : Scanning(ip) => reported[<<"scan", ip>>] < ScanWindow

\* A mark has its row, or is the one that is being written, or failed to be.
FiledInv ==
    \A key \in Keys : InHand(key) \/ filed[key] <= reported[key] \/ key \in spoiled

DetectInv == TypeInv /\ WindowsOK /\ FanOutInv /\ CommandInv /\ FiledInv

LEMMA TypeParts ==
    DetectTypeOK <=>
        /\ \A ip \in Ips : /\ Len(window[ip]) <= MaxEvents
                           /\ \A k \in 1 .. Len(window[ip]) : window[ip][k] \in Entries
        /\ Cardinality(Tracked) <= MaxIps
        /\ reported \in [Keys -> Aged]
        /\ HandOK(hand)
        /\ score \in [Ips -> {0} \union UNION {Bumps[tag] : tag \in DOMAIN Bumps}]
        /\ filed \in [Keys -> 0 .. Greatest(ScanWindow, BfWindow)]
        /\ spoiled \subseteq Keys
        /\ heard \in [Ips -> [Signals -> 0 .. TooOld]]
        /\ faults \in 0 .. MaxFaults
BY DEF DetectTypeOK, HandOK, Aged

\* What becomes of the reports while a finding is dealt with.
Reporting ==
    /\ told' = reported'
    /\ reported' \in [Keys -> Aged]
    /\ \A key \in Keys : /\ reported'[key] \in {reported[key], 0}
                         /\ reported'[key] # reported[key] => InHand(key)'

LEMMA ReportedKept ==
    ASSUME TypeInv, Reporting, NEW key \in Keys
    PROVE  /\ reported'[key] <= Never(key[1])
           /\ \A n \in Nat : reported[key] < n => reported'[key] < n
<1>1. /\ reported[key] \in Nat /\ reported[key] <= Never(key[1]) /\ key[1] \in Tags
      /\ Never(key[1]) \in Nat
  BY AgedFacts, Bounds DEF TypeInv, DetectTypeOK, Aged, Keys
<1>2. reported'[key] \in {reported[key], 0}
  BY DEF Reporting
<1>3. ASSUME NEW n \in Nat, reported[key] < n PROVE reported'[key] < n
  BY <1>1, <1>2, <1>3
<1> QED
  BY <1>1, <1>2, <1>3

\* The rows, whether the statement at hand had an effect or not.
Filing ==
    /\ filed' \in [Keys -> 0 .. Greatest(ScanWindow, BfWindow)]
    /\ spoiled' \subseteq Keys
    /\ \A key \in Keys : /\ filed'[key] <= filed[key]
                         /\ \/ filed'[key] = 0
                            \/ key \in spoiled'
                            \/ ~ InHand(key) /\ key \notin spoiled

LEMMA InsertedFacts ==
    ASSUME TypeInv, Inserted \/ NotInserted
    PROVE  Filing
<1>1. /\ filed \in [Keys -> 0 .. Greatest(ScanWindow, BfWindow)] /\ spoiled \subseteq Keys
      /\ Greatest(ScanWindow, BfWindow) \in Nat
  BY Bounds DEF TypeInv, DetectTypeOK, Greatest
<1>2. \A key \in Keys : filed[key] \in Nat
  BY <1>1
<1> QED
  BY <1>1, <1>2 DEF Inserted, NotInserted, Filing

LEMMA EffectFacts ==
    ASSUME TypeInv, hand = Idle \/ hand.ip \in Ips, Effect
    PROVE  /\ Filing
           /\ score' \in [Ips -> {0} \union UNION {Bumps[tag] : tag \in DOMAIN Bumps}]
<1> DEFINE Scores == {0} \union UNION {Bumps[tag] : tag \in DOMAIN Bumps}
<1>1. score \in [Ips -> Scores]
  BY DEF TypeInv, DetectTypeOK
<1>2. CASE NotInserted /\ UNCHANGED score
  BY <1>1, <1>2, InsertedFacts
<1>3. CASE hand.step = "insert" /\ Inserted /\ UNCHANGED score
  BY <1>1, <1>3, InsertedFacts
<1>4. CASE hand.step = "score" /\ Raised /\ UNCHANGED <<filed, spoiled>>
  <2>1. hand \in [ip : Ips, event : Events, tag : Tags \union {"exploit"},
                  step : {"insert", "score"}]
    BY <1>4 DEF TypeInv, DetectTypeOK, Idle
  <2>2. hand.ip \in Ips /\ hand.tag \in DOMAIN Bumps
    BY <2>1 DEF Bumps, Tags
  <2>3. PICK bump \in Bumps[hand.tag] :
            score' = [score EXCEPT ![hand.ip] = Greatest(score[hand.ip], bump)]
    BY <1>4 DEF Raised
  <2>4. bump \in Scores
    BY <2>2, <2>3
  <2>5. Greatest(score[hand.ip], bump) \in {score[hand.ip], bump}
    BY DEF Greatest
  <2> HIDE DEF Scores
  <2>6. score[hand.ip] \in Scores
    BY <1>1, <2>2
  <2>7. score' \in [Ips -> Scores]
    BY <1>1, <2>2, <2>3, <2>4, <2>5, <2>6
  <2>8. NotInserted
    BY <1>4 DEF NotInserted, InHand
  <2> QED
    BY <2>7, <2>8, InsertedFacts DEF Scores
<1> QED
  BY <1>2, <1>3, <1>4 DEF Effect

\* Whatever is marked and whatever is written, a mark has its row or its excuse.
LEMMA FiledKept ==
    ASSUME DetectInv, Reporting, Filing
    PROVE  /\ FiledInv'
           /\ \A key \in Keys : filed'[key] <= Span(key[1])
<1> SUFFICES ASSUME NEW key \in Keys
             PROVE  /\ InHand(key)' \/ filed'[key] <= reported'[key] \/ key \in spoiled'
                    /\ filed'[key] <= Span(key[1])
  BY DEF FiledInv
<1>1. /\ filed[key] \in Nat /\ filed'[key] \in Nat /\ filed[key] <= Span(key[1])
      /\ reported[key] \in Nat /\ Span(key[1]) \in Nat
  BY AgedFacts, Bounds DEF DetectInv, TypeInv, DetectTypeOK, Aged, Filing, Greatest
<1>2. filed'[key] <= filed[key]
  BY DEF Filing
<1>3. InHand(key) \/ filed[key] <= reported[key] \/ key \in spoiled
  BY DEF DetectInv, FiledInv
<1>4. \/ filed'[key] = 0
      \/ key \in spoiled'
      \/ ~ InHand(key) /\ key \notin spoiled
  BY DEF Filing
<1>5. reported'[key] = reported[key] \/ InHand(key)'
  BY DEF Reporting
<1> QED
  BY <1>1, <1>2, <1>3, <1>4, <1>5

\* The finding in hand is done with.
LEMMA TurnOverFacts ==
    ASSUME TypeInv, hand # Idle, TurnOver
    PROVE  /\ Reporting /\ HandOK(hand')
           /\ \A ip \in Ips : reported'[<<"scan", ip>>] = reported[<<"scan", ip>>]
           /\ hand.tag = "scan" /\ hand.event.kind = "command" =>
                  reported'[<<"exec", hand.ip>>] < BfWindow
           /\ \A key \in Keys : InHand(key)' => reported[key] >= Span(key[1])
<1>1. hand.ip \in Ips /\ hand.event \in Events
  BY DEF TypeInv, DetectTypeOK
<1>2. \A ip \in Ips : <<"scan", ip>> \in Keys
  BY DEF Keys, Tags
<1>3. CASE hand.tag = "scan"
  <2>1. AttackTurn(hand.ip, hand.event, window[hand.ip], reported)
    BY <1>3 DEF TurnOver
  <2>2. AttackDone(hand.ip, hand.event)
    BY <1>1, <2>1, AttackFacts
  <2> QED
    BY <1>2, <2>2 DEF AttackDone, Reporting
<1>4. CASE hand.tag # "scan"
  <2>1. hand' = Idle /\ reported' = reported /\ told' = told
    BY <1>4 DEF TurnOver
  <2>2. told = reported /\ reported \in [Keys -> Aged]
    BY TypeParts DEF TypeInv
  <2>3. HandOK(Idle) /\ Idle.step # "insert"
    BY DEF HandOK, Idle
  <2> QED
    BY <1>4, <2>1, <2>2, <2>3 DEF Reporting, InHand
<1> QED
  BY <1>3, <1>4

-----------------------------------------------------------------------------
(* One step *)

\* A finding that is dealt with costs no other report.
LEMMA TurnOverStep ==
    ASSUME DetectInv, hand # Idle, TurnOver, UNCHANGED <<window, heard>>,
           Filing, faults' \in 0 .. MaxFaults,
           score' \in [Ips -> {0} \union UNION {Bumps[tag] : tag \in DOMAIN Bumps}]
    PROVE  DetectInv'
<1>1. /\ Reporting /\ HandOK(hand')
      /\ \A ip \in Ips : reported'[<<"scan", ip>>] = reported[<<"scan", ip>>]
      /\ hand.tag = "scan" /\ hand.event.kind = "command" =>
             reported'[<<"exec", hand.ip>>] < BfWindow
  BY TurnOverFacts DEF DetectInv
<1>6. FiledInv' /\ \A key \in Keys : filed'[key] <= Span(key[1])
  BY <1>1, FiledKept
<1>2. TypeInv'
  <2>1. Tracked' = Tracked
    BY DEF Tracked
  <2>2. \A key \in Keys : reported'[key] <= Never(key[1])
    BY <1>1, ReportedKept DEF DetectInv
  <2> QED
    BY <1>1, <1>6, <2>1, <2>2, TypeParts
       DEF DetectInv, TypeInv, Reporting, Filing, DetectTypeOK, HandOK, Aged
<1>3. WindowsOK'
  BY DEF DetectInv, WindowsOK
<1>4. FanOutInv'
  BY <1>1 DEF DetectInv, FanOutInv, Scanning, ScanningWithin
<1>5. CommandInv'
  <2> SUFFICES ASSUME NEW ip \in Ips, heard[ip]["command"] = 0
               PROVE  reported'[<<"exec", ip>>] < BfWindow
    BY DEF CommandInv
  <2>1. <<"exec", ip>> \in Keys /\ BfWindow \in Nat
    BY Bounds DEF Keys, Tags
  <2>2. \/ reported[<<"exec", ip>>] < BfWindow
        \/ hand.tag = "scan" /\ hand.ip = ip /\ hand.event.kind = "command"
    BY DEF DetectInv, CommandInv
  <2> QED
    BY <1>1, <2>1, <2>2, ReportedKept DEF DetectInv
<1> QED
  BY <1>2, <1>3, <1>4, <1>5, <1>6 DEF DetectInv

LEMMA InsertStep ==
    ASSUME DetectInv, InsertFinding
    PROVE  DetectInv'
<1>1. hand.step = "insert" /\ hand' = [hand EXCEPT !.step = "score"] /\ Inserted
      /\ UNCHANGED <<window, reported, score, heard, told, faults>>
  BY DEF InsertFinding, history
<1>2. hand \in [ip : Ips, event : Events, tag : Tags \union {"exploit"},
                step : {"insert", "score"}]
  BY <1>1 DEF DetectInv, TypeInv, DetectTypeOK, Idle
<1>3. HandOK(hand') /\ hand'.tag = hand.tag /\ hand'.ip = hand.ip /\ hand'.event = hand.event
  BY <1>1, <1>2 DEF HandOK
<1>4. Filing
  BY <1>1, InsertedFacts DEF DetectInv
<1>5. Tracked' = Tracked
  BY <1>1 DEF Tracked
<1>9. Reporting
  BY <1>1 DEF Reporting, DetectInv, TypeInv, DetectTypeOK, Aged
<1>10. FiledInv' /\ \A key \in Keys : filed'[key] <= Span(key[1])
  BY <1>4, <1>9, FiledKept
<1>6. TypeInv'
  BY <1>1, <1>3, <1>4, <1>5, <1>10, TypeParts
     DEF DetectInv, TypeInv, DetectTypeOK, HandOK, Aged, Filing
<1>7. WindowsOK' /\ FanOutInv'
  BY <1>1 DEF DetectInv, WindowsOK, FanOutInv, Scanning, ScanningWithin
<1>8. CommandInv'
  BY <1>1, <1>3 DEF DetectInv, CommandInv
<1> QED
  BY <1>6, <1>7, <1>8, <1>10 DEF DetectInv

LEMMA FindingStep ==
    ASSUME DetectInv, ScoreFinding \/ FindingFails
    PROVE  DetectInv'
<1>1. hand # Idle /\ TurnOver /\ UNCHANGED <<window, heard>>
  BY DEF ScoreFinding, FindingFails, Onward, Idle
<1>2. hand.ip \in Ips /\ MaxFaults \in Nat
  BY <1>1, Bounds DEF DetectInv, TypeInv, DetectTypeOK
<1>3. Effect
  BY DEF ScoreFinding, FindingFails, Effect
<1>4. faults' \in 0 .. MaxFaults
  BY <1>2 DEF ScoreFinding, FindingFails, Fault, DetectInv, TypeInv, DetectTypeOK
<1> QED
  BY <1>1, <1>2, <1>3, <1>4, EffectFacts, TurnOverStep DEF DetectInv

LEMMA ReceiveStep ==
    ASSUME DetectInv, NEW ip \in Ips, NEW e \in Sends[ip], Receive(ip, e)
    PROVE  DetectInv'
<1> DEFINE w == Appended(window[ip], e)
           now == Signal(Overflown(heard[ip], window[ip]), e)
<1>1. e \in Events
  BY DetectAssumption
<1>2. PICK gone \in Evictions(ip) :
          /\ window' = [i \in Ips |-> IF i = ip THEN w ELSE IF i \in gone THEN <<>> ELSE window[i]]
          /\ heard' = [i \in Ips |-> IF i = ip THEN now
                                     ELSE IF i \in gone THEN Unheard ELSE heard[i]]
          /\ ScanTurn(ip, e, w)
  BY DEF Receive
<1>3. hand = Idle /\ UNCHANGED <<score, filed, spoiled, faults>> /\ Idle.tag = "none"
  BY DEF Receive, Idle, tables
<1>4. /\ window \in [Ips -> Seq(Entries)] /\ \A i \in Ips : Len(window[i]) <= MaxEvents
      /\ heard \in [Ips -> [Signals -> 0 .. TooOld]]
      /\ \A i \in Ips : Sorted(window[i]) /\ Linked(window[i], heard[i])
  BY DEF DetectInv, TypeInv, DetectTypeOK, WindowsOK
<1>5. ScanDone(ip, e, w)
  BY <1>1, <1>2, ScanFacts DEF DetectInv
<1>6. Reporting /\ HandOK(hand')
  BY <1>5 DEF ScanDone, Reporting
<1>17. FiledInv' /\ (\A key \in Keys : filed'[key] <= Span(key[1])) /\ Filing
  <2>1. NotInserted
    BY <1>3 DEF NotInserted, InHand, Idle
  <2> QED
    BY <1>6, <2>1, InsertedFacts, FiledKept DEF DetectInv
<1>7. \A key \in Keys : /\ reported'[key] <= Never(key[1])
                        /\ \A n \in Nat : reported[key] < n => reported'[key] < n
  BY <1>6, ReportedKept DEF DetectInv
<1>8. w \in Seq(Entries) /\ Len(w) <= MaxEvents /\ Sorted(w) /\ Linked(w, now)
  BY <1>1, <1>4, AppendedFacts, AppendedKeeps
<1>9. /\ now \in [Signals -> 0 .. TooOld]
      /\ e.kind # "command" => now["command"] = heard[ip]["command"]
  <2>1. heard[ip] \in [Signals -> 0 .. TooOld]
    BY <1>4
  <2> QED
    BY <1>1, <2>1, SignalFacts
<1>10. /\ Unheard \in [Signals -> 0 .. TooOld] /\ "command" \in Signals
       /\ \A s \in Signals : Unheard[s] = TooOld
       /\ TooOld \in Nat /\ TooOld > Keep /\ TooOld # 0
       /\ TooOld > Least(ScanWindow, Keep) /\ Least(ScanWindow, Keep) \in Nat
       /\ BfWindow \in Nat /\ ScanWindow \in Nat
       /\ \A p \in Ports : p \in Signals
  BY Bounds DEF Unheard, Signals
<1>11. <<>> \in Seq(Entries) /\ Len(<<>>) = 0 /\ Sorted(<<>>) /\ Linked(<<>>, Unheard)
  BY <1>10, Bounds DEF Sorted, Linked
<1> HIDE DEF w, now
<1>12. \A i \in Ips :
          /\ i = ip => window'[i] = w /\ heard'[i] = now
          /\ i # ip => \/ window'[i] = <<>> /\ heard'[i] = Unheard
                       \/ window'[i] = window[i] /\ heard'[i] = heard[i]
  BY <1>2
<1>13. TypeInv'
  <2>1. window' \in [Ips -> Seq(Entries)]
    BY <1>2, <1>4, <1>8, <1>11
  <2>2. \A i \in Ips : /\ Len(window'[i]) <= MaxEvents
                       /\ \A k \in 1 .. Len(window'[i]) : window'[i][k] \in Entries
    <3> SUFFICES ASSUME NEW i \in Ips
                 PROVE  /\ Len(window'[i]) <= MaxEvents
                        /\ \A k \in 1 .. Len(window'[i]) : window'[i][k] \in Entries
      OBVIOUS
    <3>1. window'[i] \in Seq(Entries)
      BY <2>1
    <3>2. Len(window'[i]) <= MaxEvents
      BY <1>4, <1>8, <1>11, <1>12, Bounds
    <3> QED
      BY <3>1, <3>2
  <2>3. IsFiniteSet(Tracked') /\ Cardinality(Tracked') <= MaxIps
    <3>1. \A i \in Ips \ {ip} : window'[i] = IF i \in gone THEN <<>> ELSE window[i]
      BY <1>2
    <3> QED
      BY <3>1, CapKept DEF DetectInv, TypeInv, DetectTypeOK
  <2>4. heard' \in [Ips -> [Signals -> 0 .. TooOld]]
    BY <1>2, <1>4, <1>9, <1>10
  <2>5. /\ score' \in [Ips -> {0} \union UNION {Bumps[tag] : tag \in DOMAIN Bumps}]
        /\ faults' \in 0 .. MaxFaults
    BY <1>3, TypeParts DEF DetectInv, TypeInv
  <2> QED
    BY <1>6, <1>7, <1>17, <2>1, <2>2, <2>3, <2>4, <2>5
       DEF TypeInv, DetectTypeOK, HandOK, Aged, Reporting, Filing
<1>14. WindowsOK'
  <2> SUFFICES ASSUME NEW i \in Ips
               PROVE  Sorted(window'[i]) /\ Linked(window'[i], heard'[i])
    BY DEF WindowsOK
  <2> QED
    BY <1>4, <1>8, <1>11, <1>12
<1>15. FanOutInv'
  <2> SUFFICES ASSUME NEW i \in Ips, Scanning(i)' PROVE reported'[<<"scan", i>>] < ScanWindow
    BY DEF FanOutInv
  <2>1. /\ \E p \in Ports : heard'[i][p] <= Least(ScanWindow, Keep) /\ heard'[i][p] = 0
        /\ Cardinality({p \in Ports : heard'[i][p] <= Least(ScanWindow, Keep)}) >= ScanThreshold
    BY DEF Scanning, ScanningWithin
  <2>2. CASE i = ip
    <3>1. FansOut(w)
      BY <1>8, <1>9, <1>12, <2>1, <2>2, ScanSeen
    <3> QED
      BY <1>5, <2>2, <3>1 DEF ScanDone, w
  <2>3. CASE i # ip
    <3>1. heard'[i] # Unheard
      BY <1>10, <2>1
    <3>2. heard'[i] = heard[i]
      BY <1>12, <2>3, <3>1
    <3>3. reported[<<"scan", i>>] < ScanWindow
      BY <2>1, <3>2 DEF DetectInv, FanOutInv, Scanning, ScanningWithin
    <3>4. <<"scan", i>> \in Keys
      BY DEF Keys, Tags
    <3> QED
      BY <1>7, <1>10, <3>3, <3>4
  <2> QED
    BY <2>2, <2>3
<1>16. CommandInv'
  <2> SUFFICES ASSUME NEW i \in Ips, heard'[i]["command"] = 0
               PROVE  \/ reported'[<<"exec", i>>] < BfWindow
                      \/ hand'.tag = "scan" /\ hand'.ip = i /\ hand'.event.kind = "command"
    BY DEF CommandInv
  <2>1. CASE i = ip /\ e.kind = "command"
    BY <1>5, <2>1 DEF ScanDone
  <2>2. CASE ~ (i = ip /\ e.kind = "command")
    <3>1. heard[i]["command"] = 0
      BY <1>9, <1>10, <1>12, <2>2
    <3>2. reported[<<"exec", i>>] < BfWindow
      BY <1>3, <3>1 DEF DetectInv, CommandInv
    <3>3. <<"exec", i>> \in Keys
      BY DEF Keys, Tags
    <3> QED
      BY <1>7, <1>10, <3>2, <3>3
  <2> QED
    BY <2>1, <2>2
<1> QED
  BY <1>13, <1>14, <1>15, <1>16, <1>17 DEF DetectInv

\* What prune takes has the age of never: it takes nothing that counts.
LEMMA PruneKeeps ==
    ASSUME TypeInv
    PROVE  [key \in Keys |-> IF Pruned(key) THEN Never(key[1]) ELSE reported[key]] = reported
<1>1. reported \in [Keys -> Aged]
  BY TypeParts DEF TypeInv
<1>2. \A key \in Keys : Pruned(key) => reported[key] = Never(key[1])
  <2> SUFFICES ASSUME NEW key \in Keys, Pruned(key) PROVE reported[key] = Never(key[1])
    OBVIOUS
  <2>1. reported[key] \in Nat /\ reported[key] <= Never(key[1])
    BY <1>1, AgedFacts DEF TypeInv
  <2>2. Span(key[1]) \in Nat /\ Never(key[1]) = 2 * Span(key[1]) + 1
    BY Bounds
  <2>3. reported[key] > 2 * Span(key[1])
    BY DEF Pruned
  <2> QED
    BY <2>1, <2>2, <2>3
<1> QED
  BY <1>1, <1>2

LEMMA GcStep ==
    ASSUME DetectInv, GcState
    PROVE  DetectInv'
<1>1. /\ window' = [ip \in Ips |-> IF Stale(window[ip]) THEN <<>> ELSE window[ip]]
      /\ UNCHANGED <<reported, hand, score, filed, spoiled, heard, told, faults>>
  BY PruneKeeps DEF GcState, tables, history, DetectInv
<1>2. /\ window \in [Ips -> Seq(Entries)] /\ \A ip \in Ips : Len(window[ip]) <= MaxEvents
      /\ heard \in [Ips -> [Signals -> 0 .. TooOld]]
      /\ \A ip \in Ips : Sorted(window[ip]) /\ Linked(window[ip], heard[ip])
  BY DEF DetectInv, TypeInv, DetectTypeOK, WindowsOK
<1>3. <<>> \in Seq(Entries) /\ Len(<<>>) = 0 /\ Sorted(<<>>)
  BY DEF Sorted
<1>4. \A ip \in Ips : \/ window'[ip] = window[ip]
                      \/ window'[ip] = <<>> /\ Stale(window[ip])
  BY <1>1
<1>5. window' \in [Ips -> Seq(Entries)]
  BY <1>1, <1>2, <1>3
<1>6. \A ip \in Ips : /\ Len(window'[ip]) <= MaxEvents
                      /\ \A k \in 1 .. Len(window'[ip]) : window'[ip][k] \in Entries
  <2> SUFFICES ASSUME NEW ip \in Ips
               PROVE  /\ Len(window'[ip]) <= MaxEvents
                      /\ \A k \in 1 .. Len(window'[ip]) : window'[ip][k] \in Entries
    OBVIOUS
  <2>1. window'[ip] \in Seq(Entries)
    BY <1>5
  <2>2. Len(window'[ip]) <= MaxEvents
    BY <1>2, <1>3, <1>4, Bounds
  <2> QED
    BY <2>1, <2>2
<1>7. IsFiniteSet(Tracked') /\ Cardinality(Tracked') <= MaxIps
  <2>1. Tracked' \subseteq Tracked
    BY <1>4 DEF Tracked
  <2> QED
    BY <2>1, CapShrinks DEF DetectInv, TypeInv, DetectTypeOK
<1>8. TypeInv'
  BY <1>1, <1>5, <1>6, <1>7 DEF DetectInv, TypeInv, DetectTypeOK
<1>9. WindowsOK'
  <2> SUFFICES ASSUME NEW ip \in Ips
               PROVE  Sorted(window'[ip]) /\ Linked(window'[ip], heard[ip])
    BY <1>1 DEF WindowsOK
  <2>1. window[ip] \in Seq(Entries) /\ heard[ip] \in [Signals -> 0 .. TooOld]
    BY <1>2
  <2> QED
    BY <1>2, <1>3, <1>4, <2>1, StaleForgets
<1>10. FanOutInv' /\ CommandInv' /\ FiledInv'
  BY <1>1 DEF DetectInv, FanOutInv, Scanning, ScanningWithin, CommandInv, FiledInv, InHand
<1> QED
  BY <1>8, <1>9, <1>10 DEF DetectInv

LEMMA TickStep ==
    ASSUME DetectInv, Tick
    PROVE  DetectInv'
<1>1. /\ window' = [ip \in Ips |-> Older(window[ip])]
      /\ reported' = [key \in Keys |-> Least(reported[key] + 1, Never(key[1]))]
      /\ told' = [key \in Keys |-> Least(told[key] + 1, Never(key[1]))]
      /\ heard' = [ip \in Ips |-> [s \in Signals |-> Least(heard[ip][s] + 1, TooOld)]]
      /\ filed' = [key \in Keys |-> Least(filed[key] + 1, Span(key[1]))]
      /\ UNCHANGED <<hand, score, spoiled, faults>>
  BY DEF Tick, Older
<1>2. /\ window \in [Ips -> Seq(Entries)] /\ \A ip \in Ips : Len(window[ip]) <= MaxEvents
      /\ heard \in [Ips -> [Signals -> 0 .. TooOld]]
      /\ \A ip \in Ips : Sorted(window[ip]) /\ Linked(window[ip], heard[ip])
      /\ reported \in [Keys -> Aged] /\ told = reported
  BY TypeParts DEF DetectInv, TypeInv, WindowsOK
<1>3. window' \in [Ips -> Seq(Entries)]
  BY <1>1, <1>2, OlderFacts
<1>4. \A ip \in Ips : /\ window'[ip] \in Seq(Entries) /\ Len(window'[ip]) = Len(window[ip])
                      /\ window'[ip] # <<>> => window[ip] # <<>>
  BY <1>1, <1>2, OlderFacts
<1>5. \A ip \in Ips : /\ Len(window'[ip]) <= MaxEvents
                      /\ \A k \in 1 .. Len(window'[ip]) : window'[ip][k] \in Entries
  BY <1>2, <1>4
<1>6. IsFiniteSet(Tracked') /\ Cardinality(Tracked') <= MaxIps
  <2>1. Tracked' \subseteq Tracked
    BY <1>4 DEF Tracked
  <2> QED
    BY <2>1, CapShrinks DEF DetectInv, TypeInv, DetectTypeOK
<1>7. /\ reported' \in [Keys -> Aged] /\ told' = reported'
      /\ \A key \in Keys : reported'[key] <= Never(key[1])
  <2>1. ASSUME NEW key \in Keys
        PROVE  /\ Least(reported[key] + 1, Never(key[1])) \in Aged
               /\ Least(reported[key] + 1, Never(key[1])) <= Never(key[1])
    <3>1. reported[key] \in Nat /\ Never(key[1]) \in Nat /\ key[1] \in Tags
      BY <1>2, AgedFacts, Bounds DEF Keys
    <3>2. /\ Least(reported[key] + 1, Never(key[1])) \in Nat
          /\ Least(reported[key] + 1, Never(key[1])) <= Never(key[1])
      BY <3>1 DEF Least
    <3> QED
      BY <3>1, <3>2, AgedFacts
  <2> QED
    BY <1>1, <1>2, <2>1
<1>8. \A ip \in Ips : \A s \in Signals :
          /\ heard'[ip][s] = Least(heard[ip][s] + 1, TooOld)
          /\ heard'[ip][s] \in 0 .. TooOld /\ heard'[ip][s] # 0
  <2> SUFFICES ASSUME NEW ip \in Ips, NEW s \in Signals
               PROVE  /\ Least(heard[ip][s] + 1, TooOld) \in 0 .. TooOld
                      /\ Least(heard[ip][s] + 1, TooOld) # 0
    BY <1>1
  <2>1. heard[ip][s] \in Nat /\ TooOld \in Nat /\ TooOld > 0
    BY <1>2, Bounds
  <2> QED
    BY <2>1 DEF Least
<1>9. heard' \in [Ips -> [Signals -> 0 .. TooOld]]
  BY <1>1, <1>8
<1>14. \A key \in Keys :
          /\ filed[key] \in Nat /\ reported[key] \in Nat
          /\ Span(key[1]) \in Nat /\ Never(key[1]) > Span(key[1])
          /\ Span(key[1]) <= Greatest(ScanWindow, BfWindow)
  BY <1>2, AgedFacts, Bounds DEF DetectInv, TypeInv, DetectTypeOK, Greatest, Span
<1>15. /\ filed' \in [Keys -> 0 .. Greatest(ScanWindow, BfWindow)]
       /\ \A key \in Keys : filed'[key] <= Span(key[1])
  <2>1. ASSUME NEW key \in Keys
        PROVE  /\ Least(filed[key] + 1, Span(key[1])) \in 0 .. Greatest(ScanWindow, BfWindow)
               /\ Least(filed[key] + 1, Span(key[1])) <= Span(key[1])
    <3>1. /\ filed[key] \in Nat /\ Span(key[1]) \in Nat
          /\ Span(key[1]) <= Greatest(ScanWindow, BfWindow)
          /\ Greatest(ScanWindow, BfWindow) \in Nat
      BY <1>14, Bounds DEF Greatest
    <3> QED
      BY <3>1 DEF Least
  <2> QED
    BY <1>1, <2>1
<1>16. FiledInv'
  <2> SUFFICES ASSUME NEW key \in Keys
               PROVE  InHand(key)' \/ filed'[key] <= reported'[key] \/ key \in spoiled'
    BY DEF FiledInv
  <2>1. InHand(key) \/ filed[key] <= reported[key] \/ key \in spoiled
    BY DEF DetectInv, FiledInv
  <2>2. filed[key] <= reported[key] => filed'[key] <= reported'[key]
    <3>1. /\ filed'[key] = Least(filed[key] + 1, Span(key[1]))
          /\ reported'[key] = Least(reported[key] + 1, Never(key[1]))
          /\ Never(key[1]) \in Nat
      BY <1>1, Bounds
    <3> QED
      BY <1>14, <3>1 DEF Least
  <2> QED
    BY <1>1, <2>1, <2>2 DEF InHand
<1>10. TypeInv'
  <2>1. spoiled' \subseteq Keys
    BY <1>1 DEF DetectInv, TypeInv, DetectTypeOK
  <2> QED
    BY <1>1, <1>3, <1>5, <1>6, <1>7, <1>9, <1>15, <2>1
       DEF DetectInv, TypeInv, DetectTypeOK, Aged
<1>11. WindowsOK'
  <2> SUFFICES ASSUME NEW ip \in Ips
               PROVE  Sorted(Older(window[ip])) /\ Linked(Older(window[ip]), heard'[ip])
    BY <1>1 DEF WindowsOK
  <2>1. window[ip] \in Seq(Entries) /\ heard[ip] \in [Signals -> 0 .. TooOld]
    BY <1>2
  <2> QED
    BY <1>2, <1>8, <2>1, OlderKeeps
<1>12. FanOutInv'
  BY <1>8 DEF FanOutInv, Scanning, ScanningWithin, Signals
<1>13. CommandInv'
  BY <1>8 DEF CommandInv, Signals
<1> QED
  BY <1>10, <1>11, <1>12, <1>13, <1>16 DEF DetectInv

\* The memory of an engine that just started.
LEMMA StartFacts ==
    /\ [ip \in Ips |-> <<>>] \in [Ips -> Seq(Entries)]
    /\ Unreported \in [Keys -> Aged]
    /\ \A key \in Keys : Unreported[key] <= Never(key[1]) /\ Span(key[1]) <= Unreported[key]
    /\ Unheard \in [Signals -> 0 .. TooOld]
    /\ \A s \in Signals : Unheard[s] > Keep /\ Unheard[s] # 0 /\ Unheard[s] \in Nat
    /\ Sorted(<<>>) /\ Linked(<<>>, Unheard)
    /\ HandOK(Idle)
    /\ Keep \in Nat
<1>1. TooOld \in Nat /\ TooOld > Keep /\ Keep \in Nat
  BY Bounds
<1>2. \A p \in Ports : p \in Signals
  BY DEF Signals
<1>3. \A s \in Signals : Unheard[s] = TooOld
  BY DEF Unheard
<1>4. Unheard \in [Signals -> 0 .. TooOld]
  BY <1>1 DEF Unheard
<1>5. Sorted(<<>>) /\ Linked(<<>>, Unheard)
  BY <1>1, <1>2, <1>3 DEF Sorted, Linked
<1>6. \A key \in Keys : Never(key[1]) \in Aged /\ Never(key[1]) <= Never(key[1])
  BY AgedFacts, Bounds DEF Keys
<1>7. /\ Unreported \in [Keys -> Aged]
      /\ \A key \in Keys : Unreported[key] <= Never(key[1]) /\ Span(key[1]) <= Unreported[key]
  BY <1>6, Bounds DEF Unreported
<1> QED
  BY <1>1, <1>3, <1>4, <1>5, <1>7 DEF HandOK

LEMMA DetectStart ==
    ASSUME window = [ip \in Ips |-> <<>>], reported = Unreported, hand = Idle,
           heard = [ip \in Ips |-> Unheard], told = Unreported,
           score \in [Ips -> {0} \union UNION {Bumps[tag] : tag \in DOMAIN Bumps}],
           filed \in [Keys -> 0 .. Greatest(ScanWindow, BfWindow)], spoiled \subseteq Keys,
           \A key \in Keys : filed[key] <= Span(key[1]),
           faults \in 0 .. MaxFaults
    PROVE  DetectInv
<1>1. Tracked = {}
  BY DEF Tracked
<1>2. IsFiniteSet(Tracked) /\ Cardinality(Tracked) <= MaxIps
  BY <1>1, FS_EmptySet, Bounds
<1>3. \A ip \in Ips : window[ip] = <<>> /\ Len(window[ip]) = 0 /\ heard[ip] = Unheard
  OBVIOUS
<1>4. \A ip \in Ips : /\ Len(window[ip]) <= MaxEvents
                      /\ \A k \in 1 .. Len(window[ip]) : window[ip][k] \in Entries
  BY <1>3, Bounds
<1>5. TypeInv
  BY <1>2, <1>4, StartFacts, TypeParts DEF TypeInv
<1>6. WindowsOK
  BY <1>3, StartFacts DEF WindowsOK
<1>7. FanOutInv
  BY <1>3, StartFacts DEF FanOutInv, Scanning, ScanningWithin, Signals
<1>8. CommandInv
  BY <1>3, StartFacts DEF CommandInv, Signals
<1>9. FiledInv
  <2> SUFFICES ASSUME NEW key \in Keys PROVE filed[key] <= reported[key]
    BY DEF FiledInv
  <2>1. filed[key] \in Nat /\ Span(key[1]) \in Nat /\ filed[key] <= Span(key[1])
    BY Bounds DEF Greatest
  <2>2. Unreported \in [Keys -> Aged] /\ Span(key[1]) <= Unreported[key]
    BY StartFacts
  <2>3. reported[key] \in Nat /\ Span(key[1]) <= reported[key]
    BY <2>2, AgedFacts
  <2> QED
    BY <2>1, <2>3
<1> QED
  BY <1>5, <1>6, <1>7, <1>8, <1>9 DEF DetectInv

LEMMA RestartStep ==
    ASSUME DetectInv, Restart
    PROVE  DetectInv'
<1>1. /\ window' = [ip \in Ips |-> <<>>] /\ reported' = Unreported /\ hand' = Idle
      /\ heard' = [ip \in Ips |-> Unheard] /\ told' = Unreported
      /\ Effect
  BY DEF Restart
<1>2. hand = Idle \/ hand.ip \in Ips
  BY DEF DetectInv, TypeInv, DetectTypeOK
<1>3. /\ Filing
      /\ score' \in [Ips -> {0} \union UNION {Bumps[tag] : tag \in DOMAIN Bumps}]
  BY <1>1, <1>2, EffectFacts DEF DetectInv
<1>4. faults' \in 0 .. MaxFaults
  BY Bounds DEF Restart, Fault, DetectInv, TypeInv, DetectTypeOK
<1>5. Tracked' = {}
  BY <1>1 DEF Tracked
<1>6. IsFiniteSet(Tracked') /\ Cardinality(Tracked') <= MaxIps
  BY <1>5, FS_EmptySet, Bounds
<1>7. \A ip \in Ips : window'[ip] = <<>> /\ Len(window'[ip]) = 0 /\ heard'[ip] = Unheard
  BY <1>1
<1>8. \A ip \in Ips : /\ Len(window'[ip]) <= MaxEvents
                      /\ \A k \in 1 .. Len(window'[ip]) : window'[ip][k] \in Entries
  BY <1>7, Bounds
<1>13. \A key \in Keys : filed'[key] <= Span(key[1]) /\ filed'[key] <= reported'[key]
  <2> SUFFICES ASSUME NEW key \in Keys
               PROVE  filed'[key] <= Span(key[1]) /\ filed'[key] <= reported'[key]
    OBVIOUS
  <2>1. /\ filed[key] \in Nat /\ filed'[key] \in Nat /\ Span(key[1]) \in Nat
        /\ filed'[key] <= filed[key] /\ filed[key] <= Span(key[1])
    BY <1>3, Bounds DEF Filing, DetectInv, TypeInv, DetectTypeOK, Greatest
  <2>2. reported'[key] \in Nat /\ Span(key[1]) <= reported'[key]
    BY <1>1, StartFacts, AgedFacts
  <2> QED
    BY <2>1, <2>2
<1>9. TypeInv'
  BY <1>1, <1>3, <1>4, <1>6, <1>8, <1>13, StartFacts
     DEF TypeInv, DetectTypeOK, HandOK, Aged, Filing
<1>10. WindowsOK'
  BY <1>7, StartFacts DEF WindowsOK
<1>11. FanOutInv'
  BY <1>7, StartFacts DEF FanOutInv, Scanning, ScanningWithin, Signals
<1>12. CommandInv'
  BY <1>7, StartFacts DEF CommandInv, Signals
<1> QED
  BY <1>9, <1>10, <1>11, <1>12, <1>13 DEF DetectInv, FiledInv

LEMMA DetectInitial == DetectInit => DetectInv
<1> SUFFICES ASSUME DetectInit PROVE DetectInv
  OBVIOUS
<1>1. /\ [ip \in Ips |-> 0] \in [Ips -> {0} \union UNION {Bumps[tag] : tag \in DOMAIN Bumps}]
      /\ 0 \in 0 .. MaxFaults
  BY Bounds
<1>2. /\ [key \in Keys |-> Span(key[1])] \in [Keys -> 0 .. Greatest(ScanWindow, BfWindow)]
      /\ \A key \in Keys : Span(key[1]) <= Span(key[1])
  BY Bounds DEF Greatest, Span
<1> QED
  BY <1>1, <1>2, DetectStart DEF DetectInit

LEMMA DetectStep == DetectInv /\ [DetectNext]_detectVars => DetectInv'
<1> SUFFICES ASSUME DetectInv, [DetectNext]_detectVars PROVE DetectInv'
  OBVIOUS
<1>1. CASE \E ip \in Ips : \E e \in Sends[ip] : Receive(ip, e)
  BY <1>1, ReceiveStep
<1>2. CASE InsertFinding
  BY <1>2, InsertStep
<1>3. CASE ScoreFinding \/ FindingFails
  BY <1>3, FindingStep
<1>4. CASE GcState
  BY <1>4, GcStep
<1>5. CASE Tick
  BY <1>5, TickStep
<1>6. CASE Restart
  BY <1>6, RestartStep
<1>7. CASE UNCHANGED detectVars
  BY <1>7 DEF detectVars, memory, tables, history, DetectInv, TypeInv, DetectTypeOK, Tracked,
              WindowsOK, FanOutInv, Scanning, ScanningWithin, CommandInv, FiledInv, InHand
<1> QED
  BY <1>1, <1>2, <1>3, <1>4, <1>5, <1>6, <1>7 DEF DetectNext, PersistFinding

-----------------------------------------------------------------------------
(* Theorems *)

LEMMA DetectInvariant == DetectSpec => []DetectInv
<1>1. DetectInit => DetectInv
  BY DetectInitial
<1>2. DetectInv /\ [DetectNext]_detectVars => DetectInv'
  BY DetectStep
<1> QED
  BY <1>1, <1>2, PTL DEF DetectSpec

\* Every variable of the engine's correlation stays in its range: no window holds more
\* than WINDOW_MAX_EVENTS events, and no more than WINDOW_MAX_IPS addresses have one
\* (handle_event and _evict_windows in engine.py).
THEOREM DetectTypeCorrect == DetectSpec => []DetectTypeOK
<1>1. DetectInv => DetectTypeOK
  BY DEF DetectInv, TypeInv
<1> QED
  BY <1>1, DetectInvariant, PTL

\* A mark whose row is not being written has its row, or failed to get it.
LEMMA MarkFiled ==
    ASSUME DetectInv, NEW key \in Keys, ~ InHand(key), reported[key] < Span(key[1])
    PROVE  Filed(key)
<1>1. filed[key] \in Nat /\ reported[key] \in Nat /\ Span(key[1]) \in Nat
  BY AgedFacts, Bounds DEF DetectInv, TypeInv, DetectTypeOK, Aged, Greatest
<1>2. filed[key] <= reported[key] \/ key \in spoiled
  BY DEF DetectInv, FiledInv
<1> QED
  BY <1>1, <1>2 DEF Filed

\* However many ports an address tries and whatever the caps, trimming, gc_state and
\* prune take away meanwhile, once its events of the last WINDOW_KEEP_S reach the
\* threshold, scan_events gets a row of the window about it or has one, unless the row
\* of that window failed (on_event of the scan detector and persist_finding).
THEOREM ScansAreSeen == DetectSpec => []FanOutSeen
<1>1. DetectInv => FanOutSeen
  <2> SUFFICES ASSUME DetectInv, NEW ip \in Ips, Scanning(ip), ~ InHand(<<"scan", ip>>)
               PROVE  Filed(<<"scan", ip>>)
    BY DEF FanOutSeen
  <2>1. <<"scan", ip>> \in Keys /\ <<"scan", ip>>[1] = "scan"
    BY DEF Keys, Tags
  <2>2. reported[<<"scan", ip>>] < Span("scan")
    BY DEF DetectInv, FanOutInv, Span
  <2> QED
    BY <2>1, <2>2, MarkFiled
<1> QED
  BY <1>1, DetectInvariant, PTL

\* When the event of a command is done with, attack_events has a row of the window about
\* it, even if the scan finding of the same event failed to be written: handle_event goes
\* on with the next detector.  Only a window whose own row failed is without one.
THEOREM CommandsAreSeen == DetectSpec => []CommandSeen
<1>1. DetectInv => CommandSeen
  <2> SUFFICES ASSUME DetectInv, NEW ip \in Ips, heard[ip]["command"] = 0, hand = Idle
               PROVE  Filed(<<"exec", ip>>)
    BY DEF CommandSeen
  <2>1. <<"exec", ip>> \in Keys /\ <<"exec", ip>>[1] = "exec" /\ "exec" # "scan"
    BY DEF Keys, Tags
  <2>2. reported[<<"exec", ip>>] < Span("exec")
    BY DEF DetectInv, CommandInv, Idle, Span
  <2>3. ~ InHand(<<"exec", ip>>)
    BY DEF InHand, Idle
  <2> QED
    BY <2>1, <2>2, <2>3, MarkFiled
<1> QED
  BY <1>1, DetectInvariant, PTL

LEMMA WindowStep ==
    ASSUME DetectInv, [DetectNext]_detectVars, NEW key \in Keys, hand # hand',
           InHand(key)'
    PROVE  told[key] >= Span(key[1])
<1>1. told = reported
  BY DEF DetectInv, TypeInv
<1>2. Idle.step = "idle"
  BY DEF Idle
<1>3. CASE \E ip \in Ips : \E e \in Sends[ip] : Receive(ip, e)
  <2>1. PICK ip \in Ips : \E e \in Sends[ip] : Receive(ip, e)
    BY <1>3
  <2>2. PICK e \in Sends[ip] : Receive(ip, e)
    BY <2>1
  <2>3. e \in Events
    BY DetectAssumption
  <2>4. ScanTurn(ip, e, Appended(window[ip], e))
    BY <2>2 DEF Receive
  <2>5. ScanDone(ip, e, Appended(window[ip], e))
    BY <2>3, <2>4, ScanFacts DEF DetectInv
  <2> QED
    BY <1>1, <2>5 DEF ScanDone
<1>4. CASE InsertFinding
  <2>1. hand \in [ip : Ips, event : Events, tag : Tags \union {"exploit"},
                  step : {"insert", "score"}]
    BY <1>2, <1>4 DEF InsertFinding, DetectInv, TypeInv, DetectTypeOK
  <2>2. hand'.step = "score"
    BY <1>4, <2>1 DEF InsertFinding
  <2> QED
    BY <2>2 DEF InHand
<1>5. CASE ScoreFinding \/ FindingFails
  <2>1. hand # Idle /\ TurnOver
    BY <1>5 DEF ScoreFinding, FindingFails, Onward, Idle
  <2> QED
    BY <1>1, <2>1, TurnOverFacts DEF DetectInv
<1>6. CASE GcState \/ Tick \/ UNCHANGED detectVars
  BY <1>6 DEF GcState, Tick, detectVars, memory
<1>7. CASE Restart
  BY <1>2, <1>7 DEF Restart, InHand
<1> QED
  BY <1>3, <1>4, <1>5, <1>6, <1>7 DEF DetectNext, PersistFinding

\* Between two findings of a kind about an address lies the whole window, unless the
\* engine was restarted (_dup and _reported of the two detectors, and their prune).
THEOREM OneFindingPerWindow == DetectSpec => OncePerWindow
<1> DEFINE Spaced == \A key \in Keys :
              hand # hand' /\ hand'.step = "insert" /\ <<hand'.tag, hand'.ip>> = key
                  => told[key] >= Span(key[1])
<1>1. DetectInv /\ [DetectNext]_detectVars => [Spaced]_detectVars
  BY WindowStep DEF InHand
<1> QED
  BY <1>1, DetectInvariant, PTL DEF DetectSpec, OncePerWindow
=============================================================================
