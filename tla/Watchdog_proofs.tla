--------------------------- MODULE Watchdog_proofs ---------------------------
(***************************************************************************)
(* Proofs about Watchdog, for any number of tails and consumers, any       *)
(* thresholds, timeouts and backoffs, and any queue.                       *)
(*                                                                         *)
(* The invariant adds to the age of a consumer's file how long the         *)
(* consumer will wait before it beats again: together no more than the     *)
(* calls of one attempt and one wait.  Only after a start that took long   *)
(* may that be more; then the consumer beats before the watchdog looks.    *)
(***************************************************************************)
EXTENDS Watchdog, TLAPS

-----------------------------------------------------------------------------

\* Nothing runs before the process is up.
Fresh == phase # "up" =>
             /\ poll = Poll
             /\ \A l \in Loops : /\ at[l] = Begin(l)
                                 /\ left[l] = IF l \in Tails THEN 0 ELSE IdleBeat

\* How many attempts a record has behind it, by what its consumer does.
TriesOK(c) ==
    /\ at[c] \in {"get", "try", "backoff", "hung"}
    /\ at[c] = "try" => tries[c] \in 1 .. MaxAttempts
    /\ at[c] = "backoff" => tries[c] \in 1 .. MaxAttempts - 1

\* How old its file is, and will be.
InTime(c) ==
    /\ at[c] = "try" => age[c] + left[c] <= calls[c]
    /\ at[c] = "backoff" => age[c] + left[c] <= calls[c] + BackoffMax(tries[c])
    /\ at[c] = "get" => age[c] + left[c] <= calls[c] + IdleBeat \/ left[c] < poll

LooksInTime(t) == at[t] = "look" => age[t] + left[t] <= 1

WatchInv ==
    /\ WatchTypeOK
    /\ age \in [Loops -> Nat]
    /\ Fresh
    /\ \A c \in Consumers : TriesOK(c) /\ InTime(c)
    /\ \A t \in Tails : LooksInTime(t)

\* The backoffs are whole ticks, up to the ceiling.
LEMMA DelayFacts ==
    ASSUME NEW n \in Nat \ {0}
    PROVE  /\ BackoffMax(n) \in Nat
           /\ \A d \in Delays(n) : d \in Nat /\ d <= BackoffMax(n)
<1> DEFINE m == IF n <= Len(Ceiling) THEN n ELSE Len(Ceiling)
<1>1. Ceiling \in Seq(Nat \ {0}) /\ Len(Ceiling) \in Nat \ {0}
  BY WatchAssumption
<1>2. m \in 1 .. Len(Ceiling)
  BY <1>1
<1>3. BackoffMax(n) = Ceiling[m]
  BY DEF BackoffMax
<1> HIDE DEF m
<1>4. BackoffMax(n) \in Nat
  BY <1>1, <1>2, <1>3
<1>5. (BackoffMax(n) + 1) \div 2 \in Nat
  BY <1>4
<1> QED
  BY <1>4, <1>5 DEF Delays

\* The constants are numbers.
LEMMA Numbers ==
    /\ QueueMax \in Nat \ {0} /\ MaxAttempts \in Nat \ {0} /\ TailStale \in Nat \ {0}
    /\ ConsumerStale \in Nat \ {0} /\ Poll \in Nat \ {0} /\ IdleBeat \in Nat \ {0}
    /\ CallsMax \in Nat \ {0}
    /\ IdleBeat < Poll
    /\ \A l \in Loops : Threshold(l) \in Nat \ {0}
    /\ \A c \in Consumers : c \notin Tails /\ Threshold(c) = ConsumerStale /\ c \in Loops
    /\ \A t \in Tails : t \notin Consumers /\ Threshold(t) = TailStale /\ t \in Loops
  BY WatchAssumption, BeatAssumption DEF Threshold, Loops

LEMMA WatchInitOK == WatchInit => WatchInv
<1> SUFFICES ASSUME WatchInit PROVE WatchInv
  OBVIOUS
<1>1. \A l \in Loops : Begin(l) \in {"read", "get"} /\ (l \in Consumers => Begin(l) = "get")
                       /\ (l \in Tails => Begin(l) = "read")
  BY Numbers DEF Begin
<1>2. WatchTypeOK
  <2>1. at \in [Loops -> Steps]
    BY <1>1 DEF WatchInit, Steps
  <2>2. left \in [Loops -> Nat] /\ tries \in [Loops -> Nat]
    BY Numbers DEF WatchInit
  <2>3. \A l \in Loops : age[l] \in 0 .. Threshold(l) + 1
    BY Numbers DEF WatchInit
  <2>4. \A c \in Consumers : tries[c] <= MaxAttempts
    BY Numbers DEF WatchInit
  <2>5. /\ queue \in 0 .. QueueMax /\ poll \in 0 .. Poll /\ phase = "down"
        /\ calls \in [Consumers -> 0 .. CallsMax]
    BY Numbers DEF WatchInit
  <2> QED
    BY <2>1, <2>2, <2>3, <2>4, <2>5 DEF WatchTypeOK
<1>3. age \in [Loops -> Nat] /\ Fresh
  BY DEF WatchInit, Fresh
<1>4. \A c \in Consumers : TriesOK(c) /\ InTime(c)
  BY <1>1, Numbers DEF WatchInit, TriesOK, InTime
<1>5. \A t \in Tails : LooksInTime(t)
  BY <1>1, Numbers DEF WatchInit, LooksInTime
<1> QED
  BY <1>2, <1>3, <1>4, <1>5 DEF WatchInv

-----------------------------------------------------------------------------
(* One loop's step *)

\* A step of loop l that leaves the watchdog's wait and the other loops alone
\* preserves the invariant if it does for l.
LEMMA OneLoop ==
    ASSUME WatchInv, phase = "up", NEW l \in Loops, NEW step \in Steps, NEW n \in Nat,
           Goto(l, step, n),
           age' = age \/ age' = [age EXCEPT ![l] = 0],
           queue' \in 0 .. QueueMax,
           tries' = tries \/ \E m \in Nat : tries' = [tries EXCEPT ![l] = m],
           calls' = calls \/ \E d \in 0 .. CallsMax : calls' = [calls EXCEPT ![l] = d],
           l \in Consumers => tries'[l] <= MaxAttempts /\ TriesOK(l)' /\ InTime(l)',
           l \in Tails => LooksInTime(l)'
    PROVE  WatchInv'
<1>1. /\ at' = [at EXCEPT ![l] = step] /\ left' = [left EXCEPT ![l] = n]
      /\ UNCHANGED <<phase, poll>>
  BY DEF Goto
<1>2. /\ at \in [Loops -> Steps] /\ left \in [Loops -> Nat] /\ tries \in [Loops -> Nat]
      /\ age \in [Loops -> Nat]
  BY DEF WatchInv, WatchTypeOK
<1>3. /\ at' \in [Loops -> Steps] /\ left' \in [Loops -> Nat] /\ tries' \in [Loops -> Nat]
      /\ age' \in [Loops -> Nat]
  BY <1>1, <1>2
<1>4. \A k \in Loops : k # l => /\ at'[k] = at[k] /\ left'[k] = left[k]
                                /\ tries'[k] = tries[k] /\ age'[k] = age[k]
  BY <1>1, <1>2
<1>10. /\ calls' \in [Consumers -> 0 .. CallsMax]
       /\ \A c \in Consumers : c # l => calls'[c] = calls[c]
  <2>1. calls \in [Consumers -> 0 .. CallsMax]
    BY DEF WatchInv, WatchTypeOK
  <2> QED
    BY <2>1
<1>5. \A k \in Loops : age'[k] = age[k] \/ age'[k] = 0
  BY <1>2
<1>6. WatchTypeOK'
  <2>1. \A k \in Loops : age'[k] \in 0 .. Threshold(k) + 1
    BY <1>5, Numbers DEF WatchInv, WatchTypeOK
  <2>2. \A c \in Consumers : tries'[c] <= MaxAttempts
    BY <1>4, Numbers DEF WatchInv, WatchTypeOK
  <2> QED
    BY <1>1, <1>3, <1>10, <2>1, <2>2 DEF WatchInv, WatchTypeOK
<1>7. Fresh'
  BY <1>1 DEF Fresh
<1>8. ASSUME NEW c \in Consumers PROVE TriesOK(c)' /\ InTime(c)'
  <2>1. CASE c = l
    BY <2>1
  <2>2. CASE c # l
    <3>1. /\ at'[c] = at[c] /\ left'[c] = left[c] /\ tries'[c] = tries[c]
          /\ age'[c] = age[c] /\ calls'[c] = calls[c] /\ poll' = poll
      BY <1>1, <1>4, <1>10, <2>2, Numbers
    <3>2. TriesOK(c) /\ InTime(c)
      BY DEF WatchInv
    <3> QED
      BY <3>1, <3>2 DEF TriesOK, InTime, BackoffMax
  <2> QED
    BY <2>1, <2>2
<1>9. \A t \in Tails : LooksInTime(t)'
  BY <1>1, <1>4, Numbers DEF WatchInv, LooksInTime
<1> QED
  BY <1>3, <1>6, <1>7, <1>8, <1>9 DEF WatchInv

LEMMA TailStepOK ==
    ASSUME WatchInv, NEW t \in Tails, TailStep(t)
    PROVE  WatchInv'
<1>1. /\ t \in Loops /\ t \notin Consumers /\ phase = "up"
      /\ queue \in 0 .. QueueMax /\ QueueMax \in Nat /\ calls' = calls
      /\ {"read", "look", "put", "drain", "put drained", "backoff"} \subseteq Steps
  BY Numbers DEF TailStep, ReadLine, PutReturns, CaughtUp, Rotated, DrainLine, PutDrained,
         DrainDone, TailFails, Reopen, Reading, Ready, WatchInv, WatchTypeOK, Steps
<1>2. /\ at \in [Loops -> Steps] /\ left \in [Loops -> Nat] /\ tries \in [Loops -> Nat]
      /\ age \in [Loops -> Nat]
  BY DEF WatchInv, WatchTypeOK
<1>3. ASSUME NEW step \in Steps \ {"look"}, NEW n \in Nat, Goto(t, step, n),
             age' = age \/ age' = [age EXCEPT ![t] = 0], queue' \in 0 .. QueueMax,
             tries' = tries \/ \E m \in Nat : tries' = [tries EXCEPT ![t] = m]
      PROVE  WatchInv'
  <2>1. at'[t] # "look"
    BY <1>1, <1>2, <1>3 DEF Goto
  <2>2. LooksInTime(t)'
    BY <2>1 DEF LooksInTime
  <2> QED
    BY <1>1, <1>3, <2>2, OneLoop
<1>4. CASE ReadLine(t) \/ PutReturns(t) \/ DrainLine(t) \/ PutDrained(t)
  <2>1. /\ \E step \in Steps \ {"look"} : Goto(t, step, 0)
        /\ age' = age \/ age' = [age EXCEPT ![t] = 0]
        /\ tries' = tries
    BY <1>1, <1>4 DEF ReadLine, PutReturns, DrainLine, PutDrained, Beat, Silent
  <2>2. queue' = queue \/ (HasRoom /\ queue' = queue + 1)
    BY <1>4 DEF ReadLine, PutReturns, DrainLine, PutDrained
  <2>3. queue' \in 0 .. QueueMax
    <3>1. queue \in 0 .. QueueMax /\ QueueMax \in Nat
      BY <1>1
    <3> QED
      BY <2>2, <3>1 DEF HasRoom
  <2> QED
    BY <1>3, <2>1, <2>3
<1>5. CASE Rotated(t) \/ DrainDone(t) \/ Reopen(t)
  <2>1. /\ \E step \in Steps \ {"look"} : Goto(t, step, 0)
        /\ UNCHANGED <<age, tries, queue>>
    BY <1>1, <1>5 DEF Rotated, DrainDone, Reopen, Silent
  <2> QED
    BY <1>1, <1>3, <2>1
<1>6. CASE CaughtUp(t)
  <2>1. /\ Goto(t, "look", 1) /\ age' = [age EXCEPT ![t] = 0] /\ UNCHANGED <<tries, queue>>
    BY <1>6 DEF CaughtUp, Beat
  <2>2. left'[t] = 1 /\ age'[t] = 0
    BY <1>1, <1>2, <2>1 DEF Goto
  <2>3. LooksInTime(t)'
    BY <2>2 DEF LooksInTime
  <2> QED
    BY <1>1, <2>1, <2>3, OneLoop
<1>7. CASE TailFails(t)
  <2>1. PICK n \in {1, tries[t] + 1} :
            /\ tries' = [tries EXCEPT ![t] = n]
            /\ \E d \in Delays(n) : Goto(t, "backoff", d)
    BY <1>7 DEF TailFails
  <2>2. n \in Nat \ {0}
    <3>1. tries[t] \in Nat
      BY <1>1, <1>2
    <3> QED
      BY <2>1, <3>1
  <2>3. PICK d \in Delays(n) : Goto(t, "backoff", d)
    BY <2>1
  <2>4. d \in Nat
    BY <2>2, DelayFacts
  <2>5. UNCHANGED <<age, queue>>
    BY <1>7 DEF TailFails, Silent
  <2> QED
    BY <1>1, <1>3, <2>1, <2>2, <2>3, <2>4, <2>5
<1> QED
  BY <1>4, <1>5, <1>6, <1>7 DEF TailStep

LEMMA ConsumerStepOK ==
    ASSUME WatchInv, NEW c \in Consumers, ConsumerStep(c)
    PROVE  WatchInv'
<1>1. /\ c \in Loops /\ c \notin Tails /\ phase = "up"
      /\ queue \in 0 .. QueueMax /\ QueueMax \in Nat
      /\ {"get", "try", "backoff"} \subseteq Steps
  BY Numbers DEF ConsumerStep, Get, IdleBeats, Done, TryFails, TryAgain, Ready,
         WatchInv, WatchTypeOK, Steps
<1>2. /\ at \in [Loops -> Steps] /\ left \in [Loops -> Nat] /\ tries \in [Loops -> Nat]
      /\ age \in [Loops -> Nat] /\ tries[c] <= MaxAttempts
      /\ TriesOK(c) /\ InTime(c)
      /\ calls \in [Consumers -> 0 .. CallsMax] /\ calls[c] \in 0 .. CallsMax
  BY DEF WatchInv, WatchTypeOK
<1>3. CASE Get(c) \/ TryAgain(c)
  <2>1. PICK m \in {1, tries[c] + 1} : tries' = [tries EXCEPT ![c] = m]
    BY <1>3 DEF Get, TryAgain
  <2>2. m \in 1 .. MaxAttempts
    <3>1. CASE Get(c)
      <4>1. tries'[c] = 1
        BY <1>1, <1>2, <3>1 DEF Get
      <4>2. tries'[c] = m
        BY <1>1, <1>2, <2>1
      <4> QED
        BY <4>1, <4>2, Numbers
    <3>2. CASE TryAgain(c)
      BY <1>2, <2>1, <3>2, Numbers DEF TryAgain, Ready, TriesOK
    <3> QED
      BY <1>3, <3>1, <3>2
  <2>3. PICK d \in 1 .. CallsMax : Goto(c, "try", d) /\ calls' = [calls EXCEPT ![c] = d]
    BY <1>3 DEF Get, TryAgain, Try
  <2>4. age' = [age EXCEPT ![c] = 0]
    BY <1>3 DEF Get, TryAgain, BackedOff, Beat
  <2>5. queue' = queue \/ (queue > 0 /\ queue' = queue - 1)
    BY <1>3 DEF Get, TryAgain
  <2>6. queue' \in 0 .. QueueMax
    BY <1>1, <2>5
  <2>7. /\ at'[c] = "try" /\ left'[c] = d /\ age'[c] = 0 /\ tries'[c] = m /\ calls'[c] = d
    BY <1>1, <1>2, <2>1, <2>3, <2>4 DEF Goto
  <2>8. /\ TriesOK(c)' /\ InTime(c)' /\ tries'[c] <= MaxAttempts /\ d \in Nat /\ m \in Nat
        /\ d \in 0 .. CallsMax
    BY <2>2, <2>7, Numbers DEF TriesOK, InTime
  <2> QED
    BY <1>1, <2>1, <2>3, <2>4, <2>6, <2>8, OneLoop
<1>4. CASE IdleBeats(c) \/ Done(c)
  <2>1. /\ Goto(c, "get", IdleBeat) /\ UNCHANGED queue
        /\ tries' = tries \/ tries' = [tries EXCEPT ![c] = 0]
    BY <1>4 DEF IdleBeats, Done
  <2>2. \/ age' = [age EXCEPT ![c] = 0] /\ calls' = [calls EXCEPT ![c] = 0]
        \/ age' = age /\ calls' = calls /\ at[c] = "try" /\ left[c] = 0
    BY <1>4 DEF IdleBeats, Done, Beat, Silent, Ready
  <2>3. /\ at'[c] = "get" /\ left'[c] = IdleBeat
        /\ tries'[c] = tries[c] \/ tries'[c] = 0
    <3>1. at' = [at EXCEPT ![c] = "get"] /\ left' = [left EXCEPT ![c] = IdleBeat]
      BY <2>1 DEF Goto
    <3>2. at'[c] = "get" /\ left'[c] = IdleBeat
      BY <1>1, <1>2, <3>1
    <3>3. tries'[c] = tries[c] \/ tries'[c] = 0
      BY <1>1, <1>2, <2>1
    <3> QED
      BY <3>2, <3>3
  <2>4. age'[c] <= calls'[c] /\ age'[c] \in Nat /\ calls'[c] \in Nat
    <3>1. CASE age' = [age EXCEPT ![c] = 0] /\ calls' = [calls EXCEPT ![c] = 0]
      <4>1. age'[c] = 0 /\ calls'[c] = 0
        BY <1>1, <1>2, <3>1
      <4> QED
        BY <4>1
    <3>2. CASE age' = age /\ calls' = calls /\ at[c] = "try" /\ left[c] = 0
      BY <1>1, <1>2, <3>2, Numbers DEF InTime
    <3> QED
      BY <2>2, <3>1, <3>2
  <2>5. TriesOK(c)' /\ InTime(c)' /\ tries'[c] <= MaxAttempts
    BY <1>2, <2>3, <2>4, Numbers DEF TriesOK, InTime
  <2>6. /\ queue' \in 0 .. QueueMax /\ IdleBeat \in Nat /\ "get" \in Steps
        /\ tries' = tries \/ \E m \in Nat : tries' = [tries EXCEPT ![c] = m]
        /\ age' = age \/ age' = [age EXCEPT ![c] = 0]
        /\ calls' = calls \/ \E d \in 0 .. CallsMax : calls' = [calls EXCEPT ![c] = d]
    BY <1>1, <2>1, <2>2, Numbers
  <2> QED
    BY <1>1, <2>1, <2>5, <2>6, OneLoop
<1>5. CASE TryFails(c)
  <2>1. /\ at[c] = "try" /\ left[c] = 0 /\ tries[c] < MaxAttempts
        /\ UNCHANGED <<age, tries, queue, calls>>
    BY <1>5 DEF TryFails, Ready, Silent
  <2>2. tries[c] \in 1 .. MaxAttempts - 1
    BY <1>2, <2>1, Numbers DEF TriesOK
  <2>3. PICK d \in Delays(tries[c]) : Goto(c, "backoff", d)
    BY <1>5 DEF TryFails
  <2>4. d \in Nat /\ BackoffMax(tries[c]) \in Nat /\ d <= BackoffMax(tries[c])
    <3>1. tries[c] \in Nat \ {0}
      BY <2>2, Numbers
    <3> QED
      BY <3>1, DelayFacts
  <2>5. /\ at'[c] = "backoff" /\ left'[c] = d /\ age'[c] = age[c] /\ tries'[c] = tries[c]
        /\ calls'[c] = calls[c]
    BY <1>1, <1>2, <2>1, <2>3 DEF Goto
  <2>6. age[c] <= calls[c] /\ age[c] \in Nat /\ calls[c] \in Nat
    BY <1>1, <1>2, <2>1, Numbers DEF InTime
  <2>7. age'[c] + left'[c] <= calls'[c] + BackoffMax(tries'[c])
    BY <2>4, <2>5, <2>6
  <2>8. InTime(c)'
    BY <2>5, <2>7 DEF InTime, BackoffMax
  <2>9. TriesOK(c)' /\ tries'[c] <= MaxAttempts
    BY <1>1, <1>2, <2>2, <2>5 DEF TriesOK
  <2> QED
    BY <1>1, <2>1, <2>3, <2>4, <2>8, <2>9, OneLoop
<1> QED
  BY <1>3, <1>4, <1>5 DEF ConsumerStep

LEMMA HangOK ==
    ASSUME WatchInv, NEW l \in Loops, Hang(l)
    PROVE  WatchInv'
<1>1. /\ phase = "up" /\ Goto(l, "hung", 0) /\ UNCHANGED <<age, tries, queue, calls>>
      /\ "hung" \in Steps /\ queue \in 0 .. QueueMax
      /\ at \in [Loops -> Steps]
  BY DEF Hang, Silent, Steps, WatchInv, WatchTypeOK
<1>2. at'[l] = "hung"
  BY <1>1 DEF Goto
<1>3. l \in Consumers => tries'[l] <= MaxAttempts /\ TriesOK(l)' /\ InTime(l)'
  BY <1>1, <1>2 DEF WatchInv, WatchTypeOK, TriesOK, InTime
<1>4. LooksInTime(l)'
  BY <1>2 DEF LooksInTime
<1> QED
  BY <1>1, <1>3, <1>4, OneLoop

-----------------------------------------------------------------------------
(* The process *)

LEMMA TickOK ==
    ASSUME WatchInv, Tick
    PROVE  WatchInv'
<1>1. /\ UNCHANGED <<phase, at, tries, queue, calls>>
      /\ calls \in [Consumers -> 0 .. CallsMax]
      /\ age' = [l \in Loops |-> Older(age[l], Threshold(l))]
      /\ age \in [Loops -> Nat] /\ left \in [Loops -> Nat] /\ poll \in 0 .. Poll
      /\ at \in [Loops -> Steps]
  BY DEF Tick, WatchInv, WatchTypeOK
<1>2. \A l \in Loops : /\ age'[l] \in 0 .. Threshold(l) + 1
                       /\ age'[l] <= age[l] + 1 /\ age'[l] \in Nat
  BY <1>1, Numbers DEF Older, WatchInv, WatchTypeOK
<1>3. age' \in [Loops -> Nat]
  BY <1>1, <1>2
<1>4. CASE phase # "up"
  <2>1. UNCHANGED <<left, poll>>
    BY <1>4 DEF Tick
  <2>2. WatchTypeOK'
    BY <1>1, <1>2, <2>1 DEF WatchInv, WatchTypeOK
  <2>3. Fresh'
    BY <1>1, <2>1 DEF WatchInv, Fresh
  <2>4. \A c \in Consumers : at[c] = "get" /\ left[c] = IdleBeat /\ poll = Poll
    BY <1>4, Numbers DEF WatchInv, Fresh, Begin
  <2>5. \A c \in Consumers : TriesOK(c)' /\ InTime(c)'
    BY <1>1, <2>1, <2>4, Numbers DEF TriesOK, InTime
  <2>6. \A t \in Tails : at'[t] # "look"
    BY <1>1, <1>4, Numbers DEF WatchInv, Fresh, Begin
  <2> QED
    BY <1>3, <2>2, <2>3, <2>5, <2>6 DEF WatchInv, LooksInTime
<1>5. CASE phase = "up"
  <2>1. /\ left' = [l \in Loops |-> Sooner(left[l])] /\ poll' = poll - 1 /\ ~ Busy
    BY <1>5 DEF Tick
  <2>2. poll \in 1 .. Poll
    <3>1. poll # 0
      BY <2>1 DEF Busy
    <3> QED
      BY <1>1, <3>1, Numbers
  <2>3. left' \in [Loops -> Nat]
    BY <1>1, <2>1 DEF Sooner
  <2>4. \A l \in Loops : left[l] > 0 => left'[l] = left[l] - 1
    BY <1>1, <2>1 DEF Sooner
  <2>5. WatchTypeOK'
    <3>1. poll' \in 0 .. Poll
      BY <2>1, <2>2, Numbers
    <3> QED
      BY <1>1, <1>2, <2>3, <3>1 DEF WatchInv, WatchTypeOK
  <2>6. Fresh'
    BY <1>1, <1>5 DEF Fresh
  <2>7. \A c \in Consumers : at[c] \in {"get", "try", "backoff"} => left[c] > 0
    <3>1. \A c \in Consumers : at[c] \in {"get", "try", "backoff"} => left[c] # 0
      BY <2>1 DEF Busy
    <3>2. \A c \in Consumers : left[c] \in Nat
      BY <1>1, Numbers
    <3> QED
      BY <3>1, <3>2
  <2>8. ASSUME NEW c \in Consumers PROVE TriesOK(c)' /\ InTime(c)'
    <3>1. TriesOK(c)'
      BY <1>1 DEF WatchInv, TriesOK
    <3>2. at[c] \in {"get", "try", "backoff"} => age'[c] + left'[c] <= age[c] + left[c]
      BY <1>1, <1>2, <2>4, <2>7, Numbers
    <3>3. /\ c \in Loops /\ age[c] \in Nat /\ left[c] \in Nat
          /\ age'[c] \in Nat /\ left'[c] \in Nat
      BY <1>1, <1>2, <2>3, Numbers
    <3>4. at[c] = "get" => left'[c] = left[c] - 1
      BY <2>4, <2>7, <3>3
    <3>5. InTime(c)
      BY DEF WatchInv
    <3>6. at[c] = "get" => age'[c] + left'[c] <= calls[c] + IdleBeat \/ left'[c] < poll'
      BY <1>1, <2>1, <2>2, <3>2, <3>3, <3>4, <3>5, Numbers DEF InTime
    <3>7. at[c] = "try" => age'[c] + left'[c] <= calls[c]
      BY <1>1, <3>2, <3>3, <3>5, Numbers DEF InTime
    <3>8. at[c] = "backoff" => age'[c] + left'[c] <= calls[c] + BackoffMax(tries[c])
      <4>1. at[c] = "backoff" => tries[c] \in Nat \ {0}
        BY Numbers DEF WatchInv, TriesOK
      <4>2. at[c] = "backoff" => BackoffMax(tries[c]) \in Nat
        BY <4>1, DelayFacts
      <4> QED
        BY <1>1, <3>2, <3>3, <3>5, <4>2 DEF InTime
    <3> QED
      BY <1>1, <3>1, <3>6, <3>7, <3>8 DEF InTime, BackoffMax
  <2>9. ASSUME NEW t \in Tails PROVE LooksInTime(t)'
    <3>1. t \in Loops
      BY Numbers
    <3>2. at[t] = "look" => left[t] > 0
      <4>1. at[t] = "look" => left[t] # 0
        BY <2>1 DEF Busy
      <4>2. left[t] \in Nat
        BY <1>1, <3>1
      <4> QED
        BY <4>1, <4>2
    <3>3. at[t] = "look" => age'[t] + left'[t] <= age[t] + left[t]
      BY <1>1, <1>2, <2>4, <3>1, <3>2
    <3>4. age[t] + left[t] \in Nat /\ age'[t] + left'[t] \in Nat
      BY <1>1, <1>2, <2>3, <3>1
    <3>5. LooksInTime(t)
      BY DEF WatchInv
    <3> QED
      BY <1>1, <3>3, <3>4, <3>5 DEF LooksInTime
  <2> QED
    BY <1>3, <2>5, <2>6, <2>8, <2>9 DEF WatchInv
<1> QED
  BY <1>4, <1>5

LEMMA ProcessOK ==
    ASSUME WatchInv, Check \/ Exit \/ Start \/ Connected
    PROVE  WatchInv'
<1>1. /\ age \in [Loops -> Nat] /\ left \in [Loops -> Nat] /\ poll \in 0 .. Poll
      /\ at \in [Loops -> Steps] /\ phase \in {"down", "connecting", "up"}
  BY DEF WatchInv, WatchTypeOK
<1>2. \A l \in Loops : /\ Begin(l) \in {"read", "get"} /\ Begin(l) \in Steps
                       /\ (l \in Consumers => Begin(l) = "get")
                       /\ (l \in Tails => Begin(l) = "read")
  BY Numbers DEF Begin, Steps
<1>3. CASE Check
  <2>1. /\ UNCHANGED <<phase, age, at, left, tries, queue, calls>>
        /\ poll' = Poll /\ phase = "up"
    BY <1>3 DEF Check
  <2>2. WatchTypeOK' /\ Fresh'
    BY <2>1, Numbers DEF WatchInv, WatchTypeOK, Fresh
  <2>3. ASSUME NEW c \in Consumers PROVE TriesOK(c)' /\ InTime(c)'
    <3>1. TriesOK(c) /\ InTime(c)
      BY DEF WatchInv
    <3>2. left[c] \in Nat /\ left[c] < poll => left[c] < Poll
      BY <1>1, Numbers
    <3>3. left[c] \in Nat
      BY <1>1, Numbers
    <3> QED
      BY <2>1, <3>1, <3>2, <3>3 DEF TriesOK, InTime, BackoffMax
  <2>4. \A t \in Tails : LooksInTime(t)'
    BY <2>1 DEF WatchInv, LooksInTime
  <2> QED
    BY <1>1, <2>1, <2>2, <2>3, <2>4 DEF WatchInv
<1>4. CASE Exit
  <2>1. /\ phase' = "down" /\ at' = [l \in Loops |-> Begin(l)]
        /\ left' = [l \in Loops |-> IF l \in Tails THEN 0 ELSE IdleBeat]
        /\ tries' = [l \in Loops |-> 0] /\ queue' = 0 /\ poll' = Poll /\ age' = age
        /\ calls' = [c \in Consumers |-> 0]
    BY <1>4 DEF Exit
  <2>2. /\ at' \in [Loops -> Steps] /\ left' \in [Loops -> Nat] /\ tries' \in [Loops -> Nat]
        /\ \A c \in Consumers : tries'[c] <= MaxAttempts
        /\ calls' \in [Consumers -> 0 .. CallsMax]
    BY <1>2, <2>1, Numbers
  <2>3. WatchTypeOK'
    BY <2>1, <2>2, Numbers DEF WatchInv, WatchTypeOK
  <2>4. Fresh'
    BY <2>1 DEF Fresh, Begin
  <2>5. \A c \in Consumers : at'[c] = "get" /\ left'[c] < poll'
    BY <1>2, <2>1, Numbers
  <2>6. \A c \in Consumers : TriesOK(c)' /\ InTime(c)'
    BY <2>5 DEF TriesOK, InTime
  <2>7. \A t \in Tails : at'[t] # "look"
    BY <1>2, <2>1, Numbers
  <2> QED
    BY <1>1, <2>1, <2>3, <2>4, <2>6, <2>7 DEF WatchInv, LooksInTime
<1>5. CASE Start \/ Connected
  <2>1. /\ phase # "up" /\ UNCHANGED <<at, left, tries, queue, poll, calls>>
        /\ phase' \in {"connecting", "up"}
        /\ age' = age \/ age' = [l \in Loops |-> 0]
    BY <1>5 DEF Start, Connected
  <2>2. /\ \A l \in Loops : at[l] = Begin(l) /\ left[l] = IF l \in Tails THEN 0 ELSE IdleBeat
        /\ poll = Poll
    BY <2>1 DEF WatchInv, Fresh
  <2>3. age' \in [Loops -> Nat] /\ \A l \in Loops : age'[l] \in 0 .. Threshold(l) + 1
    BY <1>1, <2>1, Numbers DEF WatchInv, WatchTypeOK
  <2>4. WatchTypeOK'
    BY <2>1, <2>3 DEF WatchInv, WatchTypeOK
  <2>5. Fresh'
    BY <2>1, <2>2 DEF Fresh, Begin
  <2>6. \A c \in Consumers : at'[c] = "get" /\ left'[c] < poll'
    BY <1>2, <2>1, <2>2, Numbers
  <2>7. \A c \in Consumers : TriesOK(c)' /\ InTime(c)'
    BY <2>6 DEF TriesOK, InTime
  <2>8. \A t \in Tails : at'[t] # "look"
    BY <1>2, <2>1, <2>2, Numbers
  <2> QED
    BY <2>3, <2>4, <2>5, <2>7, <2>8 DEF WatchInv, LooksInTime
<1> QED
  BY <1>3, <1>4, <1>5

LEMMA WatchStep == WatchInv /\ [WatchNext]_watchVars => WatchInv'
<1> SUFFICES ASSUME WatchInv, [WatchNext]_watchVars PROVE WatchInv'
  OBVIOUS
<1>1. CASE UNCHANGED watchVars
  BY <1>1 DEF watchVars, WatchInv, WatchTypeOK, Fresh, TriesOK, InTime, BackoffMax, LooksInTime
<1> QED
  BY <1>1, TailStepOK, ConsumerStepOK, HangOK, TickOK, ProcessOK DEF WatchNext, Process

\* Every variable of the liveness mechanism stays in range: no file gets older than the
\* watchdog lets it, no record is tried more than MaxAttempts times.
THEOREM WatchTypeCorrect == WatchSpec => []WatchTypeOK
<1>1. WatchInv => WatchTypeOK
  BY DEF WatchInv
<1> QED
  BY <1>1, WatchInitOK, WatchStep, PTL DEF WatchSpec

\* When the watchdog looks, a consumer past its threshold has had calls that were too long.
LEMMA InvIsEnough == WatchInv => RestartForCause
<1> SUFFICES ASSUME WatchInv, phase = "up", poll = 0, NEW l \in Stale
             PROVE  \/ at[l] = "hung"
                    \/ l \in Tails /\ at[l] # "look"
                    \/ l \in Consumers /\ Silence(l) > ConsumerStale
  BY DEF RestartForCause
<1>1. l \in Loops /\ age[l] > Threshold(l) /\ age[l] \in Nat /\ left[l] \in Nat
  BY DEF Stale, WatchInv, WatchTypeOK
<1>2. CASE l \in Consumers
  <2>1. TriesOK(l) /\ InTime(l) /\ calls[l] \in Nat
    BY <1>2, Numbers DEF WatchInv, WatchTypeOK
  <2>2. CASE at[l] = "get"
    <3>1. ~ (left[l] < poll)
      BY <1>1
    <3>2. Silence(l) = calls[l] + IdleBeat
      BY <2>2 DEF Silence
    <3> QED
      BY <1>1, <1>2, <2>1, <2>2, <3>1, <3>2, Numbers DEF InTime
  <2>3. CASE at[l] = "try"
    <3>1. Silence(l) = calls[l]
      BY <2>1, <2>3 DEF Silence
    <3> QED
      BY <1>1, <1>2, <2>1, <2>3, <3>1, Numbers DEF InTime
  <2>4. CASE at[l] = "backoff"
    <3>1. Silence(l) = calls[l] + BackoffMax(tries[l])
      BY <2>4 DEF Silence
    <3>2. BackoffMax(tries[l]) \in Nat
      BY <2>1, <2>4, DelayFacts, Numbers DEF TriesOK
    <3> QED
      BY <1>1, <1>2, <2>1, <2>4, <3>1, <3>2, Numbers DEF InTime
  <2> QED
    BY <2>1, <2>2, <2>3, <2>4 DEF TriesOK
<1>3. CASE l \in Tails
  <2>1. LooksInTime(l) /\ Threshold(l) \in Nat \ {0}
    BY <1>3, Numbers DEF WatchInv
  <2> QED
    BY <1>1, <1>3, <2>1 DEF LooksInTime
<1> QED
  BY <1>1, <1>2, <1>3 DEF Loops

\* Whatever the timeouts and thresholds are, the watchdog restarts the process for a wedged
\* loop, a tail that could not go on reading, or a consumer with one attempt whose calls,
\* with one wait, last longer than the threshold: not for the length of an outage of
\* Postgres that the consumers sit out in attempts, not for a long start, not for a quiet
\* sensor.  That a consumer beats before the watchdog first looks is all that is assumed.
THEOREM RestartsForCause == WatchSpec => []RestartForCause
  BY InvIsEnough, WatchInitOK, WatchStep, PTL DEF WatchSpec

=============================================================================
