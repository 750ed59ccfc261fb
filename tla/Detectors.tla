------------------------------ MODULE Detectors ------------------------------
(***************************************************************************)
(* Correlation in the analytics engine: the window of events kept of every *)
(* address, the scan and the attack detector that look at it, and what     *)
(* becomes of their findings.  Events come from the stream one at a time   *)
(* (consume in engine.py); while a finding is written, time goes by and    *)
(* gc_state may run.  The profile that handle_event updates afterwards is  *)
(* in module ProfileStore.                                                 *)
(*                                                                         *)
(* There is no clock: whatever has a time in the code has an age here,     *)
(* counted in ticks up to the age that no comparison tells from a higher   *)
(* one.                                                                    *)
(***************************************************************************)
EXTENDS Integers, Sequences, FiniteSets

CONSTANTS Ips,           \* source addresses
          Ports,         \* destination ports
          Sends,         \* [Ips -> events an instance lets it cause]
          ScanThreshold, \* SCAN_PORT_THRESHOLD
          ScanWindow,    \* SCAN_WINDOW_SECONDS
          BfThreshold,   \* BRUTEFORCE_THRESHOLD
          BfWindow,      \* BRUTEFORCE_WINDOW_SECONDS
          Keep,          \* WINDOW_KEEP_S
          MaxEvents,     \* WINDOW_MAX_EVENTS
          MaxIps,        \* WINDOW_MAX_IPS
          MaxFaults      \* bound: failed statements, restarts

Kinds  == {"login", "command", "alert", "connect"}
NoPort == "no port"
Events == [kind : Kinds, port : Ports \union {NoPort}]

ASSUME DetectAssumption ==
    /\ Ports \intersect (Kinds \union {NoPort}) = {}
    /\ Sends \in [Ips -> SUBSET Events]
    /\ {ScanThreshold, ScanWindow, BfThreshold, BfWindow, MaxEvents, MaxIps}
           \subseteq Nat \ {0}
    /\ {Keep, MaxFaults} \subseteq Nat

VARIABLES
    window,   \* [Ips -> Seq of Entries]: windows; an address without one has <<>>
    reported, \* [Keys -> age]: _reported of the two detectors
    hand,     \* the finding that is being written, and the event it comes from
    score,    \* [Ips -> Nat]: threat_score in table ips, as far as findings raise it
    filed,    \* [Keys -> age] of the last row about an address in scan_events, attack_events
    spoiled,  \* history: keys whose last finding did not get its row
    heard,    \* history: [Ips -> [Signals -> age]] of the last event of that kind
    told,     \* history: [Keys -> age] of the last finding, its row written or not
    faults    \* faults so far

memory  == <<window, reported, hand>>
tables  == <<score, filed>>
history == <<heard, told>>
detectVars == <<memory, tables, spoiled, history, faults>>

Tags == {"scan", "bf", "exec"}
Keys == Tags \X Ips

Span(tag) == IF tag = "scan" THEN ScanWindow ELSE BfWindow

Greatest(m, n) == IF m >= n THEN m ELSE n
Least(m, n)    == IF m <= n THEN m ELSE n

\* An age that is as good as never.
Never(tag) == 2 * Span(tag) + 1
TooOld     == Greatest(Keep, Greatest(ScanWindow, BfWindow)) + 1

Entries == [kind : Kinds, port : Ports \union {NoPort}, age : 0 .. TooOld]

\* What an exploit is worth is not deduplicated; a brute force may be cred_stuffing.
Bumps == [scan |-> {30}, bf |-> {45, 55}, exec |-> {85}, exploit |-> {75}]

Idle == [ip |-> NoPort, event |-> [kind |-> "connect", port |-> NoPort],
         tag |-> "none", step |-> "idle"]

Signals == Ports \union {"command"}
Unheard == [s \in Signals |-> TooOld]

Fault == /\ faults < MaxFaults
         /\ faults' = faults + 1

-----------------------------------------------------------------------------
(* Windows *)

Tracked == {ip \in Ips : window[ip] # <<>>}

LastAge(w) == w[Len(w)].age

\* _evict_windows: the tenth that was silent longest.
Coldest(n) == {C \in SUBSET Tracked :
                  /\ Cardinality(C) = n
                  /\ \A c \in C, d \in Tracked \ C : LastAge(window[c]) >= LastAge(window[d])}

\* Which windows have to go for one of ip.
Evictions(ip) == IF ip \notin Tracked /\ Cardinality(Tracked) >= MaxIps
                 THEN Coldest(Greatest(1, MaxIps \div 10))
                 ELSE {{}}

Entry(e) == [kind |-> e.kind, port |-> e.port, age |-> 0]

\* Mutant: the deque takes one event more.
FullLate(w) == Len(w) > MaxEvents

Full(w) == Len(w) = MaxEvents

\* The events at the front of w that are over WINDOW_KEEP_S.
Overdue(w) == {k \in 1 .. Len(w) : \A j \in 1 .. k : w[j].age > Keep}

\* win.append of a bounded deque, and popleft of what is overdue.
Appended(w, e) ==
    LET added == Append(IF Full(w) THEN Tail(w) ELSE w, Entry(e))
    IN  SubSeq(added, Cardinality(Overdue(added)) + 1, Len(added))

\* History: an event that the caps pushed out counts as unheard, unless another one
\* followed it.
Overflown(h, w) == IF Full(w) /\ Head(w).port \in Ports /\ h[Head(w).port] = Head(w).age
                   THEN [h EXCEPT ![Head(w).port] = TooOld]
                   ELSE h

Signal(h, e) == [s \in Signals |-> IF s = e.port \/ s = e.kind THEN 0 ELSE h[s]]

-----------------------------------------------------------------------------
(* Detectors *)

Young(w, span) == {k \in 1 .. Len(w) : w[k].age <= span}

FansOut(w) == Cardinality({w[k].port : k \in Young(w, ScanWindow)} \ {NoPort}) >= ScanThreshold

Forces(w) == Cardinality({k \in Young(w, BfWindow) : w[k].kind = "login"}) >= BfThreshold

\* _dup; the scan detector has the same.
Dup(key) == reported[key] < Span(key[1])

\* Mutant: a suppressed finding starts the window anew.
TestedAnew(key) == 0

\* _reported once key has been tested.
Tested(key) == IF Dup(key) THEN reported[key] ELSE 0

\* The attack detector's finding for the event e.
Attack(e, w) ==
    IF e.kind = "command" THEN "exec"
    ELSE IF e.kind = "alert" THEN "exploit"
    ELSE IF e.kind = "login" /\ Forces(w) THEN "bf"
    ELSE "none"

Writing(ip, e, tag) == [ip |-> ip, event |-> e, tag |-> tag, step |-> "insert"]

Marked(rep, key) == /\ reported' = [rep EXCEPT ![key] = Tested(key)]
                    /\ told' = [told EXCEPT ![key] = IF Dup(key) THEN @ ELSE 0]

\* The attack detector has its turn.
AttackTurn(ip, e, w, rep) ==
    LET tag == Attack(e, w)
    IN  IF tag \in Tags
        THEN /\ Marked(rep, <<tag, ip>>)
             /\ hand' = IF Dup(<<tag, ip>>) THEN Idle ELSE Writing(ip, e, tag)
        ELSE /\ reported' = rep /\ UNCHANGED told
             /\ hand' = IF tag = "exploit" THEN Writing(ip, e, tag) ELSE Idle

\* The scan detector comes first; without a finding of its own the turn passes on.
ScanTurn(ip, e, w) ==
    LET key == <<"scan", ip>>
    IN  IF FansOut(w) /\ ~ Dup(key)
        THEN Marked(reported, key) /\ hand' = Writing(ip, e, "scan")
        ELSE AttackTurn(ip, e, w,
                        IF FansOut(w) THEN [reported EXCEPT ![key] = Tested(key)] ELSE reported)

\* handle_event, up to the first finding.
Receive(ip, e) ==
    /\ hand = Idle
    /\ \E gone \in Evictions(ip) :
           LET w == Appended(window[ip], e)
           IN  /\ window' = [i \in Ips |-> IF i = ip THEN w
                                           ELSE IF i \in gone THEN <<>> ELSE window[i]]
               /\ heard' = [i \in Ips |-> IF i = ip THEN Signal(Overflown(heard[i], window[i]), e)
                                          ELSE IF i \in gone THEN Unheard ELSE heard[i]]
               /\ ScanTurn(ip, e, w)
    /\ UNCHANGED <<tables, spoiled, faults>>

-----------------------------------------------------------------------------
(* persist_finding *)

\* The finding in hand is done with, one way or the other.
TurnOver == IF hand.tag = "scan"
            THEN AttackTurn(hand.ip, hand.event, window[hand.ip], reported)
            ELSE hand' = Idle /\ UNCHANGED <<reported, told>>

InHand(key) == hand.step = "insert" /\ <<hand.tag, hand.ip>> = key

Inserted == /\ filed' = [key \in Keys |-> IF InHand(key) THEN 0 ELSE filed[key]]
            /\ spoiled' = {key \in spoiled : ~ InHand(key)}

NotInserted == filed' = filed /\ spoiled' = spoiled \union {key \in Keys : InHand(key)}

Raised == \E bump \in Bumps[hand.tag] :
              score' = [score EXCEPT ![hand.ip] = Greatest(@, bump)]

InsertFinding ==
    /\ hand.step = "insert"
    /\ Inserted
    /\ hand' = [hand EXCEPT !.step = "score"]
    /\ UNCHANGED <<window, reported, score, history, faults>>

\* The score is raised and the finding announced.
ScoreFinding ==
    /\ hand.step = "score"
    /\ Raised
    /\ TurnOver
    /\ UNCHANGED <<window, filed, spoiled, heard, faults>>

\* A failed statement may have taken effect.
Effect == \/ NotInserted /\ UNCHANGED score
          \/ hand.step = "insert" /\ Inserted /\ UNCHANGED score
          \/ hand.step = "score" /\ Raised /\ UNCHANGED <<filed, spoiled>>

\* Mutant: a scan that cannot be written takes the event with it.
GivenUp == hand' = Idle /\ UNCHANGED <<reported, told>>

\* What follows on a failure: the next detector.
Onward == TurnOver

FindingFails ==
    /\ hand # Idle
    /\ Fault
    /\ Effect
    /\ Onward
    /\ UNCHANGED <<window, heard>>

-----------------------------------------------------------------------------

\* Mutant: the age of the oldest event decides.
StaleByFirst(w) == w # <<>> /\ Head(w).age > Keep

Stale(w) == w # <<>> /\ LastAge(w) > Keep

\* Mutant: what is as old as the window is pruned, counted from half of it.
PrunedEarly(key) == 2 * reported[key] >= Span(key[1])

\* prune
Pruned(key) == reported[key] > 2 * Span(key[1])

GcState ==
    /\ window' = [ip \in Ips |-> IF Stale(window[ip]) THEN <<>> ELSE window[ip]]
    /\ reported' = [key \in Keys |-> IF Pruned(key) THEN Never(key[1]) ELSE reported[key]]
    /\ UNCHANGED <<hand, tables, spoiled, history, faults>>

Tick ==
    /\ window' = [ip \in Ips |-> [k \in 1 .. Len(window[ip]) |->
                     [window[ip][k] EXCEPT !.age = Least(@ + 1, TooOld)]]]
    /\ reported' = [key \in Keys |-> Least(reported[key] + 1, Never(key[1]))]
    /\ told' = [key \in Keys |-> Least(told[key] + 1, Never(key[1]))]
    /\ heard' = [ip \in Ips |-> [s \in Signals |-> Least(heard[ip][s] + 1, TooOld)]]
    /\ filed' = [key \in Keys |-> Least(filed[key] + 1, Span(key[1]))]
    /\ UNCHANGED <<hand, score, spoiled, faults>>

Unreported == [key \in Keys |-> Never(key[1])]

\* The engine ends, in order or not, and is started: its memory is gone, and with it
\* the event in hand.
Restart ==
    /\ Fault
    /\ Effect
    /\ window' = [ip \in Ips |-> <<>>]
    /\ reported' = Unreported
    /\ hand' = Idle
    /\ heard' = [ip \in Ips |-> Unheard]
    /\ told' = Unreported

DetectInit ==
    /\ window = [ip \in Ips |-> <<>>]
    /\ reported = Unreported
    /\ hand = Idle
    /\ score = [ip \in Ips |-> 0]
    /\ filed = [key \in Keys |-> Span(key[1])]
    /\ spoiled = {}
    /\ heard = [ip \in Ips |-> Unheard]
    /\ told = Unreported
    /\ faults = 0

PersistFinding == InsertFinding \/ ScoreFinding \/ FindingFails

DetectNext == \/ \E ip \in Ips : \E e \in Sends[ip] : Receive(ip, e)
              \/ PersistFinding
              \/ GcState
              \/ Tick
              \/ Restart

DetectSpec == DetectInit /\ [][DetectNext]_detectVars

\* Every statement has a timeout, and time goes by.  Nothing is assumed of the events.
FairDetectSpec == DetectSpec /\ WF_detectVars(PersistFinding) /\ WF_detectVars(Tick)

-----------------------------------------------------------------------------
(* Properties *)

\* Every variable stays in its range, and the caps hold.
DetectTypeOK ==
    /\ \A ip \in Ips : /\ Len(window[ip]) <= MaxEvents
                       /\ \A k \in 1 .. Len(window[ip]) : window[ip][k] \in Entries
    /\ Cardinality(Tracked) <= MaxIps
    /\ reported \in [Keys -> 0 .. Greatest(Never("scan"), Never("bf"))]
    /\ hand = Idle \/ hand \in [ip : Ips, event : Events, tag : Tags \union {"exploit"},
                                step : {"insert", "score"}]
    /\ score \in [Ips -> {0} \union UNION {Bumps[tag] : tag \in DOMAIN Bumps}]
    /\ filed \in [Keys -> 0 .. Greatest(ScanWindow, BfWindow)]
    /\ spoiled \subseteq Keys
    /\ heard \in [Ips -> [Signals -> 0 .. TooOld]]
    /\ faults \in 0 .. MaxFaults

\* The latest event of ip makes the threshold with those of the span before it.
ScanningWithin(ip, span) ==
    LET recent == {p \in Ports : heard[ip][p] <= span}
    IN  (\E p \in recent : heard[ip][p] = 0) /\ Cardinality(recent) >= ScanThreshold

\* The engine looks no further back than WINDOW_KEEP_S, whatever the window is set to.
Scanning(ip) == ScanningWithin(ip, Least(ScanWindow, Keep))

\* There is a row of this window.  The one excuse: the window has its finding, and the
\* row of that failed to be written, for _reported is set before it is.
Filed(key) == \/ filed[key] < Span(key[1])
              \/ key \in spoiled /\ reported[key] < Span(key[1])

\* "Distinct-port fan-out within a time window => scan": whatever was trimmed, collected
\* or pruned meanwhile, an address whose events reach the threshold has a row in
\* scan_events, written within the window or being written now.  Aside are events that
\* the two caps pushed out, and a window whose own row failed.
FanOutSeen ==
    \A ip \in Ips : Scanning(ip) => InHand(<<"scan", ip>>) \/ Filed(<<"scan", ip>>)

\* "One detector tripping ... must not cost": when the event of a command is done with,
\* attack_events has a row of the window about it, though the scan finding of the same
\* event could not be written.  Aside is a window whose own row failed.
CommandSeen ==
    \A ip \in Ips : heard[ip]["command"] = 0 /\ hand = Idle => Filed(<<"exec", ip>>)

\* A window that is set to more than WINDOW_KEEP_S is looked at as a whole.  No run
\* checks it: detectors_wide.cfg, where it is not, finds it violated.
WideFanOutSeen ==
    \A ip \in Ips : ScanningWithin(ip, ScanWindow) =>
                        InHand(<<"scan", ip>>) \/ Filed(<<"scan", ip>>)

\* "One finding per window, not per command": between two findings of a kind about an
\* address lies the whole window, unless the engine was restarted.
OncePerWindow ==
    [][\A key \in Keys :
           hand # hand' /\ hand'.step = "insert" /\ <<hand'.tag, hand'.ip>> = key
               => told[key] >= Span(key[1])]_detectVars

\* An address that goes on scanning is reported again and again, and its score follows:
\* deduplication never silences it for good, nor does a finding that was not written.
KeepsReporting ==
    \A ip \in Ips : []<>Scanning(ip) => []<>(filed[<<"scan", ip>>] = 0) /\ <>[](score[ip] >= 30)
==============================================================================
