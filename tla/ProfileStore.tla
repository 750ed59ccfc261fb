---------------------------- MODULE ProfileStore -----------------------------
(***************************************************************************)
(* The behavioural half of analytics/engine.py.  handle_event() folds each *)
(* event into the profile of its address, in memory; every few seconds     *)
(* flush_profiles() writes the profiles that changed, one at a time and in *)
(* two statements, while more events arrive.  Memory is bounded: at        *)
(* PROFILE_MAX_IPS the coldest profiles are evicted, and the status loop   *)
(* collects the idle ones.  A stop lets the consumer finish, cancels every *)
(* loop wherever it is, and flushes once more; the watchdog may kill the   *)
(* process at any moment.                                                  *)
(*                                                                         *)
(* An event is a login attempt or a command; sessions, services, tooling   *)
(* hints and tactics go the way of one of these: a maximum or a union in   *)
(* the row.  The stream and the detectors are in module Detectors.         *)
(***************************************************************************)
EXTENDS Integers, Sequences, FiniteSets

CONSTANTS Ips,            \* source addresses
          NoIp,           \* no address
          Cmds,           \* commands an attacker may type
          Tools,          \* those that name a miner or a botnet
          Long,           \* those of more than the 300 characters a profile keeps of one
          LoginThreshold, \* BRUTEFORCE_TACTIC_THRESHOLD
          ProfileMax,     \* PROFILE_MAX_IPS
          MemMax,         \* commands a profile holds in memory
          SnapMax,        \* commands a snapshot takes from it
          RowMax,         \* commands a row holds
          Sends,          \* [Ips -> the events an address may cause]
          MaxLogins,      \* bound: login attempts of one address
          MaxFaults       \* bound: failed statements, timeouts, kills

ASSUME ProfileAssumption ==
    /\ IsFiniteSet(Cmds) /\ Tools \subseteq Cmds /\ Long \subseteq Cmds
    /\ NoIp \notin Ips
    /\ Sends \in [Ips -> SUBSET (Cmds \union {"login"})]
    /\ {LoginThreshold, ProfileMax, MemMax, SnapMax, RowMax} \subseteq Nat \ {0}
    /\ {MaxLogins, MaxFaults} \subseteq Nat

VARIABLES
    seen,     \* history: [Ips -> [cmds, logins]]: every event handled
    row,      \* [Ips -> Rows]: behavior_profiles
    ips,      \* [Ips -> Marks]: classification and threat_score in table ips
    phase,    \* main(): down, up, stopping, flushing (the last time), stopped
    hand,     \* address of the event consume() is handling, or NoIp
    event,    \* that event: a command, or Login
    profile,  \* [Ips -> Profiles]: self.profiles
    live,     \* the addresses it has
    colder,   \* pairs of them: the first was heard of less recently
    dirty,    \* self._dirty
    at,       \* flush_profiles(): sleep, or at its first or second statement
    rest,     \* addresses it took over and has not come to
    target,   \* the address it is writing, or NoIp
    snap,     \* the snapshot it is writing
    owed,     \* history: [Ips -> Rows]: the snapshot due since its last event
    lost,     \* history: [Ips -> Causes]: why that was given up before it was written
    faults    \* faults so far

tables  == <<row, ips>>
memory  == <<hand, event, profile, live, colder, dirty>>
flush   == <<at, rest, target, snap>>
history == <<owed, lost>>
storeVars == <<seen, tables, phase, memory, flush, history, faults>>

Login == "login"

\* gone: evicted or collected; rejected: refused by the database; cut: in the hands of a
\* flush that was cancelled or timed out; ended: in memory when the process ended.
Causes == {"none", "gone", "rejected", "cut", "ended"}

Greatest(a, b) == IF a >= b THEN a ELSE b
Least(a, b)    == IF a <= b THEN a ELSE b

-----------------------------------------------------------------------------
(* Profiles and rows *)

Profiles == [cmds : Seq(Cmds), tool : BOOLEAN, logins : Nat]
Marks    == [score : Nat, class : Nat]
Rows     == [cmds : SUBSET Cmds, logins : Nat, score : Nat, class : Nat]

Fresh == [cmds |-> <<>>, tool |-> FALSE, logins |-> 0]
NoRow == [cmds |-> {}, logins |-> 0, score |-> 0, class |-> 0]

Typed(p) == {p.cmds[k] : k \in 1 .. Len(p.cmds)}

\* BehavioralProfiler.update.  A long command is not found again in what is kept of it.
Update(p, e) ==
    [cmds   |-> IF e = Login \/ e \in Typed(p) \ Long \/ Len(p.cmds) >= MemMax THEN p.cmds
                ELSE Append(p.cmds, e),
     tool   |-> p.tool \/ (e # Login /\ e \in Tools),
     logins |-> IF e = Login THEN p.logins + 1 ELSE p.logins]

\* BehavioralProfiler.score, in tenths.
Score(p) == Least(50 * Len(p.cmds), 250) + (IF p.tool THEN 220 ELSE 0)
            + Least(15 * p.logins, 200)

\* BehavioralProfiler.classify, as a position in CLASS_RANK.
Classify(p) == IF p.tool THEN 6
               ELSE IF p.cmds # <<>> THEN 5
               ELSE IF p.logins >= LoginThreshold THEN 4
               ELSE 2

Snapshot(p) == [cmds   |-> {p.cmds[k] : k \in 1 .. Least(SnapMax, Len(p.cmds))},
                logins |-> p.logins, score |-> Score(p), class |-> Classify(p)]

\* Mutant: the row is overwritten.
MergedOver(old, new) == {new}

\* What persist_profile's ON CONFLICT makes of a row: a maximum of every number, and of
\* the union of the commands as many as there is room for, whichever.  (avg_session_s and
\* the rest of the detail blob are overwritten; nothing here is about them.)
Merged(old, new) ==
    {[cmds   |-> C,
      logins |-> Greatest(old.logins, new.logins),
      score  |-> Greatest(old.score, new.score),
      class  |-> Greatest(old.class, new.class)] :
        C \in {D \in SUBSET (old.cmds \union new.cmds) :
                  \/ D = old.cmds \union new.cmds /\ Cardinality(D) <= RowMax
                  \/ D # old.cmds \union new.cmds /\ Cardinality(D) = RowMax}}

Marked(old, new) == [score |-> Greatest(old.score, new.score),
                     class |-> Greatest(old.class, new.class)]

Covers(r, s) == /\ s.cmds \subseteq r.cmds \/ Cardinality(r.cmds) >= RowMax
                /\ s.logins <= r.logins
                /\ s.score  <= r.score
                /\ s.class  <= r.class

\* History: what is due of the addresses in S is given up.
Lose(S, cause) == lost' = [ip \in Ips |-> IF ip \in S THEN cause ELSE lost[ip]]

Fault == /\ faults < MaxFaults
         /\ faults' = faults + 1

-----------------------------------------------------------------------------
(* handle_event *)

Consuming == phase \in {"up", "stopping"}

\* History: an event more.
Remembered(h, e) ==
    [cmds   |-> IF e = Login THEN h.cmds ELSE h.cmds \union {e},
     logins |-> IF e = Login THEN h.logins + 1 ELSE h.logins]

\* An event is at hand.  The detectors look at it first, and writing what they find
\* gives other tasks a turn.
Receive(ip, e) ==
    /\ Consuming
    /\ hand = NoIp
    /\ e \in Sends[ip]
    /\ e = Login => seen[ip].logins < MaxLogins
    /\ hand' = ip
    /\ event' = e
    /\ UNCHANGED <<seen, tables, phase, profile, live, colder, dirty, flush, history, faults>>

\* The n addresses heard of least recently.
Coldest(n) == {C \in SUBSET live : /\ Cardinality(C) = n
                                   /\ \A p \in colder : p[2] \in C => p[1] \in C}

\* _evict_profiles: a tenth, at least one, to make room for one more.
Tenth == Least(Cardinality(live), Greatest(1, ProfileMax \div 10))

\* Mutant: the bound is looked at after the profile has been made.
EvictionsLate(ip) == IF Cardinality(live) > ProfileMax THEN Coldest(Tenth) ELSE {{}}

Evictions(ip) == IF ip \notin live /\ Cardinality(live) >= ProfileMax
                 THEN Coldest(Tenth) ELSE {{}}

\* Profiles go: what is left of self.profiles.
Left(gone)       == live \ gone
LeftColder(gone) == {p \in colder : p[1] \notin gone /\ p[2] \notin gone}

Fold ==
    /\ hand # NoIp
    /\ \E gone \in Evictions(hand) :
          /\ live' = Left(gone) \union {hand}
          /\ colder' = LeftColder(gone \union {hand})
                         \union (Left(gone \union {hand}) \X {hand})
          /\ profile' = [ip \in Ips |-> IF ip = hand THEN Update(profile[ip], event)
                                        ELSE IF ip \in gone THEN Fresh
                                        ELSE profile[ip]]
          /\ dirty' = (dirty \ gone) \union {hand}
          /\ lost' = [ip \in Ips |-> IF ip = hand THEN "none"
                                     ELSE IF ip \in gone \intersect (dirty \union rest) THEN "gone"
                                     ELSE lost[ip]]
    /\ owed' = [owed EXCEPT ![hand] = Snapshot(profile'[hand])]
    /\ seen' = [seen EXCEPT ![hand] = Remembered(@, event)]
    /\ hand' = NoIp
    /\ event' = Login
    /\ UNCHANGED <<tables, phase, flush, faults>>

\* gc_state on the status tick: profiles idle for a day go, dirty or not.  (An address
\* stays dirty that long only while its writes keep failing.)
Collect(stale) ==
    /\ Consuming
    /\ stale \intersect (dirty \union rest \union {target}) # {} => faults > 0
    /\ live' = Left(stale)
    /\ colder' = LeftColder(stale)
    /\ profile' = [ip \in Ips |-> IF ip \in stale THEN Fresh ELSE profile[ip]]
    /\ Lose(stale \intersect (dirty \union rest), "gone")
    /\ UNCHANGED <<seen, tables, phase, hand, event, dirty, flush, owed, faults>>

-----------------------------------------------------------------------------
(* flush_profiles *)

FlushGone == /\ at' = "sleep"
             /\ rest' = {}
             /\ target' = NoIp
             /\ snap' = NoRow

InHand == rest \union ({target} \ {NoIp})

\* The loop over what is left of the dirty set, up to its next await: an address whose
\* profile has gone is passed over.  The last flush of all ends main().
Loop(left) ==
    \/ \E ip \in left \intersect live, skipped \in SUBSET (left \ live) :
          /\ at' = "row"
          /\ rest' = left \ (skipped \union {ip})
          /\ target' = ip
          /\ snap' = Snapshot(profile[ip])
          /\ phase' = phase
    \/ /\ left \intersect live = {}
       /\ FlushGone
       /\ phase' = IF phase = "flushing" THEN "stopped" ELSE phase

FlushStart ==
    /\ Consuming \/ phase = "flushing"
    /\ at = "sleep"
    /\ Loop(dirty)
    /\ dirty' = {}
    /\ UNCHANGED <<seen, tables, hand, event, profile, live, colder, history, faults>>

\* persist_profile, first statement.
WriteRow ==
    /\ at = "row"
    /\ \E r \in Merged(row[target], snap) : row' = [row EXCEPT ![target] = r]
    /\ at' = "mark"
    /\ UNCHANGED <<seen, ips, phase, memory, rest, target, snap, history, faults>>

\* Mutant: an address is clean after its write, not from the time of its snapshot.
WriteMarkCleans ==
    /\ at = "mark"
    /\ ips' = [ips EXCEPT ![target] = Marked(@, snap)]
    /\ Loop(rest)
    /\ dirty' = dirty \ {target}
    /\ UNCHANGED <<seen, row, hand, event, profile, live, colder, history, faults>>

\* Its second statement.
WriteMark ==
    /\ at = "mark"
    /\ ips' = [ips EXCEPT ![target] = Marked(@, snap)]
    /\ Loop(rest)
    /\ UNCHANGED <<seen, row, memory, history, faults>>

\* What a statement that did not return leaves behind: nothing, or its effect.
Effect == \/ UNCHANGED tables
          \/ /\ at = "row"
             /\ \E r \in Merged(row[target], snap) : row' = [row EXCEPT ![target] = r]
             /\ UNCHANGED ips
          \/ /\ at = "mark"
             /\ ips' = [ips EXCEPT ![target] = Marked(@, snap)]
             /\ UNCHANGED row

\* Mutant: a transient failure is taken for a permanent one.
WriteFailsForgets ==
    /\ at \in {"row", "mark"}
    /\ Fault
    /\ Effect
    /\ Loop(rest)
    /\ UNCHANGED <<seen, memory, history>>

\* The database was unavailable: the address is dirty again, to no avail if its profile
\* has gone meanwhile.
WriteFails ==
    /\ at \in {"row", "mark"}
    /\ Fault
    /\ Effect
    /\ dirty' = dirty \union {target}
    /\ Lose({target} \ live, "gone")
    /\ Loop(rest)
    /\ UNCHANGED <<seen, hand, event, profile, live, colder, owed>>

\* It refused the statement: another event of the address makes it dirty again.
WriteRejected ==
    /\ at \in {"row", "mark"}
    /\ Fault
    /\ Lose({target} \ dirty, "rejected")
    /\ Loop(rest)
    /\ UNCHANGED <<seen, tables, memory, owed>>

-----------------------------------------------------------------------------
(* main *)

\* SIGTERM, or one of the loops has ended.
Stop ==
    /\ phase = "up"
    /\ phase' = "stopping"
    /\ UNCHANGED <<seen, tables, memory, flush, history, faults>>

\* The consumer has returned, between two events, or it was waited for ten seconds.  Then
\* every task is cancelled where it stands: an event is dropped, the flush gives up what
\* it has in hand.
Cancel ==
    /\ phase = "stopping"
    /\ phase' = "flushing"
    /\ hand' = NoIp
    /\ event' = Login
    /\ IF at \in {"row", "mark"} THEN Effect ELSE UNCHANGED tables
    /\ Lose(InHand \ dirty, "cut")
    /\ FlushGone
    /\ UNCHANGED <<seen, profile, live, colder, dirty, owed, faults>>

\* The last flush is given fifteen seconds.
FlushTimeout ==
    /\ phase = "flushing"
    /\ at \in {"row", "mark"}
    /\ Fault
    /\ phase' = "stopped"
    /\ Effect
    /\ Lose(InHand \ dirty, "cut")
    /\ FlushGone
    /\ UNCHANGED <<seen, memory, owed>>

EndProcess ==
    /\ phase' = "down"
    /\ hand' = NoIp
    /\ profile' = [ip \in Ips |-> Fresh]
    /\ live' = {}
    /\ colder' = {}
    /\ dirty' = {}
    /\ event' = Login
    /\ FlushGone
    /\ Lose(dirty \union InHand, "ended")
    /\ owed' = owed

Exit ==
    /\ phase = "stopped"
    /\ EndProcess
    /\ UNCHANGED <<seen, tables, faults>>

\* os._exit from the watchdog, SIGKILL: what is in memory goes.
Kill ==
    /\ phase \in {"up", "stopping", "flushing", "stopped"}
    /\ Fault
    /\ IF at \in {"row", "mark"} THEN Effect ELSE UNCHANGED tables
    /\ EndProcess
    /\ UNCHANGED seen

Boot ==
    /\ phase = "down"
    /\ phase' = "up"
    /\ UNCHANGED <<seen, tables, memory, flush, history, faults>>

ProfileInit ==
    /\ seen = [ip \in Ips |-> [cmds |-> {}, logins |-> 0]]
    /\ row = [ip \in Ips |-> NoRow]
    /\ ips = [ip \in Ips |-> [score |-> 0, class |-> 1]]
    /\ phase = "up"
    /\ hand = NoIp
    /\ event = Login
    /\ profile = [ip \in Ips |-> Fresh]
    /\ live = {}
    /\ colder = {}
    /\ dirty = {}
    /\ at = "sleep"
    /\ rest = {}
    /\ target = NoIp
    /\ snap = NoRow
    /\ owed = [ip \in Ips |-> NoRow]
    /\ lost = [ip \in Ips |-> "none"]
    /\ faults = 0

-----------------------------------------------------------------------------
(* Specification *)

HandleEvent == Fold \/ \E ip \in Ips, e \in Cmds \union {Login} : Receive(ip, e)
GcState     == \E n \in 1 .. Cardinality(live) : \E stale \in Coldest(n) : Collect(stale)
Shutdown    == Cancel \/ Exit
Flush       == FlushStart \/ WriteRow \/ WriteMark

ProfileNext ==
    \/ HandleEvent
    \/ GcState
    \/ Flush \/ WriteFails \/ WriteRejected
    \/ Stop \/ Shutdown \/ FlushTimeout \/ Kill \/ Boot

ProfileSpec == ProfileInit /\ [][ProfileNext]_storeVars

\* asyncio runs the flush loop whenever it is ready, and the waits of main() are bounded.
\* No event need arrive, and nobody need start the process again.
FairProfileSpec ==
    /\ ProfileSpec
    /\ WF_storeVars(Flush)
    /\ WF_storeVars(Shutdown)

-----------------------------------------------------------------------------
(* Properties *)

\* Every variable is in range, and no more than PROFILE_MAX_IPS profiles are in memory
\* (engine.py:55, "a hard ceiling").
ProfileTypeOK ==
    /\ seen \in [Ips -> [cmds : SUBSET Cmds, logins : Nat]]
    /\ row \in [Ips -> Rows]
    /\ ips \in [Ips -> Marks]
    /\ phase \in {"down", "up", "stopping", "flushing", "stopped"}
    /\ hand \in Ips \union {NoIp}
    /\ event \in Cmds \union {Login}
    /\ profile \in [Ips -> Profiles]
    /\ at \in {"sleep", "row", "mark"}
    /\ target \in Ips \union {NoIp}
    /\ (target = NoIp) <=> (at = "sleep")
    /\ snap \in Rows
    /\ {dirty, rest} \subseteq SUBSET Ips
    /\ owed \in [Ips -> Rows]
    /\ lost \in [Ips -> Causes]
    /\ at = "sleep" => rest = {}
    /\ faults \in 0 .. MaxFaults
    /\ live \subseteq Ips
    /\ colder \subseteq live \X live
    /\ IsFiniteSet(live) /\ Cardinality(live) <= ProfileMax
    /\ \A ip \in Ips \ live : profile[ip] = Fresh

\* The rows say what the last event of ip made of its profile.
Saved(ip) == /\ Covers(row[ip], owed[ip])
             /\ ips[ip].score >= owed[ip].score
             /\ ips[ip].class >= owed[ip].class

\* What the last event of an address made of its profile, whether that is still in memory
\* or not, is in the rows, or in a dirty profile, or in the snapshot being written; or it
\* is on record who gave it up: an eviction or a collection of a dirty profile, a refusal,
\* a cancelled flush, the end of the process.  However these and further events fall
\* between the swap of the dirty set and the two statements (engine.py:241-257).
UnsavedTracked ==
    \A ip \in Ips : \/ Saved(ip)
                    \/ ip \in live \intersect (dirty \union rest)
                    \/ ip = target /\ snap = owed[ip]
                    \/ lost[ip] # "none"

\* "A profile evicted early is not lost work: it has already been persisted"
\* (engine.py:151-155).  The code does not keep it: what is evicted may be dirty, and
\* _dirty.discard forgets that (158-160).  No run checks it: profiles_evict.cfg, without a
\* fault, finds it violated.
EvictedSaved == \A ip \in Ips : lost[ip] = "gone" => Saved(ip)

\* The same at the end of an orderly stop in which no statement failed and nothing timed
\* out: everything in memory is in the database.  "Persisting them here is the difference
\* between a clean restart and one that quietly loses the last few seconds of every active
\* attacker" (engine.py:625-628).  The code does not keep it.
StopSavesAll ==
    phase = "stopped" /\ faults = 0 => \A ip \in live : Saved(ip)

Ledger == INSTANCE ProfileLedger

\* A row only grows and says nothing its events did not, across restarts, evictions,
\* retries and statements whose outcome is unknown (persist_profile, engine.py:192-232).
ProfileLedgerKept == Ledger!LedgerSpec

\* What is dirty is written, or given up for a cause that is on record.
EventuallySaved ==
    \A ip \in Ips : ip \in dirty ~> Saved(ip) \/ lost[ip] # "none"
==============================================================================
