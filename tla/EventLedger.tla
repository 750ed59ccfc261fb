----------------------------- MODULE EventLedger -----------------------------
(***************************************************************************)
(* What the ingestor promises its readers, whoever replays what and        *)
(* whichever call fails: a row is counted at most once against its source  *)
(* address, only a counted row reaches the bus, by one publication, and an *)
(* address is announced to enrichment by one announcement, after one of    *)
(* its rows was published.  Nothing is taken back.                         *)
(*                                                                         *)
(* A publication is one call; what a reader of the stream finds of it are  *)
(* as many entries as the client sent the command, at most Sends.          *)
(*                                                                         *)
(* It says nothing about progress: a row may stop at any of the stages.    *)
(***************************************************************************)
EXTENDS Naturals

CONSTANTS Rows,         \* rows of events, by key
          Ips,          \* source addresses
          SourceIp,     \* [Rows -> Ips]: the source address of a row
          Sends         \* how often a client sends one command, at most

VARIABLES stored,    \* rows in events
          counted,   \* rows counted in their address's ips row
          ipCount,   \* [Ips -> Nat]: the count in that row
          published, \* [Rows -> Nat]: entries on the events stream
          announced  \* [Ips -> Nat]: entries on the enrich:queue stream

ledger == <<stored, counted, ipCount, published, announced>>

LInit == /\ stored = {}
         /\ counted = {}
         /\ ipCount = [ip \in Ips |-> 0]
         /\ published = [w \in Rows |-> 0]
         /\ announced = [ip \in Ips |-> 0]

Store(w) == /\ w \notin stored
            /\ stored' = stored \union {w}
            /\ UNCHANGED <<counted, ipCount, published, announced>>

Count(w) == /\ w \in stored \ counted
            /\ counted' = counted \union {w}
            /\ ipCount' = [ipCount EXCEPT ![SourceIp[w]] = @ + 1]
            /\ UNCHANGED <<stored, published, announced>>

Publish(w) == /\ w \in counted
              /\ published[w] = 0
              /\ \E n \in 1 .. Sends : published' = [published EXCEPT ![w] = n]
              /\ UNCHANGED <<stored, counted, ipCount, announced>>

Announce(ip) == /\ announced[ip] = 0
                /\ \E w \in Rows : SourceIp[w] = ip /\ published[w] > 0
                /\ \E n \in 1 .. Sends : announced' = [announced EXCEPT ![ip] = n]
                /\ UNCHANGED <<stored, counted, ipCount, published>>

LNext == \/ \E w \in Rows : Store(w) \/ Count(w) \/ Publish(w)
         \/ \E ip \in Ips : Announce(ip)

LSpec == LInit /\ [][LNext]_ledger
==============================================================================
