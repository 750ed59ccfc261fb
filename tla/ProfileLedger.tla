---------------------------- MODULE ProfileLedger ----------------------------
(***************************************************************************)
(* What analytics promises of behavior_profiles: a row only grows, and it  *)
(* never says more of an address than its events did.  persist_profile's   *)
(* comment: "Merge, never overwrite".                                      *)
(***************************************************************************)
EXTENDS Integers, FiniteSets

CONSTANTS Ips,    \* source addresses
          Cmds,   \* commands an attacker may type
          RowMax  \* the commands a row holds at most

VARIABLES seen, \* [Ips -> what the engine has handled of the address]
          row   \* [Ips -> its row in behavior_profiles]

\* A row may lose a command only for want of room.
Grows(old, new) ==
    /\ old.cmds \subseteq new.cmds \/ Cardinality(new.cmds) >= RowMax
    /\ old.logins <= new.logins
    /\ old.score  <= new.score
    /\ old.class  <= new.class

Honest(ip) ==
    /\ row[ip].cmds \subseteq seen[ip].cmds
    /\ row[ip].logins <= seen[ip].logins

Seen(ip) ==
    /\ seen' # seen
    /\ \A other \in Ips \ {ip} : seen'[other] = seen[other]
    /\ seen[ip].cmds \subseteq seen'[ip].cmds
    /\ seen[ip].logins <= seen'[ip].logins
    /\ row' = row

Written(ip) ==
    /\ seen' = seen
    /\ row' # row
    /\ \A other \in Ips \ {ip} : row'[other] = row[other]
    /\ Grows(row[ip], row'[ip])
    /\ Honest(ip)'

LedgerInit == \A ip \in Ips : /\ seen[ip].cmds = {} /\ seen[ip].logins = 0
                              /\ row[ip].cmds = {}  /\ row[ip].logins = 0
LedgerNext == \E ip \in Ips : Seen(ip) \/ Written(ip)
LedgerSpec == LedgerInit /\ [][LedgerNext]_<<seen, row>>
==============================================================================
