---------------------------- MODULE MCProfileStore ----------------------------
(* Small instances of ProfileStore.  One address does everything, so that its *)
(* row meets snapshots of several lives; the others only log in, and are there *)
(* to fill the memory.                                                         *)
EXTENDS ProfileStore

CONSTANT Busy \* the address that does everything

SomeSend == [ip \in Ips |-> IF ip = Busy THEN Cmds \union {Login} ELSE {Login}]
===============================================================================
