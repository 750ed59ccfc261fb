------------------------------- MODULE MCIngest -------------------------------
(* Small instances of Ingest.  Records 1 and 2 come from one address, the     *)
(* case in which consumers meet in the ips table; later records from another, *)
(* where there is one.  Record 2 has no timestamp of its own.  Consumers are  *)
(* interchangeable.                                                           *)
EXTENDS Ingest, TLC

First == CHOOSE ip \in Ips : TRUE
Other == IF Ips = {First} THEN First ELSE CHOOSE ip \in Ips : ip # First

SourceOf == [r \in Records |-> IF r <= 2 THEN First ELSE Other]

AnyStamp == [r \in Records |-> IF r = 2 THEN Stamps ELSE {CHOOSE t \in Stamps : TRUE}]

ConsumerSymmetry == Permutations(Consumers)
==============================================================================
