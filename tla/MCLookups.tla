------------------------------ MODULE MCLookups ------------------------------
(* Small instances of Lookups.                                                *)
EXTENDS Lookups

OneEach == [p \in Paid |-> 1]

\* Only GreyNoise ever gives a verdict.
FewVerdicts == [p \in Tier2 |-> IF p = "greynoise" THEN {"clean"} ELSE {}]

\* Each of the two providers alone, and an address that a feed lists.
SomeSetups == {[keys |-> {"virustotal"}, listed |-> {}],
               [keys |-> {"abuseipdb"},  listed |-> Addrs]}
==============================================================================
