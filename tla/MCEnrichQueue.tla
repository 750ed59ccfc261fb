---------------------------- MODULE MCEnrichQueue ----------------------------
(* Small instances of EnrichQueue.                                            *)
EXTENDS EnrichQueue

CONSTANT MaxEntries \* bound: entries in the stream, pending or in hand

FewEntries == Cardinality(Waiting \union pending \union Holding) <= MaxEntries
==============================================================================
