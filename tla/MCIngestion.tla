----------------------------- MODULE MCIngestion -----------------------------
EXTENDS Ingestion

\* Two good contents that share a key, and hold one of no registered meter.
MCKindOf == [c1 |-> "good", c2 |-> "good", bad |-> "malformed",
             torn |-> "unreadable", odd |-> "unstorable"]
MCRowsOf == [c1 |-> <<"k1", "k1", "k0">>, c2 |-> <<"k1", "k2">>, bad |-> <<>>,
             torn |-> <<>>, odd |-> <<"k2">>]
MCHolds == [f1 |-> {"c1"}, f2 |-> {"c1", "c2", "bad", "torn", "odd"}]
=============================================================================
