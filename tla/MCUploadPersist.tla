--------------------------- MODULE MCUploadPersist ---------------------------
\* Instances of UploadPersist for TLC.
EXTENDS UploadPersist

CONSTANTS t1, t2

SingleBatch == {<<t1>>}
PairBatch == {<<t1, t2>>}
=============================================================================
