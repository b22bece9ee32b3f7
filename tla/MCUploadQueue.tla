--------------------------- MODULE MCUploadQueue ---------------------------
(* Small instances of UploadQueue for TLC. *)
EXTENDS UploadQueue

CONSTANTS t1, t2

SingleBatches == {<<t>> : t \in Tasks}
Pair == {<<t1, t2>>}

=============================================================================
