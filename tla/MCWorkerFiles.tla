---------------------------- MODULE MCWorkerFiles ----------------------------
(* Small instances of WorkerFiles for TLC: every job of NumShards shards   *)
(* with at most MaxLength words each.                                      *)
EXTENDS WorkerFiles

CONSTANTS v1, v2, NumShards, MaxLength
TwoWorkers == {v1, v2}
AllInputs  == [1 .. NumShards -> UNION {[1 .. n -> Word] : n \in 0 .. MaxLength}]
=============================================================================
