----------------------------- MODULE MCWorkQueue -----------------------------
(* Constants for model checking WorkQueue.                                 *)
EXTENDS WorkQueue

CONSTANTS p1, p2, p3, a, b, c

ScanChunks == <<a, b, c>>
ScanBatches == {ScanChunks}
SerialBatches == {<<a, b>>, <<c>>}
SerialChunks == <<c>>
=============================================================================
