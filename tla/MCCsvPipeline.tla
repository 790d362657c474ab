---------------------------- MODULE MCCsvPipeline ----------------------------
(* Instances of CsvPipeline for TLC: a file of two chunks, two workers.       *)
EXTENDS CsvPipeline, TLC

CONSTANTS c1, c2, w1, w2

TwoChunks == {c1, c2}
TwoWorkers == {w1, w2}
AllModes == {"single", "stream", "batch"}
OneTask == {"single"}
=============================================================================
