----------------------------- MODULE MCBenchmark -----------------------------
(* Two satellites and two benchmarks of two spans.                          *)
EXTENDS Benchmark

MCNumPorts == 2
MCRepeat == 2
MCMaxTests == 2
MCMaxResent == 1
=============================================================================
