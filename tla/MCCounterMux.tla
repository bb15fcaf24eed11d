---------------------------- MODULE MCCounterMux ----------------------------
(* Instantiates CounterMux for TLC: two threads, two event codes per       *)
(* domain (two VT-d bases over AFU ids 0 and 1), the two ports of          *)
(* PERF_MAX_PORT_NUM and the aggregate root scope.                         *)
EXTENDS CounterMux, TLC

MCCacheEvents == {0, 1}      \* CACHE_RD_HIT, CACHE_WR_HIT
MCFabEvents == {0, 1}        \* FAB_PCIE0_RD, FAB_PCIE0_WR
MCVtdBases == {0, 6}         \* VTD_AFU0_MEM_RD_TRANS, VTD_AFU0_TLB_WR_TRANS (codes 0..7)
MCPorts == {0, 1}            \* ids 0 .. PERF_MAX_PORT_NUM - 1

ThreadSymmetry == Permutations(Threads)
=============================================================================
