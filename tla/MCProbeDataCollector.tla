------------------------ MODULE MCProbeDataCollector ------------------------
(***************************************************************************)
(* Lists of probes to check ProbeDataCollector with.                       *)
(***************************************************************************)
EXTENDS ProbeDataCollector

\* A probe without period, and two whose periods have a greatest common
\* divisor below the tolerance of updateThread.
FastPeriods == << 0, 4, 6 >>

\* The same with a greatest common divisor of 10: as libenergymsr's period of
\* 20 s alone, a multiple of it is never within the tolerance of the next.
SlowPeriods == << 0, 20, 30 >>
=============================================================================
