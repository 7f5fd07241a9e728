------------------------------- MODULE Clocks -------------------------------
(***************************************************************************)
(* The probes libwallclock and libtimer: start keeps the time of a clock,  *)
(* stop makes the difference. gettimeofday can be set while the program    *)
(* runs; the cycle counter has CycleWrap values (2^32 or 2^64).            *)
(***************************************************************************)
EXTENDS Integers

CONSTANTS
  CycleWrap,   \* values of the cycle counter
  MaxNow,      \* bound on the time
  MaxSteps     \* bound on how often the wall clock is set

ASSUME ClocksAssumption ==
  CycleWrap \in Nat \ {0} /\ MaxNow \in Nat /\ MaxSteps \in Nat

VARIABLES
  clk,         \* what the probes do
  now,         \* the time since the system started
  offset,      \* of the wall clock
  steps,       \* how often it was set
  data,        \* libwallclock's double
  tick,        \* libtimer's SData
  since        \* now and steps when start was called

clockVars == << clk, now, offset, steps, data, tick, since >>

ClocksInit ==
  /\ clk = "off" /\ now = 0 /\ offset = 0 /\ steps = 0
  /\ data \in {0, 1} /\ tick = data     \* memory from malloc
  /\ since = [now |-> 0, steps |-> 0]

getTimeStamp == now + offset
\* The processor's counter, and its value.
rdtscll == now % CycleWrap
getticks == rdtscll

InitBoth ==
  /\ clk = "off" /\ clk' = "idle"
  /\ UNCHANGED << now, offset, steps, data, tick, since >>

\* As if start did not overwrite the last result.
ClocksStartAdds ==
  /\ clk = "idle" /\ clk' = "on"
  /\ data' = data - getTimeStamp
  /\ tick' = getticks
  /\ since' = [now |-> now, steps |-> steps]
  /\ UNCHANGED << now, offset, steps >>

ClocksStart ==
  /\ clk = "idle" /\ clk' = "on"
  /\ data' = -getTimeStamp
  /\ tick' = getticks
  /\ since' = [now |-> now, steps |-> steps]
  /\ UNCHANGED << now, offset, steps >>

\* since becomes what has passed since then.
ClocksStop ==
  /\ clk = "on" /\ clk' = "idle"
  /\ data' = data + getTimeStamp
  /\ tick' = getticks - tick
  /\ since' = [now |-> now - since.now, steps |-> steps - since.steps]
  /\ UNCHANGED << now, offset, steps >>

FiniBoth ==
  /\ clk = "idle" /\ clk' = "over"
  /\ UNCHANGED << now, offset, steps, data, tick, since >>

TimePasses ==
  /\ clk \in {"idle", "on"} /\ now < MaxNow
  /\ now' = now + 1
  /\ UNCHANGED << clk, offset, steps, data, tick, since >>

SetWallClock ==
  /\ clk \in {"idle", "on"} /\ steps < MaxSteps
  /\ offset' \in {-2, 2}
  /\ steps' = steps + 1
  /\ UNCHANGED << clk, now, data, tick, since >>

ClocksNext ==
  \/ InitBoth \/ ClocksStart \/ ClocksStop \/ FiniBoth
  \/ TimePasses \/ SetWallClock

ClocksSpec == ClocksInit /\ [][ClocksNext]_clockVars

-----------------------------------------------------------------------------
(* Properties.                                                             *)

\* In every measurement after the first, too: the wall clock gives the time
\* between start and stop unless it was set in between, and the cycle counter
\* gives it up to wraps, of which it does not correct any.
ElapsedTime ==
  clk = "idle" /\ since.now > 0 =>
    /\ since.steps = 0 => data = since.now
    /\ (tick - since.now) % CycleWrap = 0
=============================================================================
