-------------------------- MODULE SynchronizedRuns --------------------------
(***************************************************************************)
(* What a measured experiment of lPowerProbe promises, whatever the        *)
(* threads, processes and semaphores behind it do: the copies of the       *)
(* measured program are run in rounds, one measurement per round; in a     *)
(* round no copy starts before every copy has reached the starting line;   *)
(* copies only run while the measurement of their round is open; and the   *)
(* results are saved after the last round, one measurement per round.      *)
(* ProgramRunner is shown to implement this specification.                 *)
(***************************************************************************)
EXTENDS Naturals

CONSTANTS Copies,   \* the copies of the program that run side by side
          Rounds    \* the measurements of the experiment

VARIABLES
  state,     \* "running", "saved" (results written) or "aborted"
  open,      \* is the measurement of the current round open
  copy,      \* per copy: "waiting", "lined_up", "running" or "ended"
  finished   \* the measurements closed so far

vars == << state, open, copy, finished >>

Init ==
  /\ state = "running"
  /\ open = FALSE
  /\ copy = [c \in Copies |-> "waiting"]
  /\ finished = 0

Open ==
  /\ state = "running"
  /\ ~open
  /\ finished < Rounds
  /\ open' = TRUE
  /\ UNCHANGED << state, copy, finished >>

\* A copy may line up before the measurement opens.
LineUp(c) ==
  /\ copy[c] = "waiting"
  /\ copy' = [copy EXCEPT ![c] = "lined_up"]
  /\ UNCHANGED << state, open, finished >>

\* The start is common: nobody runs while somebody is still waiting. A
\* program that cannot be executed ends as it starts.
Start(c) ==
  /\ open
  /\ copy[c] = "lined_up"
  /\ \A d \in Copies : copy[d] # "waiting"
  /\ \E s \in {"running", "ended"} : copy' = [copy EXCEPT ![c] = s]
  /\ UNCHANGED << state, open, finished >>

End(c) ==
  /\ copy[c] = "running"
  /\ copy' = [copy EXCEPT ![c] = "ended"]
  /\ UNCHANGED << state, open, finished >>

\* The measurement closes when every copy has ended; by then a copy of the
\* next round may have lined up, but none has started.
Close ==
  /\ state = "running"
  /\ open
  /\ \A c \in Copies : copy[c] = "ended"
  /\ open' = FALSE
  /\ copy' \in [Copies -> {"waiting", "lined_up"}]
  /\ finished' = finished + 1
  /\ UNCHANGED state

Save ==
  /\ state = "running"
  /\ ~open
  /\ finished = Rounds
  /\ state' = "saved"
  /\ UNCHANGED << open, copy, finished >>

\* The experiment may be given up at any time; the copies live on.
Abort ==
  /\ state = "running"
  /\ state' = "aborted"
  /\ UNCHANGED << open, copy, finished >>

Next ==
  \/ Open \/ Close \/ Save \/ Abort
  \/ \E c \in Copies : LineUp(c) \/ Start(c) \/ End(c)

Spec == Init /\ [][Next]_vars
=============================================================================
