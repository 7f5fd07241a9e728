----------------------------- MODULE MCLppMain -----------------------------
(***************************************************************************)
(* Command lines and libraries to check LppMain with.                      *)
(***************************************************************************)
EXTENDS LppMain

MCPinnings == { << >>, << 0 >>, << 1, 0 >> }

MCLib == [opens |-> TRUE, symbols |-> {}, version |-> 2, period |-> 0,
          devices |-> 1, channels |-> 1]

Mandatory == {"init", "fini", "version", "start", "stop"}

MCLibraries ==
  [ energymsr |-> [MCLib EXCEPT
      !.symbols = Mandatory \cup {"label", "update", "period", "nbDevices",
                                  "nbChannels"},
      !.period = 20, !.devices = 2, !.channels = 3],
    wallclock |-> [MCLib EXCEPT !.symbols = Mandatory \cup {"label"}],
    energymic |-> [MCLib EXCEPT
      !.symbols = {"evaluationInit", "evaluationClose", "evaluationStart",
                   "evaluationStop"}],
    no_label |-> [MCLib EXCEPT !.symbols = Mandatory],
    no_update |-> [MCLib EXCEPT
      !.symbols = Mandatory \cup {"label", "period"}, !.period = 10],
    missing |-> [MCLib EXCEPT !.opens = FALSE] ]

MCProbesPaths ==
  { << "energymic" >>, << "no_label" >>, << "no_update" >>,
    << "missing", "wallclock" >>, << "wallclock", "wallclock" >> }

MCDefaultProbes == << "energymsr", "wallclock" >>

MCPrograms ==
  { << >>, << << >>, << "arg" >> >>, << << "prog", "-x" >>, << "arg" >> >>,
    << << "kernel.s" >> >> }
=============================================================================
