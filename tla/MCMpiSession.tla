---------------------------- MODULE MCMpiSession ----------------------------
(***************************************************************************)
(* Command lines to check MpiSession with: a run on two nodes, on this one,*)
(* on the other; an unknown option; and an argument of the program that    *)
(* looks like an option of mpirun.                                         *)
(***************************************************************************)
EXTENDS MpiSession

MCCommandLines ==
  { << "-n", "4", "prog" >>, << "-host", "here", "-n", "2", "prog" >>,
    << "-host", "there", "prog" >>, << "-x", "prog" >>,
    << "-host", "here", "prog", "-H", "there" >>,
    << "prog", "-n", "-H", "there" >>, << "-n", "4" >> }
=============================================================================
