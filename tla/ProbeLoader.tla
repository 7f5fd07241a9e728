---------------------------- MODULE ProbeLoader ----------------------------
(***************************************************************************)
(* Probes and their loading: ProbeLoader tries every library as a probe of *)
(* version 2 and, when that fails, of version 1; the destructor of Probe   *)
(* calls the library's fini and closes it. A library is what dlopen and    *)
(* dlsym tell of it: external.                                             *)
(*                                                                         *)
(* The pointers of a probe are the symbols of its library; a pointer that  *)
(* is NULL is a symbol that is missing. Whether init returns NULL is open, *)
(* every time.                                                             *)
(***************************************************************************)
EXTENDS Integers, SequencesExt

CONSTANTS
  Libraries,      \* what there is on each path: a function to records
  DefaultProbes   \* m_defaultsProbes

Paths == DOMAIN Libraries
Symbols == {"init", "fini", "version", "label", "start", "stop", "update",
            "period", "nbDevices", "nbChannels", "evaluationInit",
            "evaluationClose", "evaluationStart", "evaluationStop"}

ASSUME LibrariesAssumption ==
  /\ \A path \in Paths :
       Libraries[path] \in [opens : BOOLEAN, symbols : SUBSET Symbols,
                            version : Nat, period : Nat,
                            devices : Nat, channels : Nat]
  /\ DefaultProbes \in Seq(Paths)

VARIABLES
  loader,    \* what ProbeLoader or a destructor does
  paths,     \* the paths that are left to load
  probes,    \* m_probes: paths and versions
  opened,    \* dlopen without a dlclose, for each path
  inits,     \* calls of init that gave a probe
  finis      \* calls of fini

LoaderVars == << loader, paths, probes, opened, inits, finis >>

LoaderInit ==
  /\ loader = "off" /\ paths = << >> /\ probes = << >>
  /\ opened = [path \in Paths |-> 0]
  /\ inits = [path \in Paths |-> 0] /\ finis = [path \in Paths |-> 0]

-----------------------------------------------------------------------------
(* The constructors.                                                       *)

Has(path, symbols) == symbols \subseteq Libraries[path].symbols

\* The symbols the base class asks for.
Base(version) == IF version = 2 THEN {"init", "fini"}
                                ELSE {"evaluationInit", "evaluationClose"}

Period(path) == IF Has(path, {"period"}) THEN Libraries[path].period ELSE 0

BaseLoads(path, version) == Libraries[path].opens /\ Has(path, Base(version))

\* *loadSymbol("label", FACULTATIVE), after the version has been looked at.
ReadsNull(path) ==
  /\ BaseLoads(path, 2) /\ Has(path, {"version"})
  /\ Libraries[path].version = 2
  /\ ~Has(path, {"label"})

\* Without the last test of ProbeV2's constructor.
AcceptsNoUpdate(path, version) ==
  /\ BaseLoads(path, version)
  /\ IF version = 2
       THEN /\ Has(path, {"version", "start", "stop"})
            /\ Libraries[path].version = 2
       ELSE Has(path, {"evaluationStart", "evaluationStop"})

Accepts(path, version) ==
  /\ BaseLoads(path, version)
  /\ IF version = 2
       THEN /\ Has(path, {"version", "start", "stop"})
            /\ Libraries[path].version = 2
            /\ Period(path) # 0 => Has(path, {"update"})
       ELSE Has(path, {"evaluationStart", "evaluationStop"})

-----------------------------------------------------------------------------
(* loadProbes.                                                             *)

BeginLoad(given) ==
  /\ loader = "off" /\ loader' = "v2"
  /\ paths' = IF given = << >> THEN DefaultProbes ELSE given
  /\ UNCHANGED << probes, opened, inits, finis >>

Trying(version) ==
  /\ loader = IF version = 2 THEN "v2" ELSE "v1"
  /\ paths # << >>

\* A constructor throws ProbeLoadingException. If it is that of the base
\* class, no destructor closes what was opened.
Rejects(version) ==
  LET path == Head(paths)
  IN /\ Trying(version)
     /\ ~Accepts(path, version) /\ ~(version = 2 /\ ReadsNull(path))
     /\ opened' = IF Libraries[path].opens /\ ~BaseLoads(path, version)
                    THEN [opened EXCEPT ![path] = @ + 1] ELSE opened
     /\ IF version = 2 THEN loader' = "v1" /\ UNCHANGED paths
                       ELSE loader' = "v2" /\ paths' = Tail(paths)
     /\ UNCHANGED << probes, inits, finis >>

\* The program ends with a signal.
LabelMissing ==
  /\ Trying(2) /\ ReadsNull(Head(paths))
  /\ loader' = "crashed"
  /\ UNCHANGED << paths, probes, opened, inits, finis >>

Loads(version) ==
  LET path == Head(paths)
  IN /\ Trying(version)
     /\ Accepts(path, version) /\ ~(version = 2 /\ ReadsNull(path))
     /\ probes' = Append(probes, [path |-> path, version |-> version])
     /\ opened' = [opened EXCEPT ![path] = @ + 1]
     /\ inits' = [inits EXCEPT ![path] = @ + 1]
     /\ loader' = "v2" /\ paths' = Tail(paths)
     /\ UNCHANGED finis

\* What ~Probe does besides closing the library.
FiniAlways(path, is_initialized) == finis' = [finis EXCEPT ![path] = @ + 1]

fini(path, is_initialized) ==
  finis' = IF is_initialized THEN [finis EXCEPT ![path] = @ + 1] ELSE finis

\* init returns NULL: ProbeInitialisationException, which nobody takes for a
\* reason to try the other version; ~Probe closes the library.
InitReturnsNull(version) ==
  LET path == Head(paths)
  IN /\ Trying(version)
     /\ Accepts(path, version) /\ ~(version = 2 /\ ReadsNull(path))
     /\ fini(path, FALSE)
     /\ loader' = "v2" /\ paths' = Tail(paths)
     /\ UNCHANGED << probes, opened, inits >>

LoadDone ==
  /\ loader = "v2" /\ paths = << >>
  /\ loader' = "loaded"
  /\ UNCHANGED << paths, probes, opened, inits, finis >>

Load ==
  \/ \E version \in {1, 2} :
       Rejects(version) \/ Loads(version) \/ InitReturnsNull(version)
  \/ LabelMissing \/ LoadDone

-----------------------------------------------------------------------------
(* ~Experimentation deletes the probes in their order.                     *)

DeleteProbe ==
  /\ loader = "loaded" /\ probes # << >>
  /\ fini(Head(probes).path, TRUE)
  /\ opened' = [opened EXCEPT ![Head(probes).path] = @ - 1]
  /\ probes' = Tail(probes)
  /\ UNCHANGED << loader, paths, inits >>

\* dlclose fails: exit(EXIT_FAILURE), with the other probes as they are.
DeleteFails ==
  /\ loader = "loaded" /\ probes # << >>
  /\ fini(Head(probes).path, TRUE)
  /\ loader' = "crashed"
  /\ UNCHANGED << paths, probes, opened, inits >>

-----------------------------------------------------------------------------
(* What others ask a probe.                                                *)

\* The answers of the base class, which ProbeV1 leaves as they are.
Unasked == [devices |-> 1, channels |-> 1, period |-> 0]

nbDevices(probe) ==
  IF probe.version = 2 /\ Has(probe.path, {"nbDevices"})
    THEN Libraries[probe.path].devices ELSE Unasked.devices

nbChannels(probe) ==
  IF probe.version = 2 /\ Has(probe.path, {"nbChannels"})
    THEN Libraries[probe.path].channels ELSE Unasked.channels

getPeriod(probe) ==
  IF probe.version = 2 THEN Period(probe.path) ELSE Unasked.period

\* The symbols behind the calls that the collector makes: update is called if
\* the probe has a period, and throws in version 1.
CalledBy(probe) ==
  (IF probe.version = 2 THEN {"start", "stop"}
                        ELSE {"evaluationStart", "evaluationStop"})
  \cup (IF getPeriod(probe) # 0 THEN {"update"} ELSE {})
=============================================================================
