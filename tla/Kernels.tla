------------------------------ MODULE Kernels ------------------------------
(***************************************************************************)
(* The kernel of a kernel experiment and its memory: an assembler file is  *)
(* compiled to a library in a temporary file, the empty kernel too; the    *)
(* function entryPoint is looked up, and every thread gets a buffer for as *)
(* many iterations as the kernel will make. flushCaches only touches bytes *)
(* of that buffer and is left out.                                         *)
(*                                                                         *)
(* gcc and the dynamic linker are external. mkstemp returns the lowest     *)
(* free descriptor: 0 only if lPowerProbe was started without input.       *)
(***************************************************************************)
EXTENDS Options

CONSTANTS
  Descriptors,  \* what mkstemp can return
  Width,        \* values of a size (2^64)
  Sizes         \* what a size that was never written can be

ASSUME KernelsAssumption ==
  Descriptors \subseteq Nat /\ Width \in Nat \ {0} /\ Sizes \subseteq Nat

VARIABLES
  files,          \* the temporary files, in order: "empty" or "library"
  functions,      \* entryPoint of the kernel and for the overhead
  memory,         \* the size of each thread's buffer in m_memory
  overheadMemory  \* and in m_overheadMemory

KernelVars == << files, functions, memory, overheadMemory >>

KernelsInit ==
  /\ files = << >> /\ functions = << >>
  /\ memory = << >> /\ overheadMemory = << >>

-----------------------------------------------------------------------------
(* KernelCompiler::compile.                                                *)

\* If popen fails, the result keeps the value it had.
traceSystemCommand(result) ==
  { [result |-> result, wrote |-> FALSE],
    [result |-> 0, wrote |-> TRUE], [result |-> 1, wrote |-> FALSE] }

\* The files stay in /tmp.
Compile ==
  \E fd \in Descriptors : \E gcc \in traceSystemCommand(fd) :
    /\ To("compile", IF gcc.result # 0 THEN "aborted"
                     ELSE IF files = << >> THEN "compile" ELSE "load")
    /\ files' = Append(files, IF gcc.wrote THEN "library" ELSE "empty")
    /\ UNCHANGED << functions, memory, overheadMemory >>

\* mkstemp fails: KernelCompilationException, which nobody catches.
NoTemporaryFile ==
  /\ To("compile", "aborted")
  /\ UNCHANGED KernelVars

-----------------------------------------------------------------------------
(* KernelExperimentation::start.                                           *)

\* Both libraries are opened; both functions are looked up in the first.
LoadFunctions ==
  /\ To("load", "runner")
  /\ \A i \in 1 .. 2 : files[i] = "library"
  /\ functions' = << files[1], files[1] >>
  /\ UNCHANGED << files, memory, overheadMemory >>

\* dlopen fails: KernelException, which nobody catches.
LoadFails ==
  /\ To("load", "aborted")
  /\ UNCHANGED KernelVars

\* The library has no entryPoint: start returns.
EntryPointMissing ==
  /\ To("load", "delete")
  /\ files[1] = "library"
  /\ UNCHANGED KernelVars

-----------------------------------------------------------------------------
(* KernelRunner::KernelRunner and its destructor.                          *)

\* The product can wrap: the buffer is then smaller than the kernel is told.
bufferSize ==
  (options.iterationMemorySize * options.nbKernelIteration) % Width

\* m_overheadMemorySize is read and was never written.
AllocateMemory ==
  /\ To("memory", "start")
  /\ memory' = [t \in 1 .. options.nbProcess |-> bufferSize]
  /\ \E size \in Sizes :
       overheadMemory' = [t \in 1 .. options.nbProcess |-> size]
  /\ UNCHANGED << files, functions >>

\* bad_alloc, which nobody catches; what was allocated is lost.
NoKernelMemory ==
  /\ To("memory", "aborted")
  /\ UNCHANGED KernelVars

FreeMemory == memory' = << >> /\ overheadMemory' = << >>
=============================================================================
