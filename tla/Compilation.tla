------------------------------ MODULE Compilation ------------------------------
(***************************************************************************)
(* A run of the compiler: the driver (runCompiler), the passes over the    *)
(* functions of a module (CompilationPipeline), the analyses their pass    *)
(* managers keep (MirPassManager), the register allocator's loop as far as *)
(* it asks for one of them, and the publication of the object file         *)
(* (EmissionEngine::emitModule).                                           *)
(*                                                                         *)
(* What a pass does is abstracted to whether it succeeds and to the        *)
(* analyses that its changes make stale.  No pass after the parser adds or *)
(* takes an edge, a block or a function.  The process can be killed        *)
(* between any two steps, and the compiler started again.                  *)
(***************************************************************************)
EXTENDS Integers, Sequences

CONSTANTS
    Modules,        \* the modules that are compiled: which functions are defined
    EmissionStages, \* what is asked for, out of the five
    MaxIterations,  \* of the register allocator: 100
    MaxStarts       \* how often the compiler is started

ASSUME ModulesAssumption == Modules \subseteq Seq(BOOLEAN)
ASSUME BoundsAssumption == MaxIterations \in Nat \ {0} /\ MaxStarts \in Nat \ {0}
ASSUME EmissionStagesAssumption ==
    EmissionStages \subseteq {"GenericMir", "LegalizedMir", "LoweredMir", "Assembly", "ObjectFile"}

VARIABLES
    module, optimize, emission,
    at,         \* where runCompiler is
    function,   \* the one runPipeline is at
    step,       \* the pass that runs next
    cache,      \* m_validAnalyses of the managers: for each analysis that is
                \* cached the functions that have not changed since
    iterations, liveness,  \* of the register allocator
    passed,     \* the passes that each function has been through (history)
    final, temp, \* the contents of the two files
    exit,       \* the exit code, or that there is none
    starts

options == <<module, optimize, emission>>
place == <<at, function, step>>
allocator == <<iterations, liveness>>
files == <<final, temp>>
vars == <<options, place, cache, allocator, passed, files, exit, starts>>

Managers == {"middleEnd", "legalization", "targetLowering"}
Analyses == {"CodeFlow", "Liveness"}
Functions == DOMAIN module
NoAnalyses == [a \in {} |-> <<>>]

Pass(name, manager) == [name |-> name, manager |-> manager]

\* runInputVerification, runMiddleEndPasses, runLegalizationPasses and
\* runTargetLoweringPasses; where a list of passes begins, or the middle end
\* says so, the analyses are invalidated.
Passes ==
    <<Pass("Verifier", "middleEnd"), Pass("Invalidate", "middleEnd"), Pass("CodeFlow", "middleEnd"),
      Pass("NonSsaToSsa", "middleEnd"), Pass("Liveness", "middleEnd")>>
    \o (IF optimize THEN <<Pass("Peephole", "middleEnd"), Pass("Invalidate", "middleEnd"),
                           Pass("Liveness", "middleEnd")>> ELSE <<>>)
    \o (IF emission = "GenericMir" THEN <<>>
        ELSE <<Pass("Invalidate", "legalization"), Pass("Signature", "legalization"),
               Pass("Legalizer", "legalization")>>)
    \o (IF emission \in {"GenericMir", "LegalizedMir"} THEN <<>>
        ELSE <<Pass("Invalidate", "targetLowering"), Pass("AbiLowerer", "targetLowering"),
               Pass("InstructionSelector", "targetLowering"), Pass("RegisterAllocator", "targetLowering"),
               Pass("FrameLowerer", "targetLowering")>>
             \o (IF optimize THEN <<Pass("TargetPeephole", "targetLowering")>> ELSE <<>>))

\* A process that has just been started.
Fresh ==
    /\ at = "Load" /\ function = 1 /\ step = 1
    /\ cache = [m \in Managers |-> NoAnalyses]
    /\ iterations = 0 /\ liveness = "none"
    /\ passed = [f \in Functions |-> <<>>]
    /\ exit = "none"

Init ==
    /\ module \in Modules /\ optimize \in BOOLEAN /\ emission \in EmissionStages
    /\ Fresh
    /\ final \in {"none", "old"} /\ temp = "none"
    /\ starts = 1

-----------------------------------------------------------------------------
(* The driver.                                                             *)

Exit(code) == at' = "Exited" /\ exit' = code

\* An exception, wherever it is thrown, ends in main.
Throw == Exit("2") /\ UNCHANGED <<options, function, step, cache, allocator, passed, files, starts>>

\* compileSourceToMir.
Load ==
    /\ at = "Load"
    /\ \/ at' = "Pipeline" /\ exit' = exit
       \/ Exit("1")
    /\ UNCHANGED <<options, function, step, cache, allocator, passed, files, starts>>

-----------------------------------------------------------------------------
(* The pipeline.                                                           *)

Defined == function \in Functions /\ module[function]
Running(name) == at = "Pipeline" /\ Defined /\ step <= Len(Passes) /\ Passes[step].name = name
Manager == Passes[step].manager

\* The next function, a declaration or one that has been through its passes
\* being left; behind the last one the driver goes on.
NextFunction ==
    /\ at = "Pipeline"
    /\ Defined => step > Len(Passes)
    /\ IF function \in Functions THEN function' = function + 1 /\ step' = 1 /\ at' = at
       ELSE /\ at' = IF emission = "ObjectFile" THEN "Emit" ELSE "Inspect"
            /\ UNCHANGED <<function, step>>
    /\ UNCHANGED <<options, cache, allocator, passed, files, exit, starts>>

Advance ==
    /\ step' = step + 1 /\ function' = function
    /\ passed' = [passed EXCEPT ![function] = Append(@, Passes[step].name)]

Analysed(c, a) == [x \in DOMAIN c \cup {a} |-> IF x = a THEN Functions ELSE c[x]]

\* getAnalysis: what is cached is kept; Liveness asks for CodeFlow itself.
WithCodeFlow(c) == IF "CodeFlow" \in DOMAIN c THEN c ELSE Analysed(c, "CodeFlow")
WithLiveness(c) == IF "Liveness" \in DOMAIN c THEN c ELSE Analysed(WithCodeFlow(c), "Liveness")

\* invalidateAnalysis
Invalidate ==
    /\ Running("Invalidate")
    /\ cache' = [cache EXCEPT ![Manager] = NoAnalyses]
    /\ Advance
    /\ UNCHANGED <<options, at, allocator, files, exit, starts>>

\* The analyses that the middle end asks its manager for: CodeFlow at first,
\* then NonSsaToSsa and Liveness, a pass of its own here, use it.
AskCodeFlow ==
    /\ Running("CodeFlow") \/ Running("Liveness")
    /\ cache' = [cache EXCEPT ![Manager] = WithCodeFlow(@)]
    /\ Advance
    /\ UNCHANGED <<options, at, allocator, files, exit, starts>>

Transforms == {"NonSsaToSsa", "Peephole", "Signature", "Legalizer", "AbiLowerer",
               "InstructionSelector", "FrameLowerer", "TargetPeephole"}
\* What is in the caches is kept, but it is of the code as it was.
Rewritten(caches) == [m \in Managers |-> [a \in DOMAIN caches[m] |-> caches[m][a] \ {function}]]

\* Mutation: the result of a pass is not looked at.
Succeeds_Always(succeeded) == TRUE
\* runCheckedPass: what becomes of the result.
Succeeds(succeeded) == succeeded

\* NonSsaToSsa asks its manager for CodeFlow before it changes anything.
Asked == IF Running("NonSsaToSsa") THEN [cache EXCEPT ![Manager] = WithCodeFlow(@)] ELSE cache

\* runCheckedPass for a pass that changes the function, or verifies it.  The
\* manager does not learn of it.
RunPass ==
    /\ \E name \in Transforms \cup {"Verifier"} : Running(name)
    /\ \E succeeded \in BOOLEAN :
          IF Succeeds(succeeded)
          THEN /\ cache' = IF Running("Verifier") THEN cache ELSE Rewritten(Asked)
               /\ step' = step + 1 /\ function' = function
               /\ passed' = IF succeeded THEN [passed EXCEPT ![function] = Append(@, Passes[step].name)]
                            ELSE passed
               /\ UNCHANGED <<at, exit>>
          ELSE Exit("1") /\ UNCHANGED <<function, step, cache, passed>>
    /\ UNCHANGED <<options, allocator, files, starts>>

\* Mutation: only the code of the last round has to be analysed again.
StaleAfterSpill_Kept(c) == c
\* What is left of the analyses after a round of the allocator.
StaleAfterSpill(c) == NoAnalyses

\* Mutation: the allocator has no limit.
RoundsLeft_Always == TRUE
RoundsLeft == iterations < MaxIterations

\* A round of the register allocator begins with the analysis...
BuildInterference ==
    /\ Running("RegisterAllocator") /\ liveness = "none" /\ RoundsLeft
    /\ iterations' = IF iterations < MaxIterations THEN iterations + 1 ELSE iterations
    /\ cache' = [cache EXCEPT ![Manager] = WithLiveness(@)]
    /\ liveness' = IF function \in cache'[Manager]["Liveness"] THEN "current" ELSE "stale"
    /\ UNCHANGED <<options, place, passed, files, exit, starts>>

\* ...and ends with spill code, after which there is another one,
Spill ==
    /\ Running("RegisterAllocator") /\ liveness # "none"
    /\ cache' = [Rewritten(cache) EXCEPT ![Manager] = StaleAfterSpill(@)]
    /\ liveness' = "none"
    /\ UNCHANGED <<options, place, iterations, passed, files, exit, starts>>

\* with the colors of all registers,
Color ==
    /\ Running("RegisterAllocator") /\ liveness # "none"
    /\ cache' = [Rewritten(cache) EXCEPT ![Manager] = NoAnalyses]
    /\ liveness' = "none" /\ iterations' = 0
    /\ Advance
    /\ UNCHANGED <<options, at, files, exit, starts>>

\* or with none when no round is left, or the graph cannot be built or simplified.
AllocationFails ==
    /\ Running("RegisterAllocator")
    /\ liveness # "none" \/ ~RoundsLeft
    /\ Exit("1")
    /\ UNCHANGED <<options, function, step, cache, allocator, passed, files, starts>>

\* An inspection stage prints and is done; so is the emission.
Finish ==
    /\ at \in {"Inspect", "Done"}
    /\ Exit("0")
    /\ UNCHANGED <<options, function, step, cache, allocator, passed, files, starts>>

-----------------------------------------------------------------------------
(* The object file.                                                        *)

unchangedByEmission == <<options, function, step, cache, allocator, passed, starts>>

\* emitModule up to the bytes of the file: it fails, or a function does.
Emit ==
    /\ at = "Emit"
    /\ \/ at' = "Open" /\ exit' = exit
       \/ Exit("1")
    /\ UNCHANGED <<unchangedByEmission, files>>

\* The temporary file is opened, and with it emptied.
Open ==
    /\ at = "Open"
    /\ \/ at' = "Write" /\ exit' = exit /\ temp' = "partial"
       \/ Exit("1") /\ UNCHANGED temp
    /\ UNCHANGED <<unchangedByEmission, final>>

\* Mutation: the stream is not asked whether everything has been written.
Written_Unchecked(complete) == TRUE
\* The check of the stream after close().
Written(complete) == complete

\* Written and closed; what could not be written is removed, if that can be.
Write ==
    /\ at = "Write"
    /\ \E complete \in BOOLEAN :
          IF Written(complete)
          THEN temp' = (IF complete THEN "new" ELSE "partial") /\ at' = "Remove" /\ exit' = exit
          ELSE temp' \in {"none", "partial"} /\ Exit("1")
    /\ UNCHANGED <<unchangedByEmission, final>>

\* The previous file is removed; whether that worked nobody asks.
RemoveFinal ==
    /\ at = "Remove"
    /\ final' \in {"none", final}
    /\ at' = "Rename"
    /\ UNCHANGED <<unchangedByEmission, temp, exit>>

Rename ==
    /\ at = "Rename"
    /\ \/ final' = temp /\ temp' = "none" /\ at' = "Done" /\ exit' = exit
       \/ final' = final /\ temp' \in {"none", temp} /\ Exit("1")
    /\ UNCHANGED unchangedByEmission

-----------------------------------------------------------------------------
(* The environment.                                                        *)

Kill ==
    /\ at # "Exited"
    /\ Exit("killed")
    /\ UNCHANGED <<options, function, step, cache, allocator, passed, files, starts>>

\* An instruction that cannot be emitted, a pass nobody registered.
Fatal == at \in {"Load", "Pipeline", "Emit"} /\ Throw

\* The compiler is started again; what it has left is the old file now.
Restart ==
    /\ at = "Exited" /\ starts < MaxStarts
    /\ at' = "Load" /\ function' = 1 /\ step' = 1
    /\ cache' = [m \in Managers |-> NoAnalyses]
    /\ iterations' = 0 /\ liveness' = "none"
    /\ passed' = [f \in Functions |-> <<>>]
    /\ exit' = "none"
    /\ final' = IF final = "new" THEN "old" ELSE final
    /\ starts' = starts + 1
    /\ UNCHANGED <<options, temp>>

Steps ==
    \/ Load \/ NextFunction \/ Invalidate \/ AskCodeFlow \/ RunPass
    \/ BuildInterference \/ Spill \/ Color \/ AllocationFails
    \/ Finish \/ Emit \/ Open \/ Write \/ RemoveFinal \/ Rename

Next == Steps \/ Kill \/ Fatal \/ Restart

\* The compiler goes on as long as it is not killed; a round of the allocator
\* ends somehow, but nobody promises which way.
Spec == Init /\ [][Next]_vars /\ WF_vars(Steps)
-----------------------------------------------------------------------------
(* Properties.                                                             *)

\* MirRegisterAllocatorPass::run and invalidateAnalysis: the interference graph
\* is built from the liveness of the code as it is, for every function, though
\* all of them share one manager, and in every round, though the round before
\* has put spill code in.
AllocationSeesItsCode == liveness # "stale"

\* runPipeline and runCheckedPass: an object file is only made of functions that
\* have been through all passes in their order; after a failure there is none.
EmittedCodeIsLowered ==
    at \in {"Emit", "Open", "Write", "Remove", "Rename", "Done"} =>
        \A f \in Functions : passed[f] = IF module[f] THEN [k \in DOMAIN Passes |-> Passes[k].name] ELSE <<>>

\* emitModule: whenever the compiler fails or is killed, the output is never half
\* a file; success is only reported of a new one, and failure never is.
OutputIsWhole ==
    /\ final # "partial"
    /\ exit = "0" /\ emission = "ObjectFile" => final = "new" /\ temp = "none"
    /\ exit \in {"1", "2"} => final # "new"

\* runCompiler, runPipeline and the allocator's loop: every run of the compiler ends.
Terminates == []<>(at = "Exited")
=============================================================================
