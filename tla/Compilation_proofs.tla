-------------------------- MODULE Compilation_proofs --------------------------
(***************************************************************************)
(* What a run of the compiler leaves in its output file, what code is      *)
(* emitted, and what the register allocator knows of the code it is about. *)
(* After that, the construction of SSA form: the dominator tree, the       *)
(* dominance frontiers, and that the code it leaves is in strict SSA form. *)
(***************************************************************************)
EXTENDS Compilation, SsaConstruction, SequenceTheorems, FiniteSetTheorems, WellFoundedInduction, TLAPS

-----------------------------------------------------------------------------
(* The output file.                                                        *)

\* Where the compiler is tells what is in the two files.
FilesFollowTheEngine ==
    /\ final # "partial"
    /\ at \in {"Remove", "Rename"} => temp = "new"
    /\ at = "Done" => final = "new" /\ temp = "none"
    /\ final = "new" => at = "Done" \/ (at = "Exited" /\ exit \in {"0", "killed"})

\* Where it is also tells whether it has exited, and success what has been done.
ExitFollowsTheDriver ==
    /\ exit # "none" => at = "Exited"
    /\ exit = "0" /\ emission = "ObjectFile" => final = "new" /\ temp = "none"
    /\ at = "Inspect" => emission # "ObjectFile"

IInv == FilesFollowTheEngine /\ ExitFollowsTheDriver

LEMMA InitIInv == Init => IInv
  BY DEF Init, Fresh, IInv, FilesFollowTheEngine, ExitFollowsTheDriver

\* The steps before the object file is opened leave both files alone.
LEMMA CompilingKeepsIInv ==
  ASSUME IInv,
         \/ Load \/ NextFunction \/ Invalidate \/ AskCodeFlow \/ RunPass
         \/ BuildInterference \/ Spill \/ Color \/ AllocationFails
  PROVE  IInv'
<1> USE DEF IInv, FilesFollowTheEngine, ExitFollowsTheDriver, Exit, Advance, options, files, place
<1>1. CASE Load
  BY <1>1 DEF Load
<1>2. CASE NextFunction
  BY <1>2 DEF NextFunction
<1>3. CASE Invalidate
  BY <1>3 DEF Invalidate
<1>4. CASE AskCodeFlow
  BY <1>4 DEF AskCodeFlow
<1>5. CASE RunPass
  BY <1>5 DEF RunPass, Running
<1>6. CASE BuildInterference
  BY <1>6 DEF BuildInterference
<1>7. CASE Spill
  BY <1>7 DEF Spill
<1>8. CASE Color
  BY <1>8 DEF Color
<1>9. CASE AllocationFails
  BY <1>9 DEF AllocationFails, Running
<1> QED
  BY <1>1, <1>2, <1>3, <1>4, <1>5, <1>6, <1>7, <1>8, <1>9

\* The steps that make the object file.
LEMMA EmittingKeepsIInv ==
  ASSUME IInv,
         \/ Finish \/ Emit \/ Open \/ Write \/ RemoveFinal \/ Rename
  PROVE  IInv'
<1> USE DEF IInv, FilesFollowTheEngine, ExitFollowsTheDriver, Exit, unchangedByEmission, options, files
<1>1. CASE Finish
  BY <1>1 DEF Finish
<1>2. CASE Emit
  BY <1>2 DEF Emit
<1>3. CASE Open
  BY <1>3 DEF Open
<1>4. CASE Write
  <2>1. \/ temp' = "new" /\ at' = "Remove" /\ exit' = exit
        \/ temp' \in {"none", "partial"} /\ at' = "Exited" /\ exit' = "1"
    BY <1>4 DEF Write, Written
  <2>2. QED
    BY <1>4, <2>1 DEF Write
<1>5. CASE RemoveFinal
  BY <1>5 DEF RemoveFinal
<1>6. CASE Rename
  BY <1>6 DEF Rename
<1>7. QED
  BY <1>1, <1>2, <1>3, <1>4, <1>5, <1>6

\* What comes from outside.
LEMMA EnvironmentKeepsIInv ==
  ASSUME IInv, Kill \/ Fatal \/ Restart
  PROVE  IInv'
<1> USE DEF IInv, FilesFollowTheEngine, ExitFollowsTheDriver, Exit, options, files
<1>1. CASE Kill
  BY <1>1 DEF Kill
<1>2. CASE Fatal
  BY <1>2 DEF Fatal, Throw
<1>3. CASE Restart
  BY <1>3 DEF Restart
<1> QED
  BY <1>1, <1>2, <1>3

LEMMA StepKeepsIInv == IInv /\ [Next]_vars => IInv'
<1> SUFFICES ASSUME IInv, [Next]_vars
             PROVE  IInv'
  OBVIOUS
<1>1. CASE UNCHANGED vars
  BY <1>1 DEF vars, options, place, files, IInv, FilesFollowTheEngine, ExitFollowsTheDriver
<1>2. CASE Next
  BY <1>2, CompilingKeepsIInv, EmittingKeepsIInv, EnvironmentKeepsIInv DEF Next, Steps
<1> QED
  BY <1>1, <1>2

\* emitModule: however the compiler ends, killed between any two steps included,
\* the output is never half a file; success is only reported of a new one, and
\* failure never is.
THEOREM OutputIsAlwaysWhole == Spec => []OutputIsWhole
<1>1. IInv => OutputIsWhole
  BY DEF IInv, FilesFollowTheEngine, ExitFollowsTheDriver, OutputIsWhole
<1> QED
  BY InitIInv, StepKeepsIInv, <1>1, PTL DEF Spec

-----------------------------------------------------------------------------
(* The passes of a function.                                               *)

\* The analyses are asked for by the middle end, the allocator is a pass of
\* the target.
PassKinds ==
    [name : {"Verifier", "Invalidate", "CodeFlow", "NonSsaToSsa", "Liveness", "Peephole"},
     manager : {"middleEnd"}]
    \cup [name : {"Invalidate", "Signature", "Legalizer"}, manager : {"legalization"}]
    \cup [name : {"Invalidate", "AbiLowerer", "InstructionSelector", "RegisterAllocator",
                  "FrameLowerer", "TargetPeephole"}, manager : {"targetLowering"}]

LEMMA PassesAreKinds == Passes \in Seq(PassKinds)
<1>1. \A name \in {"Verifier", "Invalidate", "CodeFlow", "NonSsaToSsa", "Liveness", "Peephole"} :
         Pass(name, "middleEnd") \in PassKinds
  BY DEF Pass, PassKinds
<1>2. \A name \in {"Invalidate", "Signature", "Legalizer"} : Pass(name, "legalization") \in PassKinds
  BY DEF Pass, PassKinds
<1>3. \A name \in {"Invalidate", "AbiLowerer", "InstructionSelector", "RegisterAllocator",
                    "FrameLowerer", "TargetPeephole"} : Pass(name, "targetLowering") \in PassKinds
  BY DEF Pass, PassKinds
<1> DEFINE checked == <<Pass("Verifier", "middleEnd"), Pass("Invalidate", "middleEnd"),
                        Pass("CodeFlow", "middleEnd"), Pass("NonSsaToSsa", "middleEnd"),
                        Pass("Liveness", "middleEnd")>>
           improved == IF optimize THEN <<Pass("Peephole", "middleEnd"), Pass("Invalidate", "middleEnd"),
                                          Pass("Liveness", "middleEnd")>> ELSE <<>>
           legalized == IF emission = "GenericMir" THEN <<>>
                        ELSE <<Pass("Invalidate", "legalization"), Pass("Signature", "legalization"),
                               Pass("Legalizer", "legalization")>>
           selected == <<Pass("Invalidate", "targetLowering"), Pass("AbiLowerer", "targetLowering"),
                         Pass("InstructionSelector", "targetLowering"),
                         Pass("RegisterAllocator", "targetLowering"),
                         Pass("FrameLowerer", "targetLowering")>>
           polished == IF optimize THEN <<Pass("TargetPeephole", "targetLowering")>> ELSE <<>>
           lowered == IF emission \in {"GenericMir", "LegalizedMir"} THEN <<>> ELSE selected \o polished
<1>4. checked \in Seq(PassKinds)
  BY <1>1
<1>5. improved \in Seq(PassKinds)
  BY <1>1
<1>6. legalized \in Seq(PassKinds)
  BY <1>2
<1>7. selected \in Seq(PassKinds) /\ polished \in Seq(PassKinds)
  BY <1>3
<1>8. lowered \in Seq(PassKinds)
  BY <1>7
<1>9. Passes = checked \o improved \o legalized \o lowered
  BY DEF Passes
<1> HIDE DEF checked, improved, legalized, lowered
<1> QED
  BY <1>4, <1>5, <1>6, <1>8, <1>9

\* The pass that is running, and the manager it belongs to.
LEMMA RunningPass ==
    ASSUME step \in Nat \ {0}, NEW name, Running(name)
    PROVE  /\ at = "Pipeline" /\ function \in Functions /\ module[function]
           /\ step \in DOMAIN Passes
           /\ Passes[step].name = name /\ Passes[step] \in PassKinds
<1>1. step \in 1 .. Len(Passes)
  BY PassesAreKinds DEF Running
<1> QED
  BY <1>1, PassesAreKinds, ElementOfSeq DEF Running, Defined

-----------------------------------------------------------------------------
(* What the functions have been through.                                   *)

Names(k) == [j \in 1 .. k |-> Passes[j].name]

EmissionPlaces == {"Emit", "Open", "Write", "Remove", "Rename", "Done"}

\* The functions before the one the pipeline is at have been through all
\* passes, that one through the passes before the next, the others through
\* none; behind the last function begins the emission, and nowhere else.
Progress ==
    /\ module \in Seq(BOOLEAN)
    /\ function \in 1 .. Len(module) + 1
    /\ step \in 1 .. Len(Passes) + 1
    /\ passed = [f \in Functions |->
                    IF ~module[f] \/ f > function THEN <<>>
                    ELSE IF f < function THEN Names(Len(Passes)) ELSE Names(step - 1)]
    /\ at \in EmissionPlaces => function = Len(module) + 1

LEMMA NoNames == Names(0) = <<>>
BY DEF Names

LEMMA NextName ==
    ASSUME NEW k \in DOMAIN Passes
    PROVE  Append(Names(k - 1), Passes[k].name) = Names(k)
<1>1. Len(Passes) \in Nat /\ k \in 1 .. Len(Passes)
  BY PassesAreKinds
<1>2. Len(Names(k - 1)) = k - 1
  BY <1>1 DEF Names
<1> QED
  BY <1>1, <1>2 DEF Names

LEMMA SamePasses == ASSUME UNCHANGED options PROVE Passes' = Passes /\ \A k : Names(k)' = Names(k)
BY DEF options, Passes, Names

LEMMA InitProgress == Init => Progress
<1> SUFFICES ASSUME Init PROVE Progress
  OBVIOUS
<1>1. module \in Seq(BOOLEAN)
  BY ModulesAssumption DEF Init
<1>2. Len(module) \in Nat /\ Len(Passes) \in Nat /\ Functions = 1 .. Len(module)
  BY <1>1, PassesAreKinds DEF Functions
<1> QED
  BY <1>1, <1>2, NoNames DEF Init, Fresh, Progress, EmissionPlaces

\* A pass is done.
LEMMA AdvanceKeepsProgress ==
    ASSUME Progress, UNCHANGED options, at' = "Pipeline", Advance,
           function \in Functions, module[function], step \in DOMAIN Passes
    PROVE  Progress'
<1>1. /\ Len(module) \in Nat /\ Len(Passes) \in Nat
      /\ Functions = 1 .. Len(module) /\ DOMAIN Passes = 1 .. Len(Passes)
  BY PassesAreKinds DEF Progress, Functions
<1>2. step' \in 1 .. Len(Passes) + 1 /\ step' - 1 = step
  BY <1>1 DEF Advance
<1>3. passed[function] = Names(step - 1)
  BY <1>1 DEF Progress
<1>4. passed' = [f \in Functions |-> IF f = function THEN Names(step) ELSE passed[f]]
  <2>1. passed' = [passed EXCEPT ![function] = Append(passed[function], Passes[step].name)]
    BY DEF Advance
  <2>2. Append(passed[function], Passes[step].name) = Names(step)
    BY <1>3, NextName
  <2> QED BY <2>1, <2>2 DEF Progress
<1>5. passed' = [f \in Functions |->
                    IF ~module[f] \/ f > function THEN <<>>
                    ELSE IF f < function THEN Names(Len(Passes)) ELSE Names(step)]
  BY <1>1, <1>4 DEF Progress
<1>6. /\ module' = module /\ Functions' = Functions /\ function' = function
      /\ Passes' = Passes /\ Names(Len(Passes))' = Names(Len(Passes))
      /\ Names(step - 1)' = Names(step)
  BY <1>2, SamePasses DEF options, Functions, Advance, Names
<1>7. passed' = [f \in Functions' |->
                    IF ~module'[f] \/ f > function' THEN <<>>
                    ELSE IF f < function' THEN Names(Len(Passes))' ELSE Names(step - 1)']
  BY <1>5, <1>6
<1> QED
  BY <1>1, <1>2, <1>6, <1>7 DEF Progress, EmissionPlaces

\* Whatever leaves the pipeline where it is, and begins no emission.
LEMMA StayKeepsProgress ==
    ASSUME Progress, UNCHANGED <<options, function, step, passed>>,
           at' \notin EmissionPlaces \/ at \in EmissionPlaces
    PROVE  Progress'
BY SamePasses DEF Progress, Functions, options

LEMMA NextFunctionKeepsProgress == ASSUME Progress, NextFunction PROVE Progress'
<1>1. /\ Len(module) \in Nat /\ Len(Passes) \in Nat /\ Functions = 1 .. Len(module)
      /\ function \in 1 .. Len(module) + 1
  BY PassesAreKinds DEF Progress, Functions
<1>2. UNCHANGED <<options, passed>> /\ at = "Pipeline"
  BY DEF NextFunction
<1>3. CASE function \in Functions
  <2>1. function' = function + 1 /\ step' = 1 /\ at' = at
    BY <1>3 DEF NextFunction
  <2>2. module[function] => step = Len(Passes) + 1
    BY <1>1, <1>3 DEF NextFunction, Defined, Progress
  <2>3. passed = [f \in Functions |->
                    IF ~module[f] \/ f > function + 1 THEN <<>>
                    ELSE IF f < function + 1 THEN Names(Len(Passes)) ELSE Names(0)]
    BY <1>1, <2>2, NoNames DEF Progress
  <2> QED
    BY <1>1, <1>2, <1>3, <2>1, <2>3, SamePasses DEF Progress, EmissionPlaces, Functions, options
<1>4. CASE function \notin Functions
  <2>1. UNCHANGED <<function, step>> /\ function = Len(module) + 1
    BY <1>1, <1>4 DEF NextFunction
  <2> QED
    BY <1>1, <1>2, <2>1, SamePasses DEF Progress, Functions, options
<1> QED
  BY <1>3, <1>4

LEMMA RestartKeepsProgress == ASSUME Progress, Restart PROVE Progress'
<1>1. Len(module) \in Nat /\ Len(Passes) \in Nat /\ Functions = 1 .. Len(module)
  BY PassesAreKinds DEF Progress, Functions
<1>2. /\ UNCHANGED options /\ function' = 1 /\ step' = 1 /\ at' = "Load"
      /\ passed' = [f \in Functions |-> <<>>]
  BY DEF Restart
<1> QED
  BY <1>1, <1>2, SamePasses, NoNames DEF Progress, EmissionPlaces, Functions, options

LEMMA StepKeepsProgress == Progress /\ [Next]_vars => Progress'
<1> SUFFICES ASSUME Progress, [Next]_vars
             PROVE  Progress'
  OBVIOUS
<1> USE DEF Exit
<1>0. step \in Nat \ {0}
  BY PassesAreKinds DEF Progress
<1>1. CASE Load
  BY <1>1, StayKeepsProgress DEF Load, EmissionPlaces
<1>2. CASE NextFunction
  BY <1>2, NextFunctionKeepsProgress
<1>3. CASE Invalidate
  BY <1>3, <1>0, RunningPass, AdvanceKeepsProgress DEF Invalidate
<1>4. CASE AskCodeFlow
  BY <1>4, <1>0, RunningPass, AdvanceKeepsProgress DEF AskCodeFlow
<1>5. CASE RunPass
  <2>1. /\ at = "Pipeline" /\ function \in Functions /\ module[function]
        /\ step \in DOMAIN Passes
    BY <1>5, <1>0, RunningPass DEF RunPass
  <2>2. PICK succeeded \in BOOLEAN :
          IF succeeded
          THEN /\ step' = step + 1 /\ function' = function
               /\ passed' = IF succeeded THEN [passed EXCEPT ![function] = Append(@, Passes[step].name)]
                            ELSE passed
               /\ UNCHANGED <<at, exit>>
          ELSE Exit("1") /\ UNCHANGED <<function, step, cache, passed>>
    BY <1>5 DEF RunPass, Succeeds
  <2>3. CASE succeeded
    BY <1>5, <2>1, <2>2, <2>3, AdvanceKeepsProgress DEF RunPass, Advance
  <2>4. CASE ~succeeded
    BY <1>5, <2>2, <2>4, StayKeepsProgress DEF RunPass, EmissionPlaces
  <2> QED BY <2>3, <2>4
<1>6. CASE BuildInterference
  BY <1>6, StayKeepsProgress DEF BuildInterference, place
<1>7. CASE Spill
  BY <1>7, StayKeepsProgress DEF Spill, place
<1>8. CASE Color
  BY <1>8, <1>0, RunningPass, AdvanceKeepsProgress DEF Color
<1>9. CASE AllocationFails
  BY <1>9, StayKeepsProgress DEF AllocationFails, EmissionPlaces
<1>10. CASE Finish \/ Kill \/ Fatal
  BY <1>10, StayKeepsProgress DEF Finish, Kill, Fatal, Throw, EmissionPlaces
<1>11. CASE Emit \/ Open \/ Write \/ RemoveFinal \/ Rename
  <2>1. UNCHANGED unchangedByEmission /\ at \in EmissionPlaces
    BY <1>11 DEF Emit, Open, Write, RemoveFinal, Rename, unchangedByEmission, EmissionPlaces
  <2> QED BY <2>1, StayKeepsProgress DEF unchangedByEmission
<1>12. CASE Restart
  BY <1>12, RestartKeepsProgress
<1>13. CASE UNCHANGED vars
  BY <1>13, StayKeepsProgress DEF vars, place
<1> QED
  BY <1>1, <1>2, <1>3, <1>4, <1>5, <1>6, <1>7, <1>8, <1>9, <1>10, <1>11, <1>12, <1>13 DEF Next, Steps

\* runPipeline and runCheckedPass: whatever passes fail, wherever the compiler
\* is killed and however often it is started, an object file is only made of
\* functions that have been through every pass in its order.
THEOREM EmittedCodeIsAlwaysLowered == Spec => []EmittedCodeIsLowered
<1>1. Progress => EmittedCodeIsLowered
  <2> SUFFICES ASSUME Progress, at \in EmissionPlaces, NEW f \in Functions
               PROVE  passed[f] = IF module[f] THEN [k \in DOMAIN Passes |-> Passes[k].name] ELSE <<>>
    BY DEF EmittedCodeIsLowered, EmissionPlaces
  <2>1. f < function /\ f \in Nat
    <3>1. module \in Seq(BOOLEAN) /\ function = Len(module) + 1
      BY DEF Progress
    <3> QED BY <3>1 DEF Functions
  <2>2. DOMAIN Passes = 1 .. Len(Passes)
    BY PassesAreKinds
  <2>3. Names(Len(Passes)) = [k \in DOMAIN Passes |-> Passes[k].name]
    BY <2>2 DEF Names
  <2>4. ~(f > function) /\ function \in Nat
    BY <2>1 DEF Progress
  <2>5. passed[f] = IF ~module[f] \/ f > function THEN <<>>
                    ELSE IF f < function THEN Names(Len(Passes)) ELSE Names(step - 1)
    BY DEF Progress
  <2> QED BY <2>1, <2>3, <2>4, <2>5
<1> QED
  BY InitProgress, StepKeepsProgress, <1>1, PTL DEF Spec

-----------------------------------------------------------------------------
(* What the register allocator knows.                                      *)

\* The manager of the target holds no analysis but during a round of the
\* allocator, for the function the round is about.  What the other managers
\* hold is out of date as soon as a pass changes something, and nobody minds.
AnalysesInv ==
    /\ DOMAIN cache = Managers
    /\ liveness = "none" => DOMAIN cache["targetLowering"] = {}
    /\ liveness # "none" => at = "Exited" \/ Running("RegisterAllocator")
    /\ liveness # "stale"

KnowledgeInv == Progress /\ AnalysesInv

LEMMA InitKnowledge == Init => KnowledgeInv
BY InitProgress DEF Init, Fresh, KnowledgeInv, AnalysesInv, Managers, NoAnalyses

\* Outside the allocator the manager of the target is asked for nothing.
LEMMA ManagersKeepAnalyses ==
    ASSUME KnowledgeInv, Invalidate \/ AskCodeFlow \/ RunPass
    PROVE  AnalysesInv'
<1>0. step \in Nat \ {0}
  BY PassesAreKinds DEF KnowledgeInv, Progress
<1> DEFINE name == Passes[step].name
<1>1. Running(name) /\ name # "RegisterAllocator"
  BY DEF Invalidate, AskCodeFlow, RunPass, Running, Transforms
<1>2. /\ at = "Pipeline" /\ Manager \in Managers
      /\ name \in {"CodeFlow", "NonSsaToSsa", "Liveness"} => Manager = "middleEnd"
  BY <1>0, <1>1, RunningPass DEF Manager, PassKinds, Managers
<1>3. liveness = "none" /\ DOMAIN cache = Managers /\ DOMAIN cache["targetLowering"] = {}
  BY <1>1, <1>2 DEF KnowledgeInv, AnalysesInv, Running
<1>4. DOMAIN cache' = Managers /\ DOMAIN cache'["targetLowering"] = {}
  <2>1. CASE Invalidate
    BY <2>1, <1>2, <1>3 DEF Invalidate, NoAnalyses, Managers
  <2>2. CASE AskCodeFlow
    <3>1. Manager = "middleEnd"
      BY <2>2, <1>2 DEF AskCodeFlow, Running
    <3> QED BY <2>2, <3>1, <1>3 DEF AskCodeFlow, Managers
  <2>3. CASE RunPass
    <3>1. cache' \in {cache, Rewritten(Asked)}
      BY <2>3 DEF RunPass, Succeeds
    <3>2. DOMAIN Asked = Managers /\ DOMAIN Asked["targetLowering"] = {}
      <4>1. Running("NonSsaToSsa") => Manager = "middleEnd"
        BY <1>2 DEF Running
      <4> QED BY <4>1, <1>3 DEF Asked, Managers
    <3> QED BY <3>1, <3>2, <1>3 DEF Rewritten, Managers
  <2> QED BY <2>1, <2>2, <2>3
<1>5. liveness' = liveness
  BY DEF Invalidate, AskCodeFlow, RunPass, allocator
<1> QED
  BY <1>3, <1>4, <1>5 DEF AnalysesInv

\* A round begins with liveness of the function, because there is none in the
\* cache, and ends with none.
LEMMA AllocatorKeepsAnalyses ==
    ASSUME KnowledgeInv, BuildInterference \/ Spill \/ Color
    PROVE  AnalysesInv'
<1>0. step \in Nat \ {0} /\ Running("RegisterAllocator")
  BY PassesAreKinds DEF KnowledgeInv, Progress, BuildInterference, Spill, Color
<1>1. /\ function \in Functions /\ Manager = "targetLowering"
      /\ DOMAIN cache = Managers
  BY <1>0, RunningPass DEF KnowledgeInv, AnalysesInv, Manager, PassKinds
<1>2. CASE BuildInterference
  <2>1. DOMAIN cache["targetLowering"] = {}
    BY <1>2 DEF BuildInterference, KnowledgeInv, AnalysesInv
  <2>2. cache'["targetLowering"] = WithLiveness(cache["targetLowering"]) /\ DOMAIN cache' = Managers
    BY <1>1, <1>2 DEF BuildInterference, Managers
  <2>3. WithLiveness(cache["targetLowering"])["Liveness"] = Functions
    BY <2>1 DEF WithLiveness, Analysed
  <2>4. liveness' = "current"
    BY <1>1, <1>2, <2>2, <2>3 DEF BuildInterference
  <2>5. Running("RegisterAllocator")'
    BY <1>0, <1>2, SamePasses DEF BuildInterference, place, Running, Defined, options, Functions
  <2> QED BY <2>2, <2>4, <2>5 DEF AnalysesInv
<1>3. CASE Spill \/ Color
  <2>1. liveness' = "none"
    BY <1>3 DEF Spill, Color
  <2>2. cache' = [Rewritten(cache) EXCEPT !["targetLowering"] = NoAnalyses]
    BY <1>1, <1>3 DEF Spill, Color, StaleAfterSpill
  <2>3. DOMAIN cache' = Managers /\ DOMAIN cache'["targetLowering"] = {}
    BY <2>2 DEF Rewritten, Managers, NoAnalyses
  <2> QED BY <2>1, <2>3 DEF AnalysesInv
<1> QED
  BY <1>2, <1>3

LEMMA StepKeepsKnowledge == KnowledgeInv /\ [Next]_vars => KnowledgeInv'
<1> SUFFICES ASSUME KnowledgeInv, [Next]_vars
             PROVE  AnalysesInv'
  BY StepKeepsProgress DEF KnowledgeInv
<1>0. AnalysesInv
  BY DEF KnowledgeInv
<1>1. CASE Load
  BY <1>0, <1>1 DEF Load, AnalysesInv, allocator, Exit, Running
<1>2. CASE NextFunction
  <2>1. liveness = "none"
    <3>1. ~Running("RegisterAllocator") /\ at # "Exited"
      BY <1>2, PassesAreKinds DEF NextFunction, Running, KnowledgeInv, Progress
    <3> QED BY <3>1, <1>0 DEF AnalysesInv
  <2> QED BY <1>0, <1>2, <2>1 DEF NextFunction, AnalysesInv, allocator
<1>3. CASE Invalidate \/ AskCodeFlow \/ RunPass
  BY <1>3, ManagersKeepAnalyses
<1>4. CASE BuildInterference \/ Spill \/ Color
  BY <1>4, AllocatorKeepsAnalyses
<1>5. CASE AllocationFails \/ Finish \/ Kill \/ Fatal
  BY <1>0, <1>5 DEF AllocationFails, Finish, Kill, Fatal, Throw, Exit, AnalysesInv, allocator
<1>6. CASE Emit \/ Open \/ Write \/ RemoveFinal \/ Rename
  <2>1. UNCHANGED <<cache, liveness>> /\ at \notin {"Exited", "Pipeline"}
    BY <1>6 DEF Emit, Open, Write, RemoveFinal, Rename, unchangedByEmission, allocator
  <2> QED BY <1>0, <2>1 DEF AnalysesInv, Running
<1>7. CASE Restart
  BY <1>7 DEF Restart, AnalysesInv, Managers, NoAnalyses
<1>8. CASE UNCHANGED vars
  <2>1. UNCHANGED <<options, place, cache, liveness>>
    BY <1>8 DEF vars, allocator
  <2> QED BY <1>0, <2>1, SamePasses DEF AnalysesInv, Running, Defined, Functions, place, options
<1> QED
  BY <1>1, <1>2, <1>3, <1>4, <1>5, <1>6, <1>7, <1>8 DEF Next, Steps

\* MirRegisterAllocatorPass::run and invalidateAnalysis: every round of every
\* allocation, for any functions and any options, builds its interference
\* graph from the liveness of the code as it is then.
THEOREM AllocationAlwaysSeesItsCode == Spec => []AllocationSeesItsCode
<1>1. KnowledgeInv => AllocationSeesItsCode
  BY DEF KnowledgeInv, AnalysesInv, AllocationSeesItsCode
<1> QED
  BY InitKnowledge, StepKeepsKnowledge, <1>1, PTL DEF Spec

-----------------------------------------------------------------------------
(* SSA construction: the order of the blocks, their dominator tree and      *)
(* their dominance frontiers.                                              *)

\* Some numbers have a least one.
LEMMA LeastOf ==
    ASSUME NEW T \in SUBSET Nat, T # {}
    PROVE  \E n \in T : \A m \in T : n <= m
<1> DEFINE R == {p \in Nat \X Nat : p[1] < p[2]}
<1>1. IsWellFoundedOn(R, Nat)
  BY NatLessThanWellFounded DEF OpToRel
<1>2. PICK n \in T : \A m \in T : ~ (<<m, n>> \in R)
  <2> HIDE DEF R
  <2> QED BY <1>1, WFMin
<1>3. ASSUME NEW m \in T PROVE n <= m
  <2>1. m \in Nat /\ n \in Nat /\ (m < n => <<m, n>> \in R)
    OBVIOUS
  <2> QED BY <1>2, <2>1
<1> QED BY <1>3

\* Induction over the naturals, for a set of them.
LEMMA InductionOver ==
    ASSUME NEW T, 0 \in T, \A n \in Nat : n \in T => n + 1 \in T
    PROVE  Nat \subseteq T
<1> DEFINE Missing == {n \in Nat : n \notin T}
<1> SUFFICES ASSUME Missing # {} PROVE FALSE
  OBVIOUS
<1>1. PICK n \in Missing : \A m \in Missing : n <= m
  BY LeastOf
<1>2. n \in Nat /\ n \notin T /\ n # 0
  OBVIOUS
<1>3. n - 1 \in Nat /\ ~(n <= n - 1) /\ n = (n - 1) + 1
  BY <1>2
<1>4. n - 1 \in T
  BY <1>1, <1>3
<1> QED BY <1>2, <1>3, <1>4

\* The blocks of a function are numbered from the entry.
GraphInv ==
    /\ Blocks \in SUBSET (Nat \ {0}) /\ IsFiniteSet(Blocks) /\ Entry \in Blocks
    /\ \A b \in Blocks : prog.succ[b] \subseteq Blocks

\* A function of the input is such a graph.
LEMMA GraphIs == prog \in Programs => GraphInv
<1> SUFFICES ASSUME prog \in Programs PROVE GraphInv
  OBVIOUS
<1>1. /\ prog.succ \in Seq(SUBSET Nat) /\ prog.succ # <<>>
      /\ \A b \in DOMAIN prog.succ : prog.succ[b] \subseteq DOMAIN prog.succ
  BY ProgramsAssumption
<1>2. PICK n \in Nat : n = Len(prog.succ) /\ DOMAIN prog.succ = 1 .. n /\ n # 0
  BY <1>1
<1>3. IsFiniteSet(1 .. n)
  BY FS_Interval
<1> QED BY <1>1, <1>2, <1>3 DEF GraphInv, Blocks, Entry

\* The successor that comes first is one of them.
LEMMA LeastBlock ==
    ASSUME GraphInv, NEW S \in SUBSET Blocks, S # {}
    PROVE  Min(S) \in S
<1>1. S \in SUBSET Nat
  BY DEF GraphInv
<1>2. \E n \in S : \A m \in S : n <= m
  BY <1>1, LeastOf
<1> QED BY <1>2 DEF Min

\* Of some numbers, one has a given number of them below it.
LEMMA RanksOfNumbers ==
    ASSUME NEW U \in SUBSET Nat, IsFiniteSet(U)
    PROVE  \A k \in 1 .. Cardinality(U) : \E x \in U : Cardinality({y \in U : y < x}) = k - 1
<1> DEFINE HasRanks(S, n) == \A k \in 1 .. n : \E x \in S : Cardinality({y \in S : y < x}) = k - 1
           T == {n \in Nat : \A S \in SUBSET U : Cardinality(S) = n => HasRanks(S, n)}
<1>1. 0 \in T
  OBVIOUS
<1>2. ASSUME NEW n \in Nat, n \in T PROVE n + 1 \in T
  <2>0. SUFFICES ASSUME NEW S \in SUBSET U, Cardinality(S) = n + 1 PROVE HasRanks(S, n + 1)
    <3> HIDE DEF HasRanks
    <3> QED OBVIOUS
  <2> SUFFICES ASSUME NEW k \in 1 .. n + 1 PROVE \E x \in S : Cardinality({y \in S : y < x}) = k - 1
    OBVIOUS
  <2>1. IsFiniteSet(S) /\ S \in SUBSET Nat
    BY FS_Subset
  <2>2. S # {}
    BY <2>0, FS_EmptySet
  <2>3. PICK m \in S : \A s \in S : m <= s
    BY <2>1, <2>2, LeastOf
  <2>4. \A s \in S \ {m} : m < s
    <3> SUFFICES ASSUME NEW s \in S \ {m} PROVE m < s
      OBVIOUS
    <3>1. s \in Nat /\ m \in Nat /\ s # m
      BY <2>1
    <3>2. m <= s
      BY <2>3
    <3> QED BY <3>1, <3>2
  <2>5. Cardinality(S \ {m}) = n /\ IsFiniteSet(S \ {m}) /\ S \ {m} \in SUBSET U
    <3>1. IsFiniteSet(S \ {m}) /\ Cardinality(S \ {m}) = Cardinality(S) - 1
      BY <2>1, FS_RemoveElement
    <3> QED BY <2>0, <3>1
  <2>6. CASE k = 1
    <3>0. ASSUME NEW s \in S PROVE ~(s < m)
      <4>1. s \in Nat /\ m \in Nat
        BY <2>1
      <4>2. m <= s
        BY <2>3
      <4> QED BY <4>1, <4>2
    <3>1. {s \in S : s < m} = {}
      BY <3>0
    <3>2. Cardinality({s \in S : s < m}) = 0 /\ k - 1 = 0
      BY <2>6, <3>1, FS_EmptySet
    <3> QED BY <3>2
  <2>7. CASE k # 1
    <3>1. k - 1 \in 1 .. n
      BY <2>7
    <3>2. PICK r \in S \ {m} : Cardinality({s \in S \ {m} : s < r}) = (k - 1) - 1
      BY <1>2, <2>5, <3>1
    <3> DEFINE A == {s \in S \ {m} : s < r}
    <3>3. {s \in S : s < r} = A \cup {m}
      BY <2>4
    <3>4. IsFiniteSet(A) /\ m \notin A
      BY <2>5, FS_Subset
    <3>5. Cardinality(A) = (k - 1) - 1
      BY <3>2
    <3> HIDE DEF A
    <3>6. Cardinality(A \cup {m}) = ((k - 1) - 1) + 1
      BY <3>4, <3>5, FS_AddElement
    <3>7. ((k - 1) - 1) + 1 = k - 1
      BY <3>1
    <3> QED BY <3>3, <3>6, <3>7
  <2> QED BY <2>6, <2>7
<1>3. Cardinality(U) \in T
  <2>1. Cardinality(U) \in Nat
    BY FS_CardinalityType
  <2> HIDE DEF T
  <2> QED BY <1>1, <1>2, <2>1, InductionOver
<1> QED BY <1>3

\* A set in ascending order is a list of its elements.
LEMMA AscendingLists ==
    ASSUME NEW S \in SUBSET Nat, IsFiniteSet(S)
    PROVE  /\ Ascending(S) \in Seq(S) /\ Len(Ascending(S)) = Cardinality(S)
           /\ ToSet(Ascending(S)) = S
<1> DEFINE Rank(x) == Cardinality({y \in S : y < x})
<1>1. PICK n \in Nat : n = Cardinality(S)
  BY FS_CardinalityType
<1>2. PICK a : a = Ascending(S)
  OBVIOUS
<1>3. a = [k \in 1 .. n |-> CHOOSE x \in S : Rank(x) = k - 1]
  BY <1>1, <1>2 DEF Ascending
<1>4. \A k \in 1 .. n : \E x \in S : Rank(x) = k - 1
  BY <1>1, RanksOfNumbers
<1>5. ASSUME NEW x \in S, NEW y \in S, x < y
      PROVE  Rank(x) \in Nat /\ Rank(y) \in Nat /\ Rank(x) < Rank(y) /\ Rank(y) < n
  <2> DEFINE Lower(z) == {w \in S : w < z}
  <2>1. IsFiniteSet(Lower(x)) /\ IsFiniteSet(Lower(y)) /\ Lower(x) \subseteq Lower(y) /\ x \in Lower(y) /\ x \notin Lower(x)
    <3>1. \A z : IsFiniteSet(Lower(z))
      BY FS_Subset
    <3>2. x \in Lower(y) /\ x \notin Lower(x)
      BY <1>5
    <3>3. ASSUME NEW w \in Lower(x) PROVE w \in Lower(y)
      <4>1. w \in Nat /\ x \in Nat /\ y \in Nat /\ w < x /\ x < y
        BY <1>5
      <4> QED BY <4>1
    <3> QED BY <3>1, <3>2, <3>3
  <2>2. Lower(y) \subseteq S /\ y \in S /\ y \notin Lower(y)
    OBVIOUS
  <2> HIDE DEF Lower
  <2>3. Cardinality(Lower(x)) \in Nat /\ Cardinality(Lower(y)) \in Nat
    BY <2>1, FS_CardinalityType
  <2>4. Cardinality(Lower(x)) < Cardinality(Lower(y))
    <3>1. Cardinality(Lower(x) \cup {x}) = Cardinality(Lower(x)) + 1
      BY <2>1, FS_AddElement
    <3>2. Cardinality(Lower(x) \cup {x}) <= Cardinality(Lower(y))
      <4>1. Lower(x) \cup {x} \subseteq Lower(y)
        BY <2>1
      <4> QED BY <2>1, <4>1, FS_Subset
    <3> QED BY <2>3, <3>1, <3>2
  <2>5. Cardinality(Lower(y)) < n
    <3>1. Cardinality(Lower(y) \cup {y}) = Cardinality(Lower(y)) + 1
      BY <2>1, <2>2, FS_AddElement
    <3>2. Cardinality(Lower(y) \cup {y}) <= Cardinality(S)
      <4>1. Lower(y) \cup {y} \subseteq S
        BY <2>2
      <4> QED BY <4>1, FS_Subset
    <3> QED BY <1>1, <2>3, <3>1, <3>2
  <2> QED BY <2>3, <2>4, <2>5 DEF Lower
<1>6. ASSUME NEW x \in S PROVE Rank(x) \in 0 .. n - 1
  <2>1. IsFiniteSet({y \in S : y < x}) /\ {y \in S : y < x} \subseteq S \ {x} /\ x \in S
    BY FS_Subset
  <2>2. IsFiniteSet(S \ {x}) /\ Cardinality(S \ {x}) = n - 1
    BY <1>1, FS_RemoveElement
  <2>3. Rank(x) \in Nat /\ Rank(x) <= n - 1
    BY <2>1, <2>2, FS_Subset, FS_CardinalityType
  <2> QED BY <2>3
<1> HIDE DEF Rank
<1>7. \A k \in 1 .. n : a[k] \in S /\ Rank(a[k]) = k - 1
  BY <1>3, <1>4
<1>8. a \in Seq(S) /\ Len(a) = n /\ DOMAIN a = 1 .. n
  BY <1>3, <1>7
<1>9. ASSUME NEW x \in S PROVE x \in ToSet(a)
  <2>1. Rank(x) + 1 \in 1 .. n /\ (Rank(x) + 1) - 1 = Rank(x)
    BY <1>6
  <2>2. PICK k \in 1 .. n : Rank(a[k]) = Rank(x) /\ a[k] \in S
    BY <1>7, <2>1
  <2>3. ~(a[k] < x) /\ ~(x < a[k])
    <3>1. Rank(x) \in Nat /\ ~(Rank(x) < Rank(x))
      BY <1>6
    <3> QED BY <1>5, <2>2, <3>1
  <2>4. a[k] = x
    <3>1. a[k] \in Nat /\ x \in Nat
      BY <2>2
    <3> QED BY <2>3, <3>1
  <2> QED BY <1>8, <2>4 DEF ToSet
<1>10. ToSet(a) \subseteq S
  BY <1>7, <1>8 DEF ToSet
<1> QED BY <1>1, <1>2, <1>8, <1>9, <1>10

-----------------------------------------------------------------------------
(* What can be reached, with and without a block.                          *)

\* A path to a block begins at the entry.
LEMMA ReachedBegins == ASSUME GraphInv, NEW a, a # Entry PROVE Entry \in ReachedWithout(a)
  BY DEF GraphInv, ReachedWithout

\* It goes on into every successor but the block to be avoided.
LEMMA ReachedGoesOn ==
    ASSUME GraphInv, NEW a, NEW b \in ReachedWithout(a), NEW c \in prog.succ[b], c # a
    PROVE  c \in ReachedWithout(a)
<1>1. b \in Blocks /\ c \in Blocks
  BY DEF GraphInv, ReachedWithout
<1>2. ASSUME NEW S \in SUBSET (Blocks \ {a}), {Entry} \ {a} \subseteq S,
             \A x \in S : prog.succ[x] \ {a} \subseteq S
      PROVE  c \in S
  <2>1. b \in S
    BY <1>2 DEF ReachedWithout
  <2> QED BY <1>2, <2>1
<1> QED BY <1>1, <1>2 DEF ReachedWithout

\* What holds at the entry and along those steps holds wherever they lead.
LEMMA ReachedLeast ==
    ASSUME NEW a, NEW S \in SUBSET (Blocks \ {a}), a # Entry => Entry \in S,
           \A x \in S : \A y \in prog.succ[x] : y # a => y \in S
    PROVE  ReachedWithout(a) \subseteq S
<1>1. {Entry} \ {a} \subseteq S /\ \A x \in S : prog.succ[x] \ {a} \subseteq S
  OBVIOUS
<1> QED BY <1>1 DEF ReachedWithout

\* The blocks that can be reached, and those that can be without one of them.
LEMMA ReachedBlocks ==
    ASSUME GraphInv
    PROVE  /\ Reached \in SUBSET Blocks /\ Entry \in Reached
           /\ \A b \in Reached : prog.succ[b] \subseteq Reached
           /\ \A a : ReachedWithout(a) \subseteq Reached /\ a \notin ReachedWithout(a)
<1>1. 0 \notin Blocks /\ Entry \in Blocks
  BY DEF GraphInv
<1>2. Entry \in Reached
  BY <1>1, ReachedBegins DEF Reached
<1>3. ASSUME NEW b \in Reached PROVE prog.succ[b] \subseteq Reached
  <2>1. \A c \in prog.succ[b] : c # 0
    BY <1>1 DEF GraphInv, Reached, ReachedWithout
  <2> QED BY <2>1, ReachedGoesOn DEF Reached
<1>4. Reached \in SUBSET Blocks
  BY DEF Reached, ReachedWithout
<1>5. ASSUME NEW a PROVE ReachedWithout(a) \subseteq Reached \ {a}
  <2> DEFINE S == Reached \ {a}
  <2>1. S \in SUBSET (Blocks \ {a}) /\ (a # Entry => Entry \in S)
    BY <1>2, <1>4
  <2>2. \A x \in S : \A y \in prog.succ[x] : y # a => y \in S
    BY <1>3
  <2> QED BY <2>1, <2>2, ReachedLeast
<1> QED BY <1>2, <1>3, <1>4, <1>5

\* On every path to x there is d.
Dominates(d, x) == x \in Reached /\ x \notin ReachedWithout(d)

\* What dominates a block dominates its predecessors, unless it is the block.
LEMMA DominatesBackwards ==
    ASSUME GraphInv, NEW d, NEW x, NEW p \in Reached, x \in prog.succ[p], Dominates(d, x), d # x
    PROVE  Dominates(d, p)
  BY ReachedGoesOn DEF Dominates

-----------------------------------------------------------------------------
(* The depth-first walk.                                                   *)

\* A list with one more element.
LEMMA ListAppended ==
    ASSUME NEW S, NEW s \in Seq(S), NEW x \in S
    PROVE  LET t == Append(s, x) IN
           /\ t \in Seq(S) /\ Len(t) = Len(s) + 1 /\ Len(s) \in Nat
           /\ \A k \in 1 .. Len(s) : t[k] = s[k]
           /\ t[Len(s) + 1] = x
           /\ ToSet(t) = ToSet(s) \cup {x}
  BY DEF ToSet

\* A list without its last element.
LEMMA ListShortened ==
    ASSUME NEW S, NEW s \in Seq(S), s # <<>>
    PROVE  LET t == Front(s) IN
           /\ t \in Seq(S) /\ Len(t) = Len(s) - 1 /\ Len(s) \in Nat \ {0}
           /\ \A k \in 1 .. Len(s) - 1 : t[k] = s[k]
           /\ Last(s) = s[Len(s)] /\ Last(s) \in S
           /\ ToSet(s) = ToSet(t) \cup {Last(s)}
<1>1. PICK n \in Nat : n = Len(s) /\ n # 0 /\ DOMAIN s = 1 .. n
  OBVIOUS
<1>2. PICK t : t = Front(s)
  OBVIOUS
<1>3. /\ t \in Seq(S) /\ Len(t) = n - 1 /\ DOMAIN t = 1 .. n - 1
      /\ \A k \in 1 .. n - 1 : t[k] = s[k]
  BY <1>1, <1>2 DEF Front
<1>4. Last(s) = s[n] /\ s[n] \in S
  BY <1>1 DEF Last
<1>5. ToSet(s) = ToSet(t) \cup {s[n]}
  <2>1. ToSet(s) = {s[k] : k \in 1 .. n}
    BY <1>1 DEF ToSet
  <2>2. ToSet(t) = {s[k] : k \in 1 .. n - 1}
    BY <1>3 DEF ToSet
  <2>3. 1 .. n = (1 .. n - 1) \cup {n}
    BY <1>1
  <2> QED BY <2>1, <2>2, <2>3
<1> QED BY <1>1, <1>2, <1>3, <1>4, <1>5

Once(s) == \A j, k \in 1 .. Len(s) : s[j] = s[k] => j = k

\* What is listed is still entered from a block that is listed later, or from
\* one that the walk has not left.
EnteredFromLater(k) ==
    \/ \E j \in k + 1 .. Len(postOrder) : postOrder[k] \in prog.succ[postOrder[j]]
    \/ \E j \in 1 .. Len(walk) : postOrder[k] \in prog.succ[walk[j]]

WalkInv ==
    /\ walk \in Seq(Blocks) /\ postOrder \in Seq(Blocks)
    /\ Once(walk) /\ Once(postOrder) /\ ToSet(walk) \cap ToSet(postOrder) = {}
    /\ ToSet(walk) \cup ToSet(postOrder) \subseteq Reached
    /\ Entry \in ToSet(walk) \cup ToSet(postOrder)
    /\ walk # <<>> => walk[1] = Entry
    /\ \A k \in 1 .. Len(walk) - 1 : walk[k + 1] \in prog.succ[walk[k]]
    /\ \A k \in 1 .. Len(postOrder) : postOrder[k] = Entry \/ EnteredFromLater(k)
    /\ \A b \in ToSet(postOrder) : prog.succ[b] \subseteq ToSet(walk) \cup ToSet(postOrder)

\* The walk begins with a call for the entry.
LEMMA WalkBegins ==
    ASSUME GraphInv', walk' = <<Entry>>, postOrder' = <<>>, UNCHANGED prog
    PROVE  WalkInv'
<1>0. GraphInv /\ Reached' = Reached /\ Blocks' = Blocks
  BY DEF GraphInv, Reached, ReachedWithout, Blocks
<1>1. walk' \in Seq(Blocks) /\ Len(walk') = 1 /\ walk'[1] = Entry /\ ToSet(walk') = {Entry}
  BY <1>0 DEF GraphInv, ToSet
<1>2. postOrder' \in Seq(Blocks) /\ Len(postOrder') = 0 /\ ToSet(postOrder') = {}
  BY DEF ToSet
<1>3. Entry \in Reached
  BY <1>0, ReachedBlocks
<1>4. Once(walk') /\ Once(postOrder')
  BY <1>1, <1>2 DEF Once
<1> QED BY <1>0, <1>1, <1>2, <1>3, <1>4 DEF WalkInv

\* A call for a block that has not been visited.
LEMMA WalkEnters == ASSUME GraphInv, WalkInv, EnterSuccessor PROVE WalkInv'
<1> DEFINE last == walk[Len(walk)]
<1>1. PICK x : x = Min(Unvisited)
  OBVIOUS
<1>2. /\ walk # <<>> /\ Unvisited # {} /\ walk' = Append(walk, x)
      /\ postOrder' = postOrder /\ prog' = prog
  BY <1>1 DEF EnterSuccessor
<1>3. last \in ToSet(walk) /\ Last(walk) = last /\ last \in Blocks /\ Len(walk) \in Nat \ {0}
  BY <1>2 DEF WalkInv, ToSet, Last
<1>4. x \in prog.succ[last] /\ x \notin ToSet(walk) /\ x \notin ToSet(postOrder) /\ x \in Blocks /\ x \in Reached
  <2>1. prog.succ[last] \subseteq Blocks
    BY <1>3 DEF GraphInv
  <2>2. Unvisited \in SUBSET Blocks
    BY <1>3, <2>1 DEF Unvisited
  <2>3. x \in Unvisited
    BY <1>1, <1>2, <2>2, LeastBlock
  <2>4. last \in Reached
    BY <1>3 DEF WalkInv
  <2> QED BY <1>3, <2>1, <2>3, <2>4, ReachedBlocks DEF Unvisited
<1>5. PICK n \in Nat : n = Len(walk) /\ n > 0
  BY <1>3
<1>6. /\ walk' \in Seq(Blocks) /\ Len(walk') = n + 1
      /\ \A k \in 1 .. n : walk'[k] = walk[k]
      /\ walk'[n + 1] = x
      /\ ToSet(walk') = ToSet(walk) \cup {x}
  <2>1. walk \in Seq(Blocks)
    BY DEF WalkInv
  <2> QED BY <1>2, <1>4, <1>5, <2>1, ListAppended
<1>7. \A k \in 1 .. n : walk[k] \in ToSet(walk)
  BY <1>5 DEF WalkInv, ToSet
<1>8. Once(walk')
  <2> SUFFICES ASSUME NEW j \in 1 .. n + 1, NEW k \in 1 .. n + 1, walk'[j] = walk'[k] PROVE j = k
    BY <1>6 DEF Once
  <2>1. CASE j \in 1 .. n /\ k \in 1 .. n
    BY <1>5, <1>6, <2>1 DEF WalkInv, Once
  <2>2. CASE j = n + 1 \/ k = n + 1
    BY <1>4, <1>6, <1>7, <2>2
  <2> QED BY <2>1, <2>2
<1>9. \A k \in 1 .. n : walk'[k + 1] \in prog.succ[walk'[k]]
  <2> SUFFICES ASSUME NEW k \in 1 .. n PROVE walk'[k + 1] \in prog.succ[walk'[k]]
    OBVIOUS
  <2>1. CASE k = n
    BY <1>4, <1>5, <1>6, <2>1
  <2>2. CASE k # n
    <3>1. k \in 1 .. n - 1 /\ k + 1 \in 1 .. n
      BY <2>2
    <3> QED BY <1>5, <1>6, <3>1 DEF WalkInv
  <2> QED BY <2>1, <2>2
<1>10. \A k \in 1 .. Len(postOrder) : postOrder[k] = Entry \/ EnteredFromLater(k)'
  <2> SUFFICES ASSUME NEW k \in 1 .. Len(postOrder), postOrder[k] # Entry, NEW j \in 1 .. n,
                      postOrder[k] \in prog.succ[walk[j]]
               PROVE  EnteredFromLater(k)'
    BY <1>2, <1>5 DEF WalkInv, EnteredFromLater
  <2>1. j \in 1 .. Len(walk') /\ walk'[j] = walk[j]
    BY <1>6
  <2> QED BY <1>2, <2>1 DEF EnteredFromLater
<1>11. Reached' = Reached /\ Blocks' = Blocks
  BY <1>2 DEF Reached, ReachedWithout, Blocks
<1>12. ToSet(walk') \cap ToSet(postOrder) = {} /\ ToSet(walk') \cup ToSet(postOrder) \subseteq Reached
  BY <1>4, <1>6 DEF WalkInv
<1>13. walk'[1] = Entry /\ Len(walk') - 1 = n
  BY <1>2, <1>5, <1>6 DEF WalkInv
<1> QED BY <1>2, <1>6, <1>8, <1>9, <1>10, <1>11, <1>12, <1>13 DEF WalkInv

\* A block whose successors have all been visited is listed.
LEMMA WalkLeaves == ASSUME GraphInv, WalkInv, LeaveBlock PROVE WalkInv'
<1>1. PICK x : x = Last(walk)
  OBVIOUS
<1>2. /\ walk # <<>> /\ Unvisited = {} /\ walk' = Front(walk)
      /\ postOrder' = Append(postOrder, x) /\ prog' = prog
  BY <1>1 DEF LeaveBlock
<1>3. PICK n \in Nat, m \in Nat : n = Len(walk) /\ m = Len(postOrder) /\ n > 0
  BY <1>2 DEF WalkInv
<1>4. /\ walk' \in Seq(Blocks) /\ Len(walk') = n - 1
      /\ \A k \in 1 .. n - 1 : walk'[k] = walk[k]
      /\ x = walk[n] /\ x \in Blocks
      /\ ToSet(walk) = ToSet(walk') \cup {x}
  <2>1. walk \in Seq(Blocks)
    BY DEF WalkInv
  <2> QED BY <1>1, <1>2, <1>3, <2>1, ListShortened
<1>5. /\ postOrder' \in Seq(Blocks) /\ Len(postOrder') = m + 1
      /\ \A k \in 1 .. m : postOrder'[k] = postOrder[k]
      /\ postOrder'[m + 1] = x
      /\ ToSet(postOrder') = ToSet(postOrder) \cup {x}
  <2>1. postOrder \in Seq(Blocks)
    BY DEF WalkInv
  <2> QED BY <1>2, <1>3, <1>4, <2>1, ListAppended
<1>6. \A k \in 1 .. m : postOrder[k] \in ToSet(postOrder)
  BY <1>3 DEF WalkInv, ToSet
<1>7. x \in ToSet(walk) /\ x \notin ToSet(postOrder)
  BY <1>4 DEF WalkInv
<1>8. x \notin ToSet(walk')
  <2> SUFFICES ASSUME x \in ToSet(walk') PROVE FALSE
    OBVIOUS
  <2>1. PICK k \in 1 .. n - 1 : walk'[k] = x
    BY <1>4 DEF ToSet
  <2>2. walk[k] = walk[n] /\ k \in 1 .. n /\ n \in 1 .. n /\ k # n
    BY <1>3, <1>4, <2>1
  <2> QED BY <1>3, <2>2 DEF WalkInv, Once
<1>9. Once(walk')
  <2> SUFFICES ASSUME NEW j \in 1 .. n - 1, NEW k \in 1 .. n - 1, walk'[j] = walk'[k] PROVE j = k
    BY <1>4 DEF Once
  <2>1. walk[j] = walk[k] /\ j \in 1 .. n /\ k \in 1 .. n
    BY <1>4
  <2> QED BY <1>3, <2>1 DEF WalkInv, Once
<1>10. Once(postOrder')
  <2> SUFFICES ASSUME NEW j \in 1 .. m + 1, NEW k \in 1 .. m + 1, postOrder'[j] = postOrder'[k] PROVE j = k
    BY <1>5 DEF Once
  <2>1. CASE j \in 1 .. m /\ k \in 1 .. m
    BY <1>3, <1>5, <2>1 DEF WalkInv, Once
  <2>2. CASE j = m + 1 \/ k = m + 1
    BY <1>5, <1>6, <1>7, <2>2
  <2> QED BY <2>1, <2>2
<1>11. \A k \in 1 .. (n - 1) - 1 : walk'[k + 1] \in prog.succ[walk'[k]]
  <2> SUFFICES ASSUME NEW k \in 1 .. (n - 1) - 1 PROVE walk'[k + 1] \in prog.succ[walk'[k]]
    OBVIOUS
  <2>1. k \in 1 .. n - 1 /\ k + 1 \in 1 .. n - 1
    OBVIOUS
  <2> QED BY <1>3, <1>4, <2>1 DEF WalkInv
<1>12. \A k \in 1 .. m + 1 : postOrder'[k] = Entry \/ EnteredFromLater(k)'
  <2> SUFFICES ASSUME NEW k \in 1 .. m + 1, postOrder'[k] # Entry PROVE EnteredFromLater(k)'
    OBVIOUS
  <2>1. CASE k = m + 1
    <3>1. n # 1
      BY <1>2, <1>3, <1>4, <1>5, <2>1 DEF WalkInv
    <3>2. n - 1 \in 1 .. n - 1 /\ (n - 1) + 1 = n
      BY <1>3, <3>1
    <3>3. x \in prog.succ[walk'[n - 1]]
      BY <1>3, <1>4, <3>2 DEF WalkInv
    <3> QED BY <1>2, <1>4, <1>5, <2>1, <3>2, <3>3 DEF EnteredFromLater
  <2>2. CASE k \in 1 .. m
    <3>1. postOrder'[k] = postOrder[k] /\ postOrder[k] # Entry
      BY <1>5, <2>2
    <3>2. EnteredFromLater(k)
      BY <1>3, <2>2, <3>1 DEF WalkInv
    <3>3. CASE \E j \in k + 1 .. m : postOrder[k] \in prog.succ[postOrder[j]]
      <4>1. PICK j \in k + 1 .. m : postOrder[k] \in prog.succ[postOrder[j]]
        BY <3>3
      <4>2. j \in k + 1 .. m + 1 /\ j \in 1 .. m
        BY <2>2
      <4>3. postOrder'[j] = postOrder[j]
        BY <1>5, <4>2
      <4> QED BY <1>2, <1>5, <3>1, <4>1, <4>2, <4>3 DEF EnteredFromLater
    <3>4. CASE \E j \in 1 .. n : postOrder[k] \in prog.succ[walk[j]]
      <4>1. PICK j \in 1 .. n : postOrder[k] \in prog.succ[walk[j]]
        BY <3>4
      <4>2. CASE j = n
        <5>1. m + 1 \in k + 1 .. m + 1 /\ postOrder[k] \in prog.succ[postOrder'[m + 1]]
          BY <1>4, <1>5, <2>2, <4>1, <4>2
        <5> QED BY <1>2, <1>5, <3>1, <5>1 DEF EnteredFromLater
      <4>3. CASE j # n
        <5>1. j \in 1 .. n - 1
          BY <4>3
        <5>2. walk'[j] = walk[j]
          BY <1>4, <5>1
        <5> QED BY <1>2, <1>4, <3>1, <4>1, <5>1, <5>2 DEF EnteredFromLater
      <4> QED BY <4>2, <4>3
    <3> QED BY <1>3, <3>2, <3>3, <3>4 DEF EnteredFromLater
  <2> QED BY <2>1, <2>2
<1>13. Reached' = Reached /\ Blocks' = Blocks
  BY <1>2 DEF Reached, ReachedWithout, Blocks
<1>14. ToSet(walk') \cup ToSet(postOrder') = ToSet(walk) \cup ToSet(postOrder)
  BY <1>4, <1>5
<1>15. ToSet(walk') \cap ToSet(postOrder') = {}
  BY <1>4, <1>5, <1>8 DEF WalkInv
<1>16. walk' # <<>> => walk'[1] = Entry
  <2> SUFFICES ASSUME walk' # <<>> PROVE walk'[1] = Entry
    OBVIOUS
  <2>1. 1 \in 1 .. n - 1
    BY <1>3, <1>4
  <2> QED BY <1>2, <1>4, <2>1 DEF WalkInv
<1>17. \A b \in ToSet(postOrder') : prog.succ[b] \subseteq ToSet(walk) \cup ToSet(postOrder)
  <2>1. prog.succ[x] \subseteq ToSet(walk) \cup ToSet(postOrder)
    BY <1>1, <1>2 DEF Unvisited
  <2> QED BY <1>5, <2>1 DEF WalkInv
<1>18. walk' \in Seq(Blocks) /\ postOrder' \in Seq(Blocks) /\ ToSet(walk') \cup ToSet(postOrder') \subseteq Reached /\ Entry \in ToSet(walk') \cup ToSet(postOrder')
  BY <1>4, <1>5, <1>13, <1>14 DEF WalkInv
<1> QED BY <1>2, <1>4, <1>5, <1>9, <1>10, <1>11, <1>12, <1>13, <1>14, <1>15, <1>16, <1>17, <1>18 DEF WalkInv

-----------------------------------------------------------------------------
(* The post-order, and trees over it.                                      *)

\* All that can be reached is listed once, behind a block it is entered from.
OrderInv ==
    /\ postOrder \in Seq(Blocks) /\ Once(postOrder) /\ ToSet(postOrder) = Reached
    /\ \A k \in 1 .. Len(postOrder) :
          postOrder[k] = Entry \/ \E j \in k + 1 .. Len(postOrder) : postOrder[k] \in prog.succ[postOrder[j]]

\* When all calls have returned, the list is a post-order.
LEMMA WalkEnds == ASSUME GraphInv, WalkInv, walk = <<>> PROVE OrderInv
<1>1. ToSet(walk) = {} /\ Len(walk) = 0
  BY DEF ToSet
<1>2. ToSet(postOrder) \subseteq Reached /\ Entry \in ToSet(postOrder)
  BY <1>1 DEF WalkInv
<1>3. Reached \subseteq ToSet(postOrder)
  <2> DEFINE S == ToSet(postOrder)
  <2>1. 0 \notin Blocks
    BY DEF GraphInv
  <2>2. S \in SUBSET (Blocks \ {0})
    BY <1>2, <2>1, ReachedBlocks
  <2>3. \A x \in S : \A y \in prog.succ[x] : y \in S
    BY <1>1 DEF WalkInv
  <2> HIDE DEF S
  <2>4. ReachedWithout(0) \subseteq S
    BY <1>2, <2>2, <2>3, ReachedLeast DEF S
  <2> QED BY <2>4 DEF Reached, S
<1>4. \A k \in 1 .. Len(postOrder) :
        postOrder[k] = Entry \/ \E j \in k + 1 .. Len(postOrder) : postOrder[k] \in prog.succ[postOrder[j]]
  BY <1>1 DEF WalkInv, EnteredFromLater
<1> QED BY <1>2, <1>3, <1>4 DEF WalkInv, OrderInv

\* What Index is: a number for each block, the highest for the entry.
LEMMA IndexIs ==
    ASSUME GraphInv, OrderInv
    PROVE  /\ Len(postOrder) \in Nat
           /\ \A x \in Reached : Index(x) \in 1 .. Len(postOrder) /\ postOrder[Index(x)] = x
           /\ \A k \in 1 .. Len(postOrder) : postOrder[k] \in Reached /\ Index(postOrder[k]) = k
           /\ \A x, y \in Reached : Index(x) = Index(y) => x = y
           /\ \A x \in Reached : Index(x) <= Index(Entry)
           /\ \A x \in Reached : x # Entry => \E p \in Reached : x \in prog.succ[p] /\ Index(x) < Index(p)
<1>1. PICK n \in Nat : n = Len(postOrder) /\ DOMAIN postOrder = 1 .. n
  BY DEF OrderInv
<1>2. Reached = {postOrder[k] : k \in 1 .. n}
  BY <1>1 DEF OrderInv, ToSet
<1>3. ASSUME NEW x \in Reached PROVE Index(x) \in 1 .. n /\ postOrder[Index(x)] = x
  <2>1. \E k \in DOMAIN postOrder : postOrder[k] = x
    BY <1>1, <1>2
  <2> QED BY <1>1, <2>1 DEF Index
<1>4. ASSUME NEW k \in 1 .. n PROVE postOrder[k] \in Reached /\ Index(postOrder[k]) = k
  <2>1. postOrder[k] \in Reached
    BY <1>2
  <2>2. Index(postOrder[k]) \in 1 .. n /\ postOrder[Index(postOrder[k])] = postOrder[k]
    BY <1>3, <2>1
  <2> QED BY <1>1, <2>1, <2>2 DEF OrderInv, Once
<1>5. ASSUME NEW x \in Reached, x # Entry
      PROVE  \E p \in Reached : x \in prog.succ[p] /\ Index(x) < Index(p)
  <2>1. PICK k \in 1 .. n : k = Index(x) /\ postOrder[k] = x
    BY <1>3
  <2>2. PICK j \in k + 1 .. n : x \in prog.succ[postOrder[j]]
    BY <1>1, <1>5, <2>1 DEF OrderInv
  <2>3. j \in 1 .. n /\ k < j
    BY <2>1
  <2> QED BY <1>4, <2>1, <2>2, <2>3
<1>6. ASSUME NEW x \in Reached PROVE Index(x) <= Index(Entry)
  <2>1. Entry \in Reached
    BY ReachedBlocks
  <2>2. n \in 1 .. n
    BY <1>3, <2>1
  <2>3. postOrder[n] = Entry
    <3> SUFFICES ASSUME postOrder[n] # Entry PROVE FALSE
      OBVIOUS
    <3>1. PICK p \in Reached : Index(postOrder[n]) < Index(p)
      BY <1>4, <1>5, <2>2
    <3>2. Index(postOrder[n]) = n /\ Index(p) \in 1 .. n
      BY <1>3, <1>4, <2>2
    <3> QED BY <3>1, <3>2
  <2>4. Index(Entry) = n
    BY <1>4, <2>2, <2>3
  <2> QED BY <1>3, <2>4
<1>7. \A x, y \in Reached : Index(x) = Index(y) => x = y
  BY <1>3
<1> QED BY <1>1, <1>3, <1>4, <1>5, <1>6, <1>7

\* A tree of some blocks, in which parents come later.
IsTree(f) ==
    /\ Entry \in DOMAIN f /\ f[Entry] = Entry /\ DOMAIN f \subseteq Reached
    /\ \A x \in DOMAIN f : f[x] \in DOMAIN f /\ (x # Entry => Index(x) < Index(f[x]))

\* The ancestors of a block, itself included.
Above(f, x) == {a \in DOMAIN f : \A S \in SUBSET DOMAIN f : x \in S /\ (\A y \in S : f[y] \in S) => a \in S}

\* What holds for a block and goes on to parents holds for all its ancestors.
LEMMA AboveLeast ==
    ASSUME NEW f, NEW x, NEW S, x \in S, x \in DOMAIN f,
           \A y \in S \cap DOMAIN f : f[y] \in S \cap DOMAIN f
    PROVE  Above(f, x) \subseteq S
<1> DEFINE T == S \cap DOMAIN f
<1>1. T \in SUBSET DOMAIN f /\ x \in T /\ \A y \in T : f[y] \in T
  OBVIOUS
<1>2. Above(f, x) \subseteq T
  <2> HIDE DEF T
  <2> QED BY <1>1 DEF Above
<1> QED BY <1>2

\* The ancestors of a block: itself, those of its parent, and the entry last.
LEMMA AboveIs ==
    ASSUME GraphInv, OrderInv, NEW f, IsTree(f), NEW x \in DOMAIN f
    PROVE  /\ x \in Above(f, x) /\ Above(f, x) \subseteq DOMAIN f
           /\ \A a \in Above(f, x) : f[a] \in Above(f, x)
           /\ Above(f, x) = {x} \cup Above(f, f[x])
           /\ \A a \in Above(f, x) : a = x \/ Index(x) < Index(a)
           /\ x \notin Above(f, f[x]) \/ x = Entry
           /\ Above(f, Entry) = {Entry}
           /\ Entry \in Above(f, x)
<1>1. \A y \in DOMAIN f : f[y] \in DOMAIN f /\ y \in Reached
  BY DEF IsTree
<1>2. ASSUME NEW y \in DOMAIN f PROVE y \in Above(f, y) /\ Above(f, y) \subseteq DOMAIN f
  BY DEF Above
<1>3. ASSUME NEW y \in DOMAIN f, NEW a \in Above(f, y) PROVE f[a] \in Above(f, y)
  <2>1. f[a] \in DOMAIN f
    BY <1>1 DEF Above
  <2> QED BY <2>1 DEF Above
<1>4. Above(f, f[x]) \subseteq Above(f, x)
  <2>1. f[x] \in Above(f, x) /\ f[x] \in DOMAIN f
    BY <1>1, <1>2, <1>3
  <2> QED BY <1>1, <1>3, <2>1, AboveLeast
<1>5. Above(f, x) \subseteq {x} \cup Above(f, f[x])
  <2> DEFINE S == {x} \cup Above(f, f[x])
  <2>1. f[x] \in DOMAIN f
    BY <1>1
  <2>2. f[x] \in Above(f, f[x])
    BY <1>2, <2>1
  <2>3. \A y \in S \cap DOMAIN f : f[y] \in S \cap DOMAIN f
    BY <1>1, <1>3, <2>1, <2>2
  <2>4. x \in S
    OBVIOUS
  <2> HIDE DEF S
  <2>5. Above(f, x) \subseteq S
    BY <2>3, <2>4, AboveLeast
  <2> QED BY <2>5 DEF S
<1>6. ASSUME NEW y \in DOMAIN f, NEW a \in Above(f, y) PROVE a = y \/ Index(y) < Index(a)
  <2> DEFINE S == {z \in DOMAIN f : z = y \/ Index(y) < Index(z)}
  <2>1. ASSUME NEW z \in S PROVE f[z] \in S
    <3>1. f[z] \in DOMAIN f /\ (z = Entry => f[z] = z) /\ (z # Entry => Index(z) < Index(f[z]))
      BY <1>1 DEF IsTree
    <3>2. Index(z) \in Nat /\ Index(f[z]) \in Nat /\ Index(y) \in Nat
      BY <1>1, <3>1, IndexIs
    <3> QED BY <3>1, <3>2
  <2>2. y \in S /\ \A z \in S \cap DOMAIN f : f[z] \in S \cap DOMAIN f
    BY <1>1, <2>1
  <2> HIDE DEF S
  <2>3. Above(f, y) \subseteq S
    BY <2>2, AboveLeast
  <2> QED BY <2>3 DEF S
<1>7. x \notin Above(f, f[x]) \/ x = Entry
  <2> SUFFICES ASSUME x # Entry, x \in Above(f, f[x]) PROVE FALSE
    OBVIOUS
  <2>1. Index(x) < Index(f[x]) /\ f[x] \in DOMAIN f
    BY DEF IsTree
  <2>2. x = f[x] \/ Index(f[x]) < Index(x)
    BY <1>6, <2>1
  <2>3. Index(x) \in Nat /\ Index(f[x]) \in Nat
    BY <1>1, <2>1, IndexIs
  <2> QED BY <2>1, <2>2, <2>3
<1>8. Entry \in DOMAIN f /\ f[Entry] = Entry
  BY DEF IsTree
<1>9. Above(f, Entry) = {Entry}
  <2>1. Above(f, Entry) \subseteq {Entry}
    BY <1>8, AboveLeast
  <2> QED BY <1>2, <1>8, <2>1
<1>10. Entry \in Above(f, x)
  <2> DEFINE High == {Index(a) : a \in Above(f, x)}
             Gap == {Index(Entry) - k : k \in High}
  <2>1. \A a \in Above(f, x) : a \in DOMAIN f /\ Index(a) \in Nat /\ Index(Entry) \in Nat /\ Index(a) <= Index(Entry)
    BY <1>1, <1>2, <1>8, IndexIs
  <2>2. Gap \in SUBSET Nat /\ Gap # {}
    BY <1>2, <2>1
  <2>3. PICK g \in Gap : \A h \in Gap : g <= h
    BY <2>2, LeastOf
  <2>4. PICK a \in Above(f, x) : g = Index(Entry) - Index(a)
    OBVIOUS
  <2>5. f[a] \in Above(f, x)
    BY <1>3
  <2>6. g <= Index(Entry) - Index(f[a])
    BY <2>3, <2>5
  <2>7. ~(Index(a) < Index(f[a]))
    BY <2>1, <2>4, <2>5, <2>6
  <2>8. a = Entry
    BY <2>1, <2>7 DEF IsTree
  <2> QED BY <2>8
<1> QED BY <1>2, <1>3, <1>4, <1>5, <1>6, <1>7, <1>9, <1>10

\* A block that is above another, neither of them above the other's parents alone.
LEMMA AboveBoth ==
    ASSUME GraphInv, OrderInv, NEW f, IsTree(f), NEW x \in DOMAIN f, NEW y \in DOMAIN f,
           x # y, Index(x) < Index(y)
    PROVE  Above(f, x) \cap Above(f, y) = Above(f, f[x]) \cap Above(f, y)
<1>1. Above(f, x) = {x} \cup Above(f, f[x])
  BY AboveIs
<1>2. x \notin Above(f, y)
  <2> SUFFICES ASSUME x \in Above(f, y) PROVE FALSE
    OBVIOUS
  <2>1. Index(y) < Index(x)
    BY AboveIs
  <2>2. Index(x) \in Nat /\ Index(y) \in Nat
    BY IndexIs DEF IsTree
  <2> QED BY <2>1, <2>2
<1> QED BY <1>1, <1>2

\* What intersect returns is above what both blocks have above them.
LEMMA IntersectIs ==
    ASSUME GraphInv, OrderInv, IsTree(idom), NEW b1 \in DOMAIN idom, NEW b2 \in DOMAIN idom
    PROVE  /\ Intersect(b1, b2) \in DOMAIN idom
           /\ Above(idom, Intersect(b1, b2)) = Above(idom, b1) \cap Above(idom, b2)
<1> DEFINE D == DOMAIN idom
           Body(g, n, x, y) ==
              IF n = 0 \/ x = y THEN x
              ELSE IF Index(x) < Index(y) THEN g[n - 1][idom[x]][y] ELSE g[n - 1][x][idom[y]]
           Is(g, m) == g = [n \in 0 .. m |-> [x \in D |-> [y \in D |-> Body(g, n, x, y)]]]
           T == {m \in Nat : \E g : Is(g, m)}
<1>1. PICK last \in Nat : last = 2 * Len(postOrder) /\ \A x \in D : Index(x) \in Nat /\ 2 * Index(x) <= last
  <2>1. \A x \in D : Index(x) \in 1 .. Len(postOrder) /\ Len(postOrder) \in Nat
    BY IndexIs DEF IsTree
  <2> QED BY <2>1
<1>2. \A x \in D : idom[x] \in D /\ (x # Entry => Index(x) < Index(idom[x])) /\ (x = Entry => idom[x] = x) /\ x \in Reached
  BY DEF IsTree
<1>3. 0 \in T
  <2> DEFINE g == [n \in 0 .. 0 |-> [x \in D |-> [y \in D |-> x]]]
  <2>1. \A n \in 0 .. 0, x \in D, y \in D : Body(g, n, x, y) = x
    OBVIOUS
  <2>2. [n \in 0 .. 0 |-> [x \in D |-> [y \in D |-> Body(g, n, x, y)]]] = g
    BY <2>1
  <2> HIDE DEF g, Body
  <2>3. Is(g, 0)
    BY <2>2
  <2> QED BY <2>3
<1>4. ASSUME NEW m \in Nat, m \in T PROVE m + 1 \in T
  <2>1. PICK f : Is(f, m)
    BY <1>4
  <2> DEFINE g == [n \in 0 .. m + 1 |-> [x \in D |-> [y \in D |-> Body(f, n, x, y)]]]
  <2>2. ASSUME NEW n \in 0 .. m, NEW x \in D, NEW y \in D PROVE g[n][x][y] = f[n][x][y]
    <3>1. n \in 0 .. m + 1
      OBVIOUS
    <3>2. g[n][x][y] = Body(f, n, x, y)
      <4> HIDE DEF Body
      <4> QED BY <3>1
    <3>3. f[n][x][y] = Body(f, n, x, y)
      <4> DEFINE h == [k \in 0 .. m |-> [u \in D |-> [v \in D |-> Body(f, k, u, v)]]]
      <4>1. h[n][x][y] = Body(f, n, x, y)
        <5> HIDE DEF Body, D
        <5> QED OBVIOUS
      <4>2. f = h
        BY <2>1
      <4> HIDE DEF h, Body
      <4> QED BY <4>1, <4>2
    <3> QED BY <3>2, <3>3
  <2>3. ASSUME NEW n \in 0 .. m + 1, NEW x \in D, NEW y \in D PROVE Body(f, n, x, y) = Body(g, n, x, y)
    <3> HIDE DEF g
    <3>1. CASE n = 0
      BY <3>1
    <3>2. CASE n # 0
      <4>1. n - 1 \in 0 .. m /\ idom[x] \in D /\ idom[y] \in D
        BY <1>2, <3>2
      <4>2. g[n - 1][idom[x]][y] = f[n - 1][idom[x]][y] /\ g[n - 1][x][idom[y]] = f[n - 1][x][idom[y]]
        BY <2>2, <4>1
      <4> QED BY <4>2
    <3> QED BY <3>1, <3>2
  <2>4. g = [n \in 0 .. m + 1 |-> [x \in D |-> [y \in D |-> Body(g, n, x, y)]]]
    <3> HIDE DEF Body
    <3> QED BY <2>3
  <2> HIDE DEF g
  <2>5. Is(g, m + 1)
    BY <2>4
  <2> HIDE DEF Is
  <2> QED BY <2>5
<1> DEFINE meet == CHOOSE g : Is(g, last)
<1>5. Intersect(b1, b2) = meet[last][b1][b2]
  BY <1>1 DEF Intersect
<1>6. Is(meet, last)
  <2> HIDE DEF Is, T
  <2>1. last \in T
    BY <1>1, <1>3, <1>4, InductionOver
  <2>2. \E g : Is(g, last)
    BY <2>1 DEF T
  <2> QED BY <2>2
<1> HIDE DEF meet
<1>7. ASSUME NEW n \in 0 .. last, NEW x \in D, NEW y \in D PROVE meet[n][x][y] = Body(meet, n, x, y)
  <2> DEFINE h == [k \in 0 .. last |-> [u \in D |-> [v \in D |-> Body(meet, k, u, v)]]]
  <2>1. h[n][x][y] = Body(meet, n, x, y)
    <3> HIDE DEF Body, D
    <3> QED OBVIOUS
  <2>2. meet = h
    BY <1>6
  <2> HIDE DEF h, Body
  <2> QED BY <2>1, <2>2
<1> DEFINE Good(n) == \A x \in D, y \in D :
              (last - Index(x)) - Index(y) <= n =>
                  meet[n][x][y] \in D /\ Above(idom, meet[n][x][y]) = Above(idom, x) \cap Above(idom, y)
           U == {n \in Nat : n \in 0 .. last => Good(n)}
<1>8. ASSUME NEW x \in D, NEW y \in D, (last - Index(x)) - Index(y) <= 0 PROVE x = y
  <2>1. Index(x) \in Nat /\ Index(y) \in Nat /\ 2 * Index(x) <= last /\ 2 * Index(y) <= last
    BY <1>1
  <2>2. Index(x) = Index(y)
    BY <1>8, <2>1
  <2> QED BY <1>2, <2>2, IndexIs
<1>10. 0 \in U
  <2> SUFFICES ASSUME 0 \in 0 .. last, NEW x \in D, NEW y \in D, (last - Index(x)) - Index(y) <= 0
               PROVE  meet[0][x][y] \in D /\ Above(idom, meet[0][x][y]) = Above(idom, x) \cap Above(idom, y)
    OBVIOUS
  <2>1. x = y
    BY <1>8
  <2>2. meet[0][x][y] = x
    BY <1>7
  <2> QED BY <2>1, <2>2
<1>11. ASSUME NEW n \in Nat, n \in U PROVE n + 1 \in U
  <2> SUFFICES ASSUME n + 1 \in 0 .. last, NEW x \in D, NEW y \in D, (last - Index(x)) - Index(y) <= n + 1
               PROVE  meet[n + 1][x][y] \in D /\ Above(idom, meet[n + 1][x][y]) = Above(idom, x) \cap Above(idom, y)
    OBVIOUS
  <2>1. n \in 0 .. last /\ n + 1 # 0 /\ (n + 1) - 1 = n
    OBVIOUS
  <2>2. Good(n)
    BY <1>11, <2>1
  <2>3. Index(x) \in Nat /\ Index(y) \in Nat /\ Index(x) <= Index(Entry) /\ Index(y) <= Index(Entry) /\ Index(Entry) \in Nat
    BY <1>1, <1>2, IndexIs DEF IsTree
  <2>4. CASE x = y
    <3>1. meet[n + 1][x][y] = x
      BY <1>7, <2>4
    <3> QED BY <2>4, <3>1
  <2>5. CASE x # y /\ Index(x) < Index(y)
    <3>1. meet[n + 1][x][y] = meet[n][idom[x]][y]
      BY <1>7, <2>1, <2>5
    <3>2. x # Entry /\ idom[x] \in D /\ Index(x) < Index(idom[x]) /\ Index(idom[x]) \in Nat
      <4>1. x # Entry
        BY <2>3, <2>5
      <4> QED BY <1>1, <1>2, <4>1
    <3>3. (last - Index(idom[x])) - Index(y) <= n
      BY <2>3, <3>2
    <3>4. meet[n][idom[x]][y] \in D /\ Above(idom, meet[n][idom[x]][y]) = Above(idom, idom[x]) \cap Above(idom, y)
      BY <2>2, <3>2, <3>3
    <3>5. Above(idom, x) \cap Above(idom, y) = Above(idom, idom[x]) \cap Above(idom, y)
      BY <2>5, AboveBoth
    <3> QED BY <3>1, <3>4, <3>5
  <2>6. CASE x # y /\ ~(Index(x) < Index(y))
    <3>1. meet[n + 1][x][y] = meet[n][x][idom[y]]
      BY <1>7, <2>1, <2>6
    <3>2. Index(y) < Index(x)
      <4>1. Index(x) # Index(y)
        BY <1>2, <2>6, IndexIs
      <4> QED BY <2>3, <2>6, <4>1
    <3>3. y # Entry /\ idom[y] \in D /\ Index(y) < Index(idom[y]) /\ Index(idom[y]) \in Nat
      <4>1. y # Entry
        BY <2>3, <3>2
      <4> QED BY <1>1, <1>2, <4>1
    <3>4. (last - Index(x)) - Index(idom[y]) <= n
      BY <2>3, <3>3
    <3>5. meet[n][x][idom[y]] \in D /\ Above(idom, meet[n][x][idom[y]]) = Above(idom, x) \cap Above(idom, idom[y])
      BY <2>2, <3>3, <3>4
    <3>6. Above(idom, x) \cap Above(idom, y) = Above(idom, x) \cap Above(idom, idom[y])
      BY <2>6, <3>2, AboveBoth
    <3> QED BY <3>1, <3>5, <3>6
  <2> QED BY <2>4, <2>5, <2>6
<1>12. Good(last)
  <2> HIDE DEF U, Good
  <2>1. last \in U
    BY <1>10, <1>11, InductionOver
  <2> QED BY <2>1 DEF U
<1>13. (last - Index(b1)) - Index(b2) <= last
  BY <1>1
<1> QED BY <1>5, <1>12, <1>13

\* The predecessors that have a dominator.
KnownPreds(b) == {p \in DOMAIN idom : b \in prog.succ[p]}

\* They are listed in ascending order.
LEMMA ProcessedIs ==
    ASSUME GraphInv, IsTree(idom), NEW b
    PROVE  /\ Processed(b) \in Seq(KnownPreds(b)) /\ ToSet(Processed(b)) = KnownPreds(b)
           /\ Processed(b) = <<>> <=> KnownPreds(b) = {}
<1>1. KnownPreds(b) \in SUBSET Nat /\ IsFiniteSet(KnownPreds(b))
  <2>1. KnownPreds(b) \subseteq Blocks
    BY ReachedBlocks DEF KnownPreds, IsTree
  <2> QED BY <2>1, FS_Subset DEF GraphInv
<1>2. Processed(b) \in Seq(KnownPreds(b)) /\ ToSet(Processed(b)) = KnownPreds(b)
  BY <1>1, AscendingLists DEF Processed, KnownPreds
<1>3. PICK s : s = Processed(b)
  OBVIOUS
<1>4. s = <<>> <=> ToSet(s) = {}
  <2>1. PICK n \in Nat : n = Len(s) /\ DOMAIN s = 1 .. n
    BY <1>2, <1>3
  <2>2. CASE n = 0
    <3>1. s = <<>> /\ DOMAIN s = {}
      BY <1>2, <1>3, <2>1, <2>2
    <3> QED BY <3>1 DEF ToSet
  <2>3. CASE n # 0
    <3>1. s # <<>> /\ 1 \in DOMAIN s
      BY <2>1, <2>3
    <3> QED BY <3>1 DEF ToSet
  <2> QED BY <2>2, <2>3
<1> QED BY <1>2, <1>3, <1>4

\* The new dominator of a block is above what all those predecessors have above them.
LEMMA NewIdomIs ==
    ASSUME GraphInv, OrderInv, IsTree(idom), NEW b, KnownPreds(b) # {}
    PROVE  /\ NewIdom(b) \in DOMAIN idom
           /\ \A a : a \in Above(idom, NewIdom(b)) <=> \A p \in KnownPreds(b) : a \in Above(idom, p)
<1> DEFINE D == DOMAIN idom
<1>1. PICK s : s = Processed(b)
  OBVIOUS
<1>2. s \in Seq(KnownPreds(b)) /\ ToSet(s) = KnownPreds(b) /\ s # <<>>
  BY <1>1, ProcessedIs
<1>3. PICK n \in Nat : n = Len(s) /\ DOMAIN s = 1 .. n /\ n # 0 /\ \A k \in 1 .. n : s[k] \in D
  BY <1>2 DEF KnownPreds
<1>4. KnownPreds(b) = {s[k] : k \in 1 .. n}
  BY <1>2, <1>3 DEF ToSet
<1> DEFINE Body(g, k) == IF k = 1 THEN s[1] ELSE Intersect(s[k], g[k - 1])
           Is(g, m) == g = [k \in 1 .. m |-> Body(g, k)]
           T == {m \in Nat : \E g : Is(g, m)}
<1>5. 0 \in T
  <2> DEFINE g == [k \in 1 .. 0 |-> s[1]]
  <2>1. g = [k \in 1 .. 0 |-> Body(g, k)]
    OBVIOUS
  <2> HIDE DEF g, Body
  <2>2. Is(g, 0)
    BY <2>1
  <2> QED BY <2>2
<1>6. ASSUME NEW m \in Nat, m \in T PROVE m + 1 \in T
  <2>1. PICK f : Is(f, m)
    BY <1>6
  <2> DEFINE g == [k \in 1 .. m + 1 |-> Body(f, k)]
  <2>2. ASSUME NEW k \in 1 .. m PROVE g[k] = f[k]
    <3>1. g[k] = Body(f, k)
      <4> HIDE DEF Body
      <4> QED OBVIOUS
    <3>2. f[k] = Body(f, k)
      <4> DEFINE h == [j \in 1 .. m |-> Body(f, j)]
      <4>1. h[k] = Body(f, k)
        <5> HIDE DEF Body
        <5> QED OBVIOUS
      <4>2. f = h
        BY <2>1
      <4> HIDE DEF h, Body
      <4> QED BY <4>1, <4>2
    <3> HIDE DEF g, Body
    <3> QED BY <3>1, <3>2
  <2>3. ASSUME NEW k \in 1 .. m + 1 PROVE Body(f, k) = Body(g, k)
    <3> HIDE DEF g
    <3>1. CASE k = 1
      BY <3>1
    <3>2. CASE k # 1
      <4>1. k - 1 \in 1 .. m
        BY <3>2
      <4>2. g[k - 1] = f[k - 1]
        BY <2>2, <4>1
      <4> QED BY <4>2
    <3> QED BY <3>1, <3>2
  <2>4. g = [k \in 1 .. m + 1 |-> Body(g, k)]
    <3> HIDE DEF Body
    <3> QED BY <2>3
  <2> HIDE DEF g
  <2>5. Is(g, m + 1)
    BY <2>4
  <2> HIDE DEF Is
  <2> QED BY <2>5
<1> DEFINE common == CHOOSE g : Is(g, n)
<1>7. NewIdom(b) = common[n]
  BY <1>1, <1>3 DEF NewIdom
<1>8. Is(common, n)
  <2> HIDE DEF Is, T
  <2>1. n \in T
    BY <1>5, <1>6, InductionOver
  <2>2. \E g : Is(g, n)
    BY <2>1 DEF T
  <2> QED BY <2>2
<1> HIDE DEF common
<1>9. ASSUME NEW k \in 1 .. n PROVE common[k] = Body(common, k)
  <2> DEFINE h == [j \in 1 .. n |-> Body(common, j)]
  <2>1. h[k] = Body(common, k)
    <3> HIDE DEF Body
    <3> QED OBVIOUS
  <2>2. common = h
    BY <1>8
  <2> HIDE DEF h, Body
  <2> QED BY <2>1, <2>2
<1> DEFINE Good(k) == /\ common[k] \in D
                      /\ \A a : a \in Above(idom, common[k]) <=> \A j \in 1 .. k : a \in Above(idom, s[j])
           U == {k \in Nat : k \in 1 .. n => Good(k)}
<1>10. Good(1)
  <2>1. common[1] = s[1] /\ 1 \in 1 .. n
    BY <1>3, <1>9
  <2>2. \A j \in 1 .. 1 : j = 1
    OBVIOUS
  <2> QED BY <1>3, <2>1, <2>2
<1>11. 0 \in U
  OBVIOUS
<1>12. ASSUME NEW k \in Nat, k \in U PROVE k + 1 \in U
  <2> SUFFICES ASSUME k + 1 \in 1 .. n PROVE Good(k + 1)
    OBVIOUS
  <2>1. CASE k = 0
    BY <1>10, <2>1
  <2>2. CASE k # 0
    <3>1. k \in 1 .. n /\ k + 1 # 1 /\ (k + 1) - 1 = k
      BY <2>2
    <3>2. Good(k)
      BY <1>12, <3>1
    <3>3. common[k + 1] = Intersect(s[k + 1], common[k])
      BY <1>9, <3>1
    <3>4. /\ common[k + 1] \in D
          /\ Above(idom, common[k + 1]) = Above(idom, s[k + 1]) \cap Above(idom, common[k])
      BY <1>3, <3>2, <3>3, IntersectIs
    <3>5. \A j \in 1 .. k + 1 : j \in 1 .. k \/ j = k + 1
      OBVIOUS
    <3>6. \A j \in 1 .. k : j \in 1 .. k + 1
      OBVIOUS
    <3> QED BY <3>2, <3>4, <3>5, <3>6
  <2> QED BY <2>1, <2>2
<1>13. Good(n)
  <2> HIDE DEF U, Good
  <2>1. n \in U /\ n \in 1 .. n
    BY <1>3, <1>11, <1>12, InductionOver
  <2> QED BY <2>1 DEF U
<1> QED BY <1>4, <1>7, <1>13

-----------------------------------------------------------------------------
(* The tree while the sweeps go on: no dominator of a block is missing.     *)

\* What a leads to through blocks that are not listed behind it.
Below(a) ==
    {x \in Reached : \A S \in SUBSET Reached :
        a \in S /\ (\A y \in S : \A z \in prog.succ[y] : Index(z) <= Index(a) => z \in S) => x \in S}

\* The steps that Below allows.
LEMMA BelowGoesOn ==
    ASSUME GraphInv, NEW a \in Reached
    PROVE  /\ a \in Below(a)
           /\ \A y \in Below(a) : \A z \in prog.succ[y] : Index(z) <= Index(a) => z \in Below(a)
<1>1. a \in Below(a)
  BY DEF Below
<1>2. ASSUME NEW y \in Below(a), NEW z \in prog.succ[y], Index(z) <= Index(a) PROVE z \in Below(a)
  <2>1. y \in Reached /\ z \in Reached
    BY ReachedBlocks DEF Below
  <2> QED BY <1>2, <2>1 DEF Below
<1> QED BY <1>1, <1>2

\* What is below a block is below whatever that block is below.
LEMMA BelowBelow ==
    ASSUME GraphInv, OrderInv, NEW a \in Reached, NEW b \in Below(a), Index(b) <= Index(a), NEW y \in Below(b)
    PROVE  y \in Below(a)
<1>1. b \in Reached /\ y \in Reached
  BY DEF Below
<1>2. \A z \in Reached : Index(z) \in Nat
  BY IndexIs
<1> SUFFICES ASSUME NEW S \in SUBSET Reached, a \in S,
                    \A x \in S : \A z \in prog.succ[x] : Index(z) <= Index(a) => z \in S
             PROVE  y \in S
  BY <1>1 DEF Below
<1>3. b \in S
  BY DEF Below
<1>4. ASSUME NEW x \in S, NEW z \in prog.succ[x], Index(z) <= Index(b) PROVE z \in S
  <2>1. z \in Reached
    BY ReachedBlocks
  <2>2. Index(z) <= Index(a)
    BY <1>1, <1>2, <1>4, <2>1
  <2> QED BY <2>2
<1> QED BY <1>3, <1>4 DEF Below

\* What is listed behind a block dominates it if it dominates a block below it.
LEMMA DominatesAbove ==
    ASSUME GraphInv, OrderInv, NEW b \in Reached, NEW x \in Below(b), NEW d, Index(b) < Index(d), Dominates(d, x)
    PROVE  Dominates(d, b)
<1> SUFFICES ASSUME b \in ReachedWithout(d) PROVE x \in ReachedWithout(d)
  BY DEF Dominates
<1>1. ReachedWithout(d) \in SUBSET Reached
  BY ReachedBlocks
<1>2. ASSUME NEW y \in ReachedWithout(d), NEW z \in prog.succ[y], Index(z) <= Index(b)
      PROVE  z \in ReachedWithout(d)
  <2>1. z \in Reached
    BY <1>1, ReachedBlocks
  <2>2. Index(z) \in Nat /\ Index(b) \in Nat
    BY <2>1, IndexIs
  <2>3. z # d
    BY <1>2, <2>2
  <2> QED BY <2>3, ReachedGoesOn
<1> QED BY <1>1, <1>2 DEF Below

\* All dominators of a block are above it, and all that is above it leads to it
\* through blocks that are listed earlier.
TreeInv(f) ==
    /\ IsTree(f)
    /\ \A x \in DOMAIN f \ {Entry} : x \in Below(f[x])
    /\ \A x \in DOMAIN f, d \in Reached : Dominates(d, x) => d \in Above(f, x)

\* What is above a block in the tree leads to it so.
LEMMA AboveLeadsTo ==
    ASSUME GraphInv, OrderInv, NEW f, IsTree(f), \A x \in DOMAIN f \ {Entry} : x \in Below(f[x]),
           NEW x \in DOMAIN f, NEW a \in Above(f, x)
    PROVE  x \in Below(a)
<1> DEFINE S == {y \in DOMAIN f : x \in Below(y)}
<1>1. \A y \in DOMAIN f : y \in Reached /\ Index(y) \in Nat
  BY IndexIs DEF IsTree
<1>2. x \in S
  BY <1>1, BelowGoesOn
<1>3. ASSUME NEW y \in S PROVE f[y] \in S
  <2>1. y \in DOMAIN f /\ f[y] \in DOMAIN f
    BY DEF IsTree
  <2>2. CASE y = Entry
    BY <2>2 DEF IsTree
  <2>3. CASE y # Entry
    <3>1. y \in Below(f[y]) /\ Index(y) < Index(f[y])
      BY <2>1, <2>3 DEF IsTree
    <3>2. Index(y) <= Index(f[y])
      BY <1>1, <2>1, <3>1
    <3>3. x \in Below(f[y])
      BY <1>1, <2>1, <3>1, <3>2, BelowBelow
    <3> QED BY <2>1, <3>3
  <2> QED BY <2>2, <2>3
<1>4. \A y \in S \cap DOMAIN f : f[y] \in S \cap DOMAIN f
  BY <1>3
<1> HIDE DEF S
<1>5. Above(f, x) \subseteq S
  BY <1>2, <1>4, AboveLeast
<1> QED BY <1>5 DEF S

\* The tree of the entry alone.
LEMMA TreeBegins ==
    ASSUME GraphInv, OrderInv, NEW f, f = [b \in {Entry} |-> Entry]
    PROVE  TreeInv(f)
<1>1. DOMAIN f = {Entry} /\ f[Entry] = Entry
  OBVIOUS
<1>2. IsTree(f)
  BY <1>1, ReachedBlocks DEF IsTree
<1>3. \A d : Dominates(d, Entry) => d = Entry
  BY ReachedBegins DEF Dominates
<1>4. Entry \in Above(f, Entry)
  BY <1>1, <1>2, AboveIs
<1> QED BY <1>1, <1>2, <1>3, <1>4 DEF TreeInv

\* A block gets a new dominator, with a predecessor known that is listed later.
LEMMA TreeGrows ==
    ASSUME GraphInv, OrderInv, TreeInv(idom), NEW b \in Reached, b # Entry,
           NEW p \in KnownPreds(b), Index(b) < Index(p), NEW f,
           f = [x \in DOMAIN idom \cup {b} |-> IF x = b THEN NewIdom(b) ELSE idom[x]]
    PROVE  TreeInv(f)
<1> DEFINE D == DOMAIN idom
<1>0. PICK new : new = NewIdom(b)
  OBVIOUS
<1>1. new \in D /\ \A a : a \in Above(idom, new) <=> \A q \in KnownPreds(b) : a \in Above(idom, q)
  BY <1>0, NewIdomIs DEF TreeInv
<1>2. DOMAIN f = D \cup {b} /\ f[b] = new /\ \A x \in D : x # b => f[x] = idom[x]
  BY <1>0
<1>3. /\ IsTree(idom) /\ \A x \in D : x \in Reached /\ Index(x) \in Nat
      /\ p \in D /\ b \in prog.succ[p] /\ Index(b) \in Nat
  BY IndexIs DEF TreeInv, IsTree, KnownPreds
<1>4. new \in Above(idom, p) /\ Index(b) < Index(new)
  <2>1. new \in Above(idom, new)
    BY <1>1, <1>3, AboveIs
  <2>2. new \in Above(idom, p)
    BY <1>1, <2>1
  <2>3. new = p \/ Index(p) < Index(new)
    BY <1>3, <2>2, AboveIs
  <2> QED BY <1>1, <1>3, <2>2, <2>3
<1>5. IsTree(f)
  BY <1>1, <1>2, <1>3, <1>4 DEF IsTree
<1>6. \A x \in DOMAIN f \ {Entry} : x \in Below(f[x])
  <2>1. p \in Below(new)
    BY <1>3, <1>4, AboveLeadsTo DEF TreeInv
  <2>2. new \in Reached /\ Index(b) <= Index(new)
    BY <1>1, <1>3, <1>4
  <2>3. b \in Below(new)
    BY <1>3, <2>1, <2>2, BelowGoesOn
  <2>4. \A x \in D \ {Entry} : x \in Below(idom[x])
    BY DEF TreeInv
  <2> QED BY <1>2, <2>3, <2>4
<1>7. ASSUME NEW x \in DOMAIN f, b \in Above(f, x), NEW d \in Reached, Index(b) < Index(d), Dominates(d, b)
      PROVE  d \in Above(f, x)
  <2>1. ASSUME NEW q \in KnownPreds(b) PROVE d \in Above(idom, q)
    <3>1. q \in D /\ q \in Reached /\ b \in prog.succ[q]
      BY <1>3 DEF KnownPreds
    <3>2. d # b
      BY <1>3, <1>7
    <3>3. Dominates(d, q)
      BY <1>7, <3>1, <3>2, DominatesBackwards
    <3> QED BY <3>1, <3>3 DEF TreeInv
  <2>2. d \in Above(idom, new)
    BY <1>1, <2>1
  <2> DEFINE T == {y \in Above(f, x) : Index(b) < Index(y)}
  <2>3. new \in Above(f, x)
    BY <1>2, <1>5, <1>7, AboveIs
  <2>4. new \in T
    BY <1>4, <2>3
  <2>5. ASSUME NEW y \in T \cap D PROVE idom[y] \in T \cap D
    <3>1. y # b /\ idom[y] \in D /\ idom[y] = f[y]
      BY <1>2, <1>3 DEF IsTree
    <3>2. f[y] \in Above(f, x)
      BY <1>5, AboveIs
    <3>3. Index(b) < Index(idom[y])
      <4>1. y = Entry => idom[y] = y
        BY <1>3 DEF IsTree
      <4>2. y # Entry => Index(y) < Index(idom[y])
        BY <1>3 DEF IsTree
      <4> QED BY <1>3, <3>1, <4>1, <4>2
    <3> QED BY <3>1, <3>2, <3>3
  <2> HIDE DEF T
  <2>6. Above(idom, new) \subseteq T
    BY <1>1, <2>4, <2>5, AboveLeast
  <2> QED BY <2>2, <2>6 DEF T
<1>8. ASSUME NEW x \in DOMAIN f, NEW d \in Reached, Dominates(d, x) PROVE d \in Above(f, x)
  <2>0. Index(d) \in Nat /\ x \in Above(f, x)
    BY <1>5, IndexIs, AboveIs
  <2>1. CASE x = b /\ d = b
    BY <2>0, <2>1
  <2>2. CASE x = b /\ d # b
    <3>1. Dominates(d, p)
      BY <1>3, <1>8, <2>2, DominatesBackwards
    <3>2. d \in Above(idom, p)
      BY <1>3, <3>1 DEF TreeInv
    <3>3. d = p \/ Index(p) < Index(d)
      BY <1>3, <3>2, AboveIs
    <3>4. Index(b) < Index(d)
      BY <1>3, <2>0, <3>3
    <3> QED BY <1>7, <1>8, <2>0, <2>2, <3>4
  <2>3. CASE x # b
    <3> DEFINE T == {y \in D : y \in Above(f, x) \/ (Index(b) < Index(y) /\ b \in Above(f, x))}
    <3>1. x \in D /\ x \in T
      BY <1>2, <2>0, <2>3
    <3>2. ASSUME NEW y \in T PROVE idom[y] \in T
      <4>1. /\ y \in D /\ idom[y] \in D /\ (y = Entry => idom[y] = y)
            /\ (y # Entry => Index(y) < Index(idom[y])) /\ Index(y) \in Nat /\ Index(idom[y]) \in Nat
        BY <1>3 DEF IsTree
      <4>2. CASE y = b
        <5>1. b \in Above(f, x)
          BY <1>3, <4>2
        <5>2. Index(b) < Index(idom[y])
          BY <4>1, <4>2
        <5> QED BY <4>1, <5>1, <5>2
      <4>3. CASE y # b /\ y \in Above(f, x)
        <5>1. idom[y] = f[y] /\ f[y] \in Above(f, x)
          BY <1>2, <1>5, <4>1, <4>3, AboveIs
        <5> QED BY <4>1, <5>1
      <4>4. CASE Index(b) < Index(y) /\ b \in Above(f, x)
        <5>1. Index(b) < Index(idom[y])
          BY <1>3, <4>1, <4>4
        <5> QED BY <4>1, <4>4, <5>1
      <4> QED BY <4>2, <4>3, <4>4
    <3>3. \A y \in T \cap D : idom[y] \in T \cap D
      BY <3>2
    <3> HIDE DEF T
    <3>4. Above(idom, x) \subseteq T
      BY <3>1, <3>3, AboveLeast
    <3>5. d \in Above(idom, x)
      BY <1>8, <3>1 DEF TreeInv
    <3>6. d \in Above(f, x) \/ (Index(b) < Index(d) /\ b \in Above(f, x))
      BY <3>4, <3>5 DEF T
    <3>7. CASE Index(b) < Index(d) /\ b \in Above(f, x)
      <4>1. x \in Below(b)
        BY <1>5, <1>6, <3>7, AboveLeadsTo
      <4>2. Dominates(d, b)
        BY <1>8, <3>7, <4>1, DominatesAbove
      <4> QED BY <1>7, <3>7, <4>2
    <3> QED BY <3>6, <3>7
  <2> QED BY <2>1, <2>2, <2>3
<1> QED BY <1>5, <1>6, <1>8 DEF TreeInv

-----------------------------------------------------------------------------
(* The end of the sweeps.                                                  *)

\* What intersecting the predecessors again would not change.
Settled(b) ==
    /\ KnownPreds(b) # {}
    /\ \A a : a \in Above(idom, idom[b]) <=> \A p \in KnownPreds(b) : a \in Above(idom, p)

TreeExact ==
    /\ IsTree(idom) /\ DOMAIN idom = Reached
    /\ \A b \in Reached \ {Entry} : Settled(b)
    /\ \A a, b \in Reached : a \in Above(idom, b) <=> Dominates(a, b)

\* When every block is settled, being above and dominating are the same.
LEMMA SettledIsExact ==
    ASSUME GraphInv, OrderInv, TreeInv(idom), DOMAIN idom = Reached, \A b \in Reached \ {Entry} : Settled(b)
    PROVE  TreeExact
<1>1. IsTree(idom)
  BY DEF TreeInv
<1>2. ASSUME NEW a \in Reached, NEW b \in Reached, a \in Above(idom, b) PROVE Dominates(a, b)
  <2> DEFINE S == {x \in Reached : a \notin Above(idom, x)}
  <2>1. S \in SUBSET (Blocks \ {a})
    <3>1. a \in Above(idom, a)
      BY <1>1, AboveIs
    <3> QED BY <3>1, ReachedBlocks
  <2>2. a # Entry => Entry \in S
    <3>1. Above(idom, Entry) = {Entry} /\ Entry \in Reached
      BY <1>1, AboveIs, ReachedBlocks
    <3> QED BY <3>1
  <2>3. ASSUME NEW x \in S, NEW y \in prog.succ[x], y # a PROVE y \in S
    <3>1. x \in Reached /\ y \in Reached /\ a \notin Above(idom, x)
      BY ReachedBlocks
    <3>2. CASE y = Entry
      BY <2>2, <2>3, <3>2
    <3>3. CASE y # Entry
      <4>1. x \in KnownPreds(y)
        BY <3>1 DEF KnownPreds
      <4>2. a \notin Above(idom, idom[y])
        BY <3>1, <3>3, <4>1 DEF Settled
      <4>3. Above(idom, y) = {y} \cup Above(idom, idom[y])
        BY <1>1, <3>1, AboveIs
      <4> QED BY <2>3, <3>1, <4>2, <4>3
    <3> QED BY <3>2, <3>3
  <2>4. b \notin S
    BY <1>2
  <2> HIDE DEF S
  <2>5. ReachedWithout(a) \subseteq S
    BY <2>1, <2>2, <2>3, ReachedLeast
  <2> QED BY <2>4, <2>5 DEF Dominates
<1> QED BY <1>1, <1>2 DEF TreeExact, TreeInv

\* A walk up from p, of n steps.
Climbs(up, n, f, p) == up = [k \in 0 .. n |-> IF k = 0 THEN p ELSE f[up[k - 1]]]

\* There is such a walk.
LEMMA ClimbIs ==
    ASSUME NEW n \in Nat, NEW f, NEW p
    PROVE  \E up : Climbs(up, n, f, p)
<1> DEFINE Body(g, k) == IF k = 0 THEN p ELSE f[g[k - 1]]
           Is(g, m) == g = [k \in 0 .. m |-> Body(g, k)]
           T == {m \in Nat : \E g : Is(g, m)}
<1>1. 0 \in T
  <2> DEFINE g == [k \in 0 .. 0 |-> p]
  <2>1. g = [k \in 0 .. 0 |-> Body(g, k)]
    OBVIOUS
  <2> HIDE DEF g, Body
  <2>2. Is(g, 0)
    BY <2>1
  <2> QED BY <2>2
<1>2. ASSUME NEW m \in Nat, m \in T PROVE m + 1 \in T
  <2>1. PICK e : Is(e, m)
    BY <1>2
  <2> DEFINE g == [k \in 0 .. m + 1 |-> Body(e, k)]
  <2>2. ASSUME NEW k \in 0 .. m PROVE g[k] = e[k]
    <3>1. g[k] = Body(e, k)
      <4> HIDE DEF Body
      <4> QED OBVIOUS
    <3>2. e[k] = Body(e, k)
      <4> DEFINE h == [j \in 0 .. m |-> Body(e, j)]
      <4>1. h[k] = Body(e, k)
        <5> HIDE DEF Body
        <5> QED OBVIOUS
      <4>2. e = h
        BY <2>1
      <4> HIDE DEF h, Body
      <4> QED BY <4>1, <4>2
    <3> HIDE DEF g, Body
    <3> QED BY <3>1, <3>2
  <2>3. ASSUME NEW k \in 0 .. m + 1 PROVE Body(e, k) = Body(g, k)
    <3> HIDE DEF g
    <3>1. CASE k = 0
      BY <3>1
    <3>2. CASE k # 0
      <4>1. k - 1 \in 0 .. m
        BY <3>2
      <4>2. g[k - 1] = e[k - 1]
        BY <2>2, <4>1
      <4> QED BY <4>2
    <3> QED BY <3>1, <3>2
  <2>4. g = [k \in 0 .. m + 1 |-> Body(g, k)]
    <3> HIDE DEF Body
    <3> QED BY <2>3
  <2> HIDE DEF g
  <2>5. Is(g, m + 1)
    BY <2>4
  <2> HIDE DEF Is
  <2> QED BY <2>5
<1>3. n \in T
  <2> HIDE DEF T
  <2> QED BY <1>1, <1>2, InductionOver
<1> QED BY <1>3 DEF Climbs

\* Only a block of the tree has runners above it.
LEMMA RunnersBegin ==
    ASSUME Len(postOrder) \in Nat, NEW p, NEW stop, NEW a \in Runners(p, stop)
    PROVE  p \in DOMAIN idom
<1> DEFINE up == CHOOSE g : Climbs(g, Len(postOrder), idom, p)
<1>1. Runners(p, stop) = {up[k] : k \in {k \in 0 .. Len(postOrder) : \A j \in 0 .. k : up[j] \in DOMAIN idom \ {stop}}}
  BY DEF Runners, Climbs
<1>2. Climbs(up, Len(postOrder), idom, p)
  BY ClimbIs
<1> HIDE DEF up
<1>3. PICK k \in 0 .. Len(postOrder) : \A j \in 0 .. k : up[j] \in DOMAIN idom \ {stop}
  BY <1>1
<1>4. 0 \in 0 .. k /\ up[0] = p
  BY <1>2 DEF Climbs
<1> QED BY <1>3, <1>4

\* The runners between a block and one above it.
LEMMA RunnersAre ==
    ASSUME GraphInv, OrderInv, IsTree(idom), NEW p \in DOMAIN idom, NEW stop \in Above(idom, p)
    PROVE  Runners(p, stop) = Above(idom, p) \ Above(idom, stop)
<1> DEFINE D == DOMAIN idom
<1>1. PICK n \in Nat : n = Len(postOrder)
  BY IndexIs
<1> DEFINE up == CHOOSE g : Climbs(g, n, idom, p)
           Good(k) == \A j \in 0 .. k : up[j] \in D \ {stop}
<1>2. Runners(p, stop) = {up[k] : k \in {k \in 0 .. n : Good(k)}}
  BY <1>1 DEF Runners, Climbs
<1>3. \A k \in 0 .. n : up[k] = IF k = 0 THEN p ELSE idom[up[k - 1]]
  <2>1. Climbs(up, n, idom, p)
    BY ClimbIs
  <2> HIDE DEF up
  <2> QED BY <2>1 DEF Climbs
<1> HIDE DEF up
<1>4. /\ \A x \in D : x \in Reached /\ idom[x] \in D /\ Index(x) \in 1 .. n
      /\ \A x \in D : x # Entry => Index(x) < Index(idom[x])
      /\ stop \in D
  BY <1>1, IndexIs, AboveIs DEF IsTree
<1> DEFINE On(k) == /\ up[k] \in Above(idom, p) /\ up[k] \in D
                    /\ stop \in Above(idom, up[k])
                    /\ k + 1 <= Index(up[k]) /\ Index(up[k]) < Index(stop)
           U == {k \in Nat : k \in 0 .. n /\ Good(k) => On(k)}
<1>5. ASSUME NEW x \in D, stop \in Above(idom, x), x # stop
      PROVE  /\ Index(x) < Index(stop) /\ x # Entry
             /\ stop \in Above(idom, idom[x]) /\ x \notin Above(idom, stop)
  <2>1. Index(x) < Index(stop)
    BY <1>5, AboveIs
  <2>2. x # Entry /\ stop \in Above(idom, idom[x])
    BY <1>5, AboveIs
  <2>3. x \notin Above(idom, stop)
    <3>1. ~(Index(stop) < Index(x))
      BY <1>4, <2>1
    <3> QED BY <1>4, <1>5, <3>1, AboveIs
  <2> QED BY <2>1, <2>2, <2>3
<1>6. 0 \in U
  <2> SUFFICES ASSUME Good(0) PROVE On(0)
    BY <1>1
  <2>1. up[0] = p /\ 0 \in 0 .. 0
    BY <1>3
  <2>2. p # stop
    BY <2>1
  <2>3. p \in Above(idom, p) /\ Index(p) < Index(stop) /\ 0 + 1 <= Index(p)
    BY <1>4, <1>5, <2>2, AboveIs
  <2> QED BY <2>1, <2>3
<1>7. ASSUME NEW k \in Nat, k \in U PROVE k + 1 \in U
  <2> SUFFICES ASSUME k + 1 \in 0 .. n, Good(k + 1) PROVE On(k + 1)
    OBVIOUS
  <2>1. k \in 0 .. n /\ k + 1 # 0 /\ (k + 1) - 1 = k /\ k \in 0 .. k + 1 /\ k + 1 \in 0 .. k + 1
    OBVIOUS
  <2>2. \A j \in 0 .. k : j \in 0 .. k + 1
    OBVIOUS
  <2>3. On(k)
    BY <1>7, <2>1, <2>2
  <2>4. up[k + 1] = idom[up[k]]
    BY <1>3, <2>1
  <2>5. up[k] \in D \ {stop} /\ up[k + 1] \in D \ {stop}
    BY <2>1
  <2>6. stop \in Above(idom, up[k + 1]) /\ up[k] # Entry
    BY <1>5, <2>3, <2>4, <2>5
  <2>7. Index(up[k]) < Index(up[k + 1]) /\ Index(up[k + 1]) < Index(stop)
    BY <1>4, <1>5, <2>4, <2>5, <2>6
  <2>8. (k + 1) + 1 <= Index(up[k + 1])
    <3>1. Index(up[k]) \in Nat /\ Index(up[k + 1]) \in Nat
      BY <1>4, <2>5
    <3>2. k + 1 <= Index(up[k])
      BY <2>3
    <3> QED BY <2>7, <3>1, <3>2
  <2>9. up[k + 1] \in Above(idom, p)
    BY <2>3, <2>4, AboveIs
  <2> QED BY <2>5, <2>6, <2>7, <2>8, <2>9
<1>8. ASSUME NEW k \in 0 .. n, Good(k) PROVE On(k) /\ up[k] # stop
  <2> HIDE DEF U, On
  <2>1. k \in U /\ k \in Nat
    BY <1>6, <1>7, InductionOver
  <2>2. On(k)
    <3> HIDE DEF Good
    <3> QED BY <1>8, <2>1 DEF U
  <2>3. k \in 0 .. k
    OBVIOUS
  <2> QED BY <1>8, <2>2, <2>3
<1>9. Runners(p, stop) \subseteq Above(idom, p) \ Above(idom, stop)
  <2> SUFFICES ASSUME NEW k \in 0 .. n, Good(k) PROVE up[k] \in Above(idom, p) \ Above(idom, stop)
    <3> HIDE DEF Good
    <3> QED BY <1>2
  <2>1. On(k) /\ up[k] # stop
    <3> HIDE DEF On, Good
    <3> QED BY <1>8
  <2> QED BY <1>5, <2>1
<1>10. Above(idom, p) \subseteq Runners(p, stop) \cup Above(idom, stop)
  <2> DEFINE S == Runners(p, stop) \cup Above(idom, stop)
  <2>1. stop \in Above(idom, stop) /\ \A y \in Above(idom, stop) : idom[y] \in Above(idom, stop) /\ y \in D
    BY <1>4, AboveIs
  <2>2. p \in S
    <3>1. CASE p = stop
      BY <2>1, <3>1
    <3>2. CASE p # stop
      <4>1. up[0] = p /\ 0 \in 0 .. n /\ \A j \in 0 .. 0 : j = 0
        BY <1>3
      <4>2. Good(0)
        BY <3>2, <4>1
      <4> HIDE DEF Good
      <4> QED BY <1>2, <4>1, <4>2
    <3> QED BY <3>1, <3>2
  <2>3. ASSUME NEW k \in 0 .. n, Good(k) PROVE idom[up[k]] \in S
    <3>1. On(k) /\ up[k] # stop
      <4> HIDE DEF On, Good
      <4> QED BY <1>8, <2>3
    <3>2. k + 1 \in 0 .. n /\ k + 1 # 0 /\ (k + 1) - 1 = k
      <4>1. k + 1 <= Index(up[k]) /\ Index(up[k]) \in 1 .. n
        BY <1>4, <3>1
      <4> QED BY <4>1
    <3>3. up[k + 1] = idom[up[k]] /\ up[k + 1] \in D
      BY <1>3, <1>4, <3>1, <3>2
    <3>4. CASE up[k + 1] = stop
      BY <2>1, <3>3, <3>4
    <3>5. CASE up[k + 1] # stop
      <4>1. \A j \in 0 .. k + 1 : j \in 0 .. k \/ j = k + 1
        OBVIOUS
      <4>2. Good(k + 1)
        BY <2>3, <3>3, <3>5, <4>1
      <4> HIDE DEF Good
      <4> QED BY <1>2, <3>2, <3>3, <4>2
    <3> QED BY <3>4, <3>5
  <2>4. ASSUME NEW y \in S PROVE idom[y] \in S
    <3>1. CASE y \in Above(idom, stop)
      BY <2>1, <3>1
    <3>2. CASE y \in Runners(p, stop)
      <4>1. PICK k \in 0 .. n : Good(k) /\ y = up[k]
        <5> HIDE DEF Good
        <5> QED BY <1>2, <3>2
      <4> HIDE DEF S
      <4> QED BY <2>3, <4>1
    <3> QED BY <3>1, <3>2
  <2>5. S \subseteq D
    BY <1>9, <2>1, AboveIs
  <2>6. \A y \in S \cap D : idom[y] \in S \cap D
    BY <2>4, <2>5
  <2> HIDE DEF S
  <2>7. Above(idom, p) \subseteq S
    BY <2>2, <2>6, AboveLeast
  <2> QED BY <2>7 DEF S
<1> QED BY <1>9, <1>10

-----------------------------------------------------------------------------
(* The frontiers, and the invariant.                                       *)

\* The predecessors of a block, and how many they are.
LEMMA PredsAre == ASSUME GraphInv, NEW b PROVE /\ ToSet(Preds(b)) = {p \in Blocks : b \in prog.succ[p]}
                                              /\ Len(Preds(b)) = Cardinality({p \in Blocks : b \in prog.succ[p]})
<1> DEFINE S == {p \in Blocks : b \in prog.succ[p]}
<1>1. S \in SUBSET Nat /\ IsFiniteSet(S)
  <2>1. S \subseteq Blocks /\ Blocks \in SUBSET Nat
    BY DEF GraphInv
  <2> QED BY <2>1, FS_Subset DEF GraphInv
<1>2. Preds(b) = Ascending(S)
  BY DEF Preds
<1> HIDE DEF S
<1>3. ToSet(Preds(b)) = S /\ Len(Preds(b)) = Cardinality(S)
  BY <1>1, <1>2, AscendingLists
<1> QED BY <1>3 DEF S

\* A join is where the dominance of a block above one of its predecessors ends.
LEMMA FrontierIs ==
    ASSUME GraphInv, OrderInv, TreeExact, NEW a \in Reached, NEW b, b # Entry
    PROVE  (/\ b \in DOMAIN idom /\ Len(Preds(b)) >= 2
            /\ \E p \in ToSet(Preds(b)) : a \in Runners(p, idom[b]))
           <=> \E p \in Reached : Dominates(a, p) /\ b \in prog.succ[p] /\ ~(Dominates(a, b) /\ a # b)
<1>0. IsTree(idom) /\ DOMAIN idom = Reached /\ \A x, y \in Reached : x \in Above(idom, y) <=> Dominates(x, y)
  BY DEF TreeExact
<1>1. \A p \in Reached : b \in prog.succ[p] => b \in Reached
  BY ReachedBlocks
<1>2. ASSUME b \in Reached
      PROVE  /\ \A p \in KnownPreds(b) : Runners(p, idom[b]) = Above(idom, p) \ Above(idom, idom[b])
             /\ a \in Above(idom, idom[b]) <=> Dominates(a, b) /\ a # b
  <2>1. idom[b] \in DOMAIN idom /\ Settled(b)
    BY <1>0, <1>2 DEF IsTree, TreeExact
  <2>2. idom[b] \in Above(idom, idom[b])
    BY <1>0, <2>1, AboveIs
  <2>3. ASSUME NEW p \in KnownPreds(b)
        PROVE  Runners(p, idom[b]) = Above(idom, p) \ Above(idom, idom[b])
    <3>1. p \in DOMAIN idom /\ idom[b] \in Above(idom, p)
      BY <2>1, <2>2 DEF Settled, KnownPreds
    <3> QED BY <1>0, <3>1, RunnersAre
  <2>4. Above(idom, b) = {b} \cup Above(idom, idom[b]) /\ b \notin Above(idom, idom[b])
    BY <1>0, <1>2, AboveIs
  <2> QED BY <1>0, <1>2, <2>3, <2>4
<1>3. ASSUME b \in DOMAIN idom, NEW p \in ToSet(Preds(b)), a \in Runners(p, idom[b])
      PROVE  p \in Reached /\ Dominates(a, p) /\ b \in prog.succ[p] /\ ~(Dominates(a, b) /\ a # b)
  <2>1. p \in Blocks /\ b \in prog.succ[p]
    BY PredsAre
  <2>2. p \in DOMAIN idom
    <3>1. Len(postOrder) \in Nat
      BY IndexIs
    <3> QED BY <1>3, <3>1, RunnersBegin
  <2>3. p \in KnownPreds(b)
    BY <2>1, <2>2 DEF KnownPreds
  <2> QED BY <1>0, <1>2, <1>3, <2>1, <2>2, <2>3
<1>4. ASSUME NEW p \in Reached, Dominates(a, p), b \in prog.succ[p], ~(Dominates(a, b) /\ a # b)
      PROVE  /\ b \in DOMAIN idom /\ Len(Preds(b)) >= 2
             /\ \E q \in ToSet(Preds(b)) : a \in Runners(q, idom[b])
  <2>1. b \in Reached /\ p \in KnownPreds(b)
    BY <1>0, <1>1, <1>4 DEF KnownPreds
  <2>2. a \in Above(idom, p) \ Above(idom, idom[b])
    BY <1>0, <1>2, <1>4, <2>1
  <2> DEFINE S == {q \in Blocks : b \in prog.succ[q]}
  <2>3. p \in S /\ IsFiniteSet(S)
    BY <1>4, ReachedBlocks, FS_Subset DEF GraphInv
  <2>4. Cardinality(S) >= 2
    <3>1. S # {p}
      <4> SUFFICES ASSUME S = {p} PROVE FALSE
        OBVIOUS
      <4>1. KnownPreds(b) \subseteq S
        BY <1>0, ReachedBlocks DEF KnownPreds
      <4>2. \A q \in KnownPreds(b) : q = p
        BY <4>1
      <4>3. a \in Above(idom, idom[b])
        BY <2>1, <2>2, <4>2 DEF Settled, TreeExact
      <4> QED BY <2>2, <4>3
    <3> HIDE DEF S
    <3>2. PICK q \in S \ {p} : TRUE
      BY <2>3, <3>1
    <3>3. IsFiniteSet(S \ {p}) /\ Cardinality(S \ {p}) = Cardinality(S) - 1 /\ Cardinality(S) \in Nat
      BY <2>3, FS_RemoveElement, FS_CardinalityType
    <3>4. Cardinality(S \ {p}) # 0 /\ Cardinality(S \ {p}) \in Nat
      BY <3>2, <3>3, FS_EmptySet, FS_CardinalityType
    <3> QED BY <3>3, <3>4
  <2>5. Len(Preds(b)) >= 2 /\ p \in ToSet(Preds(b))
    BY <2>3, <2>4, PredsAre
  <2>6. a \in Runners(p, idom[b])
    BY <1>2, <2>1, <2>2
  <2> QED BY <1>0, <2>1, <2>5, <2>6
<1> QED BY <1>0, <1>3, <1>4

\* The blocks that a sweep has visited.
Passed == {postOrder[k] : k \in next + 1 .. Len(postOrder)}

\* They are in the tree and, unless it has changed something, settled.
SweepInv ==
    /\ next \in 0 .. Len(postOrder) /\ changed \in BOOLEAN
    /\ next > 0 \/ ~changed => Passed \subseteq DOMAIN idom
    /\ ~changed => \A b \in Passed \ {Entry} : Settled(b)

DominanceInv ==
    /\ GraphInv
    /\ phase = "defs" => postOrder = <<>>
    /\ phase = "order" => WalkInv
    /\ phase = "dominators" => OrderInv /\ TreeInv(idom) /\ SweepInv
    /\ phase \in {"frontier", "place", "rename", "done"} => OrderInv /\ TreeExact
    /\ DominanceExact

\* What depends on the function alone.
LEMMA SameGraph ==
    ASSUME UNCHANGED prog
    PROVE  /\ GraphInv' <=> GraphInv
           /\ Blocks' = Blocks /\ Reached' = Reached
           /\ \A a : ReachedWithout(a)' = ReachedWithout(a)
           /\ \A a, b : Dominates(a, b)' <=> Dominates(a, b)
<1>1. Blocks' = Blocks
  BY DEF Blocks
<1>2. ASSUME NEW a PROVE ReachedWithout(a)' = ReachedWithout(a)
  BY <1>1 DEF ReachedWithout
<1>3. Reached' = Reached
  BY <1>2 DEF Reached
<1>4. GraphInv' <=> GraphInv
  BY <1>1 DEF GraphInv
<1> QED BY <1>1, <1>2, <1>3, <1>4 DEF Dominates

\* What depends on the function and the order of its blocks.
LEMMA SameOrder ==
    ASSUME UNCHANGED <<prog, postOrder>>
    PROVE  /\ OrderInv' <=> OrderInv
           /\ \A x : Index(x)' = Index(x)
           /\ TreeInv(idom') => TreeInv(idom)'
<1>1. Reached' = Reached /\ Blocks' = Blocks /\ \A a, b : Dominates(a, b)' <=> Dominates(a, b)
  BY SameGraph
<1>2. OrderInv' <=> OrderInv
  BY <1>1 DEF OrderInv
<1>3. ASSUME NEW x PROVE Index(x)' = Index(x)
  BY DEF Index
<1>4. ASSUME NEW a PROVE Below(a)' = Below(a)
  BY <1>1, <1>3 DEF Below
<1>5. IsTree(idom') => IsTree(idom)'
  BY <1>1, <1>3 DEF IsTree
<1>6. TreeInv(idom') => TreeInv(idom)'
  <2>1. ASSUME NEW x PROVE Above(idom, x)' = Above(idom', x)
    BY DEF Above
  <2> QED BY <1>1, <1>4, <1>5, <2>1 DEF TreeInv
<1> QED BY <1>2, <1>3, <1>6

\* What depends on the tree as well.
LEMMA SameTree ==
    ASSUME UNCHANGED <<prog, postOrder, idom>>
    PROVE  /\ TreeInv(idom) => TreeInv(idom)'
           /\ \A b : Settled(b) => Settled(b)'
           /\ TreeExact => TreeExact'
<1>1. idom' = idom /\ Reached' = Reached /\ \A a, b : Dominates(a, b)' <=> Dominates(a, b)
  BY SameGraph
<1>2. ASSUME TreeInv(idom) PROVE TreeInv(idom)'
  <2>1. TreeInv(idom')
    BY <1>1, <1>2
  <2> QED BY <2>1, SameOrder
<1>3. \A x : Above(idom, x)' = Above(idom, x)
  BY <1>1 DEF Above
<1>4. ASSUME NEW b PROVE Settled(b) => Settled(b)'
  <2>1. KnownPreds(b)' = KnownPreds(b)
    BY DEF KnownPreds
  <2> QED BY <1>1, <1>3, <2>1 DEF Settled
<1>5. ASSUME IsTree(idom) PROVE IsTree(idom)'
  <2>1. \A x : Index(x)' = Index(x)
    BY SameOrder
  <2> QED BY <1>1, <1>5, <2>1 DEF IsTree
<1> QED BY <1>1, <1>2, <1>3, <1>4, <1>5 DEF TreeExact

\* Nothing has been computed yet.
LEMMA InitHasInv == SsaInit => DominanceInv
<1> SUFFICES ASSUME SsaInit PROVE DominanceInv
  OBVIOUS
<1>1. prog \in Programs /\ phase = "defs" /\ postOrder = <<>>
  BY DEF SsaInit
<1>2. GraphInv
  BY <1>1, GraphIs
<1> QED BY <1>1, <1>2 DEF DominanceInv, DominanceExact

\* buildVirtualRegDefPlaces, in front of the walk.
LEMMA DefSitesKeepInv == ASSUME DominanceInv, BuildDefSites PROVE DominanceInv'
<1>1. /\ phase = "defs" /\ phase' = "order" /\ walk' = <<Entry>>
      /\ prog' = prog /\ postOrder' = <<>>
  BY DEF BuildDefSites, DominanceInv
<1>2. GraphInv' /\ Entry' = Entry
  BY <1>1, SameGraph DEF DominanceInv, Entry
<1>3. WalkInv'
  BY <1>1, <1>2, WalkBegins
<1> QED BY <1>1, <1>2, <1>3 DEF DominanceInv, DominanceExact

\* The steps of buildPostOrderIndexList.
LEMMA OrderKeepsInv == ASSUME DominanceInv, EnterSuccessor \/ LeaveBlock PROVE DominanceInv'
<1>1. phase = "order" /\ phase' = "order" /\ prog' = prog
  BY DEF EnterSuccessor, LeaveBlock
<1>2. GraphInv' /\ WalkInv'
  BY <1>1, SameGraph, WalkEnters, WalkLeaves DEF DominanceInv
<1> QED BY <1>1, <1>2 DEF DominanceInv, DominanceExact

\* The start of buildImmDomTree.
LEMMA StartKeepsInv == ASSUME DominanceInv, StartDominators PROVE DominanceInv'
<1>1. /\ phase = "order" /\ phase' = "dominators" /\ walk = <<>>
      /\ UNCHANGED <<prog, postOrder>> /\ next' = 0 /\ changed' = TRUE
      /\ idom' = [b \in {Entry} |-> Entry]
  BY DEF StartDominators
<1>2. OrderInv /\ GraphInv
  BY <1>1, WalkEnds DEF DominanceInv
<1>3. TreeInv(idom')
  BY <1>1, <1>2, TreeBegins
<1>4. GraphInv' /\ OrderInv' /\ TreeInv(idom)'
  BY <1>1, <1>2, <1>3, SameGraph, SameOrder
<1>5. SweepInv'
  <2>1. Len(postOrder) \in Nat
    BY <1>2, IndexIs
  <2> QED BY <1>1, <2>1 DEF SweepInv, Passed
<1> QED BY <1>1, <1>4, <1>5 DEF DominanceInv, DominanceExact

\* Another sweep begins, or the last one has changed nothing.
LEMMA SweepKeepsInv == ASSUME DominanceInv, Sweep PROVE DominanceInv'
<1>1. /\ phase = "dominators" /\ next = 0 /\ UNCHANGED <<prog, postOrder, idom>>
      /\ changed => next' = Len(postOrder) /\ changed' = FALSE /\ phase' = phase
      /\ ~changed => phase' = "frontier" /\ UNCHANGED <<next, changed>>
  BY DEF Sweep, AnotherSweep
<1>2. GraphInv /\ OrderInv /\ TreeInv(idom) /\ SweepInv
  BY <1>1 DEF DominanceInv
<1>3. GraphInv' /\ OrderInv' /\ TreeInv(idom)' /\ Len(postOrder) \in Nat
  BY <1>1, <1>2, SameGraph, SameOrder, SameTree, IndexIs
<1>4. CASE changed
  <2>1. next' = Len(postOrder) /\ ~changed' /\ changed' \in BOOLEAN /\ postOrder' = postOrder
    BY <1>1, <1>4
  <2>2. Passed' = {}
    BY <1>3, <2>1 DEF Passed
  <2>3. SweepInv'
    BY <1>3, <2>1, <2>2 DEF SweepInv
  <2> QED BY <1>1, <1>3, <1>4, <2>3 DEF DominanceInv, DominanceExact
<1>5. CASE ~changed
  <2>1. Passed \subseteq DOMAIN idom /\ \A b \in Passed \ {Entry} : Settled(b)
    BY <1>2, <1>5 DEF SweepInv
  <2>2. \A b \in Reached : b \in Passed
    <3>1. \A b \in Reached : Index(b) \in 1 .. Len(postOrder) /\ postOrder[Index(b)] = b
      BY <1>2, IndexIs
    <3> QED BY <1>1, <3>1 DEF Passed
  <2>3. DOMAIN idom = Reached /\ \A b \in Reached \ {Entry} : Settled(b)
    BY <1>2, <2>1, <2>2 DEF TreeInv, IsTree
  <2>4. TreeExact'
    BY <1>1, <1>2, <2>3, SettledIsExact, SameTree
  <2> QED BY <1>1, <1>3, <1>5, <2>4 DEF DominanceInv, DominanceExact
<1> QED BY <1>2, <1>4, <1>5 DEF SweepInv

\* A sweep visits a block.
LEMMA VisitKeepsInv == ASSUME DominanceInv, VisitBlock PROVE DominanceInv'
<1>1. PICK b : b = postOrder[next]
  OBVIOUS
<1>2. /\ phase = "dominators" /\ phase' = phase /\ next > 0 /\ next' = next - 1
      /\ UNCHANGED <<prog, postOrder>>
      /\ IF b = Entry \/ Processed(b) = <<>> \/ (b \in DOMAIN idom /\ idom[b] = NewIdom(b))
         THEN UNCHANGED <<idom, changed>>
         ELSE idom' = [x \in DOMAIN idom \cup {b} |-> IF x = b THEN NewIdom(b) ELSE idom[x]] /\ changed' = TRUE
  BY <1>1 DEF VisitBlock
<1>3. GraphInv /\ OrderInv /\ TreeInv(idom) /\ SweepInv /\ IsTree(idom)
  BY <1>2 DEF DominanceInv, TreeInv
<1>4. PICK n \in Nat : n = Len(postOrder)
  BY <1>3, IndexIs
<1>5. /\ next \in 1 .. n /\ next - 1 \in 0 .. n /\ changed \in BOOLEAN /\ (next - 1) + 1 = next
      /\ \A k : k \in next .. n <=> k = next \/ k \in next + 1 .. n
  BY <1>2, <1>3, <1>4 DEF SweepInv
<1>6. Passed \subseteq DOMAIN idom /\ (~changed => \A x \in Passed \ {Entry} : Settled(x))
  BY <1>2, <1>3 DEF SweepInv
<1>7. b \in Reached /\ Index(b) = next
  BY <1>1, <1>3, <1>4, <1>5, IndexIs
<1>8. ASSUME b # Entry PROVE \E p \in KnownPreds(b) : Index(b) < Index(p)
  <2>1. PICK p \in Reached : b \in prog.succ[p] /\ Index(b) < Index(p)
    BY <1>3, <1>7, <1>8, IndexIs
  <2>2. Index(p) \in 1 .. n /\ postOrder[Index(p)] = p
    BY <1>3, <1>4, IndexIs
  <2>3. Index(p) \in next + 1 .. n
    BY <1>5, <1>7, <2>1, <2>2
  <2>4. p \in DOMAIN idom
    BY <1>4, <1>6, <2>2, <2>3 DEF Passed
  <2> QED BY <2>1, <2>4 DEF KnownPreds
<1>9. GraphInv' /\ OrderInv' /\ Passed' = Passed \cup {b}
  <2>1. Passed' = {postOrder[k] : k \in next .. n}
    BY <1>2, <1>4, <1>5 DEF Passed
  <2>2. Passed = {postOrder[k] : k \in next + 1 .. n}
    BY <1>4 DEF Passed
  <2> QED BY <1>1, <1>2, <1>3, <1>5, <2>1, <2>2, SameGraph, SameOrder
<1>10. CASE UNCHANGED <<idom, changed>> /\ (b = Entry \/ (b \in DOMAIN idom /\ idom[b] = NewIdom(b)))
  <2>1. TreeInv(idom)' /\ \A x : Settled(x) => Settled(x)'
    BY <1>2, <1>3, <1>10, SameTree
  <2>2. b \in DOMAIN idom /\ (b = Entry \/ Settled(b))
    <3>1. CASE b = Entry
      BY <1>3, <3>1 DEF IsTree
    <3>2. CASE b # Entry
      BY <1>3, <1>8, <1>10, <3>2, NewIdomIs DEF Settled
    <3> QED BY <3>1, <3>2
  <2>3. Passed' \subseteq DOMAIN idom' /\ Entry' = Entry
    BY <1>6, <1>9, <1>10, <2>2 DEF Entry
  <2>4. ~changed' => \A x \in Passed' \ {Entry} : Settled(x)'
    BY <1>6, <1>9, <1>10, <2>1, <2>2
  <2>5. SweepInv'
    BY <1>2, <1>4, <1>5, <1>10, <2>3, <2>4 DEF SweepInv
  <2> QED BY <1>2, <1>9, <2>1, <2>5 DEF DominanceInv, DominanceExact
<1>11. CASE /\ b # Entry /\ changed' = TRUE
            /\ idom' = [x \in DOMAIN idom \cup {b} |-> IF x = b THEN NewIdom(b) ELSE idom[x]]
  <2>1. PICK p \in KnownPreds(b) : Index(b) < Index(p)
    BY <1>8, <1>11
  <2>2. TreeInv(idom')
    BY <1>3, <1>7, <1>11, <2>1, TreeGrows
  <2>3. TreeInv(idom)'
    BY <1>2, <2>2, SameOrder
  <2>4. SweepInv'
    <3>1. Passed' \subseteq DOMAIN idom'
      BY <1>6, <1>9, <1>11
    <3> QED BY <1>2, <1>4, <1>5, <1>11, <3>1 DEF SweepInv
  <2> QED BY <1>2, <1>9, <2>3, <2>4 DEF DominanceInv, DominanceExact
<1>12. b # Entry => Processed(b) # <<>>
  BY <1>3, <1>8, ProcessedIs
<1> QED BY <1>2, <1>10, <1>11, <1>12

\* buildDominanceFrontier, on the finished tree.
LEMMA FrontierKeepsInv == ASSUME DominanceInv, BuildFrontier PROVE DominanceInv'
<1>1. /\ phase = "frontier" /\ phase' = "place" /\ UNCHANGED <<prog, idom>>
      /\ frontier' = [r \in Blocks |->
            {b \in {b \in DOMAIN idom : Len(Preds(b)) >= 2} : \E p \in ToSet(Preds(b)) : r \in Runners(p, idom[b])}]
  BY DEF BuildFrontier
<1>2. GraphInv /\ OrderInv /\ TreeExact /\ IsTree(idom) /\ DOMAIN idom = Reached
  BY <1>1 DEF DominanceInv, TreeExact
<1>3. GraphInv' /\ Dominated' = Dominated /\ Entry' = Entry
  BY <1>1, <1>2, SameGraph DEF Dominated, Entry
<1>4. DOMAIN Dominated = Reached /\ \A a \in Reached : Dominated[a] = {x \in Reached : Dominates(a, x)}
  BY DEF Dominated, Dominates
<1>5. \A a, b \in Reached : a \in Above(idom, b) <=> Dominates(a, b)
  BY <1>2 DEF TreeExact
<1>6. ASSUME NEW b \in Reached \ {Entry}
      PROVE  /\ b \in Dominated[idom[b]] \ {idom[b]}
             /\ \A a \in Reached : b \in Dominated[a] \ {a} => idom[b] \in Dominated[a]
  <2>1. idom[b] \in Reached /\ Above(idom, b) = {b} \cup Above(idom, idom[b])
    BY <1>2, AboveIs DEF IsTree
  <2>2. idom[b] \in Above(idom, idom[b]) /\ b \notin Above(idom, idom[b])
    BY <1>2, <2>1, AboveIs
  <2> QED BY <1>4, <1>5, <2>1, <2>2
<1> DEFINE heads == {Entry} \cap UNION {prog.succ[p] : p \in DOMAIN Dominated}
<1>7. ASSUME NEW a \in Reached
      PROVE  frontier'[a] \ heads = ((UNION {prog.succ[p] : p \in Dominated[a]}) \ (Dominated[a] \ {a})) \ heads
  <2>1. a \in Blocks
    BY <1>2, ReachedBlocks
  <2>2. \A b : b \in frontier'[a] <=> /\ b \in DOMAIN idom /\ Len(Preds(b)) >= 2
                                      /\ \E p \in ToSet(Preds(b)) : a \in Runners(p, idom[b])
    BY <1>1, <2>1
  <2>3. ASSUME NEW b, b # Entry
        PROVE  b \in frontier'[a] <=> \E p \in Reached : Dominates(a, p) /\ b \in prog.succ[p] /\ ~(Dominates(a, b) /\ a # b)
    BY <1>2, <2>2, <2>3, FrontierIs
  <2>4. \A b : (\E p \in Reached : Dominates(a, p) /\ b \in prog.succ[p] /\ ~(Dominates(a, b) /\ a # b))
               <=> b \in (UNION {prog.succ[p] : p \in Dominated[a]}) \ (Dominated[a] \ {a})
    <3>1. \A b : Dominates(a, b) <=> b \in Dominated[a]
      BY <1>4 DEF Dominates
    <3>2. Dominated[a] \subseteq Reached
      BY <1>4
    <3> QED BY <3>1, <3>2
  <2>5. ASSUME Entry \notin heads
        PROVE  Entry \notin frontier'[a] /\ Entry \notin UNION {prog.succ[p] : p \in Dominated[a]}
    <3>1. \A p \in Reached : Entry \notin prog.succ[p]
      BY <1>4, <2>5
    <3>2. \A p \in ToSet(Preds(Entry)) : Entry \in prog.succ[p]
      BY <1>2, PredsAre
    <3>3. \A p \in ToSet(Preds(Entry)) : a \notin Runners(p, idom[Entry])
      BY <1>2, <3>1, <3>2, IndexIs, RunnersBegin
    <3> QED BY <1>4, <2>2, <3>1, <3>3
  <2>6. heads \subseteq {Entry}
    OBVIOUS
  <2> HIDE DEF heads
  <2> QED BY <2>3, <2>4, <2>5, <2>6
<1>8. DominanceExact'
  <2>1. idom' = idom /\ prog' = prog /\ Dominated' = Dominated /\ Entry' = Entry
    BY <1>1, <1>3
  <2>2. DOMAIN idom = DOMAIN Dominated
    BY <1>2, <1>4
  <2>3. \A b \in DOMAIN Dominated \ {Entry} :
           /\ b \in Dominated[idom[b]] \ {idom[b]}
           /\ \A a \in DOMAIN Dominated : b \in Dominated[a] \ {a} => idom[b] \in Dominated[a]
    BY <1>4, <1>6
  <2>4. \A a \in DOMAIN Dominated :
           frontier'[a] \ heads = ((UNION {prog.succ[p] : p \in Dominated[a]}) \ (Dominated[a] \ {a})) \ heads
    BY <1>4, <1>7
  <2> QED BY <2>1, <2>2, <2>3, <2>4 DEF DominanceExact
<1>9. OrderInv' /\ TreeExact'
  BY <1>1, <1>2, SameOrder, SameTree DEF BuildFrontier
<1> QED BY <1>1, <1>3, <1>8, <1>9 DEF DominanceInv

\* The steps behind leave the tree and the frontiers alone.
LEMMA RestKeepsInv ==
    ASSUME DominanceInv, \/ UNCHANGED ssaVars
                         \/ TakeRegister \/ PlacePhis \/ StartRenaming \/ RenameBlock \/ Descend \/ Leave
    PROVE  DominanceInv'
<1>1. CASE UNCHANGED <<prog, phase, walk, postOrder, idom, next, changed, frontier>>
  <2>1. GraphInv' /\ (OrderInv' <=> OrderInv) /\ (TreeInv(idom) => TreeInv(idom)') /\ (TreeExact => TreeExact')
        /\ (\A b : Settled(b) => Settled(b)') /\ Reached' = Reached /\ Blocks' = Blocks
    BY <1>1, SameGraph, SameOrder, SameTree DEF DominanceInv
  <2>2. WalkInv' <=> WalkInv
    BY <1>1, <2>1 DEF WalkInv, EnteredFromLater
  <2>3. SweepInv => SweepInv'
    BY <1>1, <2>1 DEF SweepInv, Passed
  <2>4. DominanceExact' <=> DominanceExact
    <3>1. Dominated' = Dominated
      BY <1>1, SameGraph DEF Dominated
    <3> QED BY <1>1, <3>1 DEF DominanceExact
  <2> QED BY <1>1, <2>1, <2>2, <2>3, <2>4 DEF DominanceInv
<1>2. CASE /\ UNCHANGED <<prog, postOrder, idom>>
           /\ phase \in {"place", "rename"} /\ phase' \in {"rename", "done"}
  BY <1>2, SameGraph, SameOrder, SameTree DEF DominanceInv, DominanceExact
<1>3. CASE UNCHANGED ssaVars
  BY <1>1, <1>3 DEF ssaVars, dominance
<1>4. CASE TakeRegister \/ PlacePhis
  BY <1>1, <1>4 DEF TakeRegister, PlacePhis, dominance
<1>5. CASE StartRenaming \/ RenameBlock \/ Descend \/ Leave
  BY <1>2, <1>5 DEF StartRenaming, RenameBlock, Descend, Leave, dominance
<1> QED BY <1>3, <1>4, <1>5

LEMMA StepKeepsDominance == DominanceInv /\ [SsaNext]_ssaVars => DominanceInv'
<1> SUFFICES ASSUME DominanceInv, [SsaNext]_ssaVars PROVE DominanceInv'
  OBVIOUS
<1>1. CASE BuildDefSites
  BY <1>1, DefSitesKeepInv
<1>2. CASE EnterSuccessor \/ LeaveBlock
  BY <1>2, OrderKeepsInv
<1>3. CASE StartDominators
  BY <1>3, StartKeepsInv
<1>4. CASE VisitBlock
  BY <1>4, VisitKeepsInv
<1>5. CASE Sweep
  BY <1>5, SweepKeepsInv
<1>6. CASE BuildFrontier
  BY <1>6, FrontierKeepsInv
<1>7. CASE \/ UNCHANGED ssaVars
           \/ TakeRegister \/ PlacePhis \/ StartRenaming \/ RenameBlock \/ Descend \/ Leave
  BY <1>7, RestKeepsInv
<1> QED BY <1>1, <1>2, <1>3, <1>4, <1>5, <1>6, <1>7 DEF SsaNext

\* NonSsaToSsaPass::buildImmDomTree and buildDominanceFrontier: for every
\* control flow graph the sweeps leave the immediate dominators of exactly the
\* blocks that can be reached, and the frontiers are those of the definition.
THEOREM DominanceAlwaysExact == SsaSpec => []DominanceExact
<1>1. DominanceInv => DominanceExact
  BY DEF DominanceInv
<1> QED BY <1>1, InitHasInv, StepKeepsDominance, PTL DEF SsaSpec

-----------------------------------------------------------------------------
(* The phis, and the registers they are for.  Until a function is renamed   *)
(* its phis name registers as they were before the pass.                    *)

RegisterNames == {"v"} \X (Nat \X Int)
PhiOperands == [kind : {"reg"}, regs : [1 .. 1 -> RegisterNames], acc : {"R", "W"}]
PhiInstructions == [kind : {"phi"}, tag : {"phi"}, ops : Seq(PhiOperands), uses : {{}}, defs : {{}}]

\* A phi writes its first operand and reads one for every predecessor; a block
\* has no two phis of one register.
PhisInv ==
    /\ phis \in [Blocks -> Seq(PhiInstructions)]
    /\ \A b \in Blocks : \A j \in DOMAIN phis[b] :
          /\ DOMAIN phis[b][j].ops = 1 .. 1 + Len(Preds(b))
          /\ \A o \in DOMAIN phis[b][j].ops : phis[b][j].ops[o].acc = IF o = 1 THEN "W" ELSE "R"
          /\ PhiBase(phis[b][j]) \in DOMAIN defSites
          /\ \A i \in DOMAIN phis[b] : PhiBase(phis[b][i]) = PhiBase(phis[b][j]) => i = j

\* A register that is still to be placed has phis only if its turn has come,
\* and those blocks are known to have them; the bodies are those of the input.
PlaceInv ==
    /\ prog \in Programs
    /\ DOMAIN defSites \subseteq Nat /\ todo \subseteq DOMAIN defSites
    /\ worklist # <<>> => todo # {}
    /\ (\A b \in Blocks : \A j \in DOMAIN phis[b] :
          PhiBase(phis[b][j]) \in todo => PhiBase(phis[b][j]) = Placing /\ b \in hasPhi)
    /\ phase \notin {"place", "rename", "done"} =>
          worklist = <<>> /\ todo = {} /\ phis = [b \in Blocks |-> <<>>]
    /\ phase \notin {"rename", "done"} => code = prog.body
    /\ phase \in {"rename", "done"} => todo = {}

\* What an instruction writes and reads, when no operand does both.
LEMMA AccessIs ==
    ASSUME NEW i, \A o \in DOMAIN i.ops : i.ops[o].acc \in {"R", "W"}
    PROVE  /\ \A r : r \in Defs(i) <=> \E o \in DOMAIN i.ops : i.ops[o].acc = "W" /\ \E n \in DOMAIN i.ops[o].regs : r = i.ops[o].regs[n]
           /\ \A r : r \in Uses(i) <=> \E o \in DOMAIN i.ops : i.ops[o].acc = "R" /\ \E n \in DOMAIN i.ops[o].regs : r = i.ops[o].regs[n]
BY DEF Defs, Uses, Accessed, ToSet

\* Registers as they were before the pass.
LEMMA GenericRegisters ==
    ASSUME NEW i \in GenericInstructions, NEW o \in DOMAIN i.ops
    PROVE  /\ i.ops[o].acc \in {"R", "W"}
           /\ \A n \in DOMAIN i.ops[o].regs : BaseOf(i.ops[o].regs[n]) \in Nat /\ i.ops[o].regs[n] = Base(BaseOf(i.ops[o].regs[n]))
<1>1. i.ops \in Seq(GenericOperands)
  BY DEF GenericInstructions
<1>2. i.ops[o] \in GenericOperands
  BY <1>1
<1>3. i.ops[o].acc \in {"R", "W"} /\ \A n \in DOMAIN i.ops[o].regs : i.ops[o].regs[n] \in Bases
  BY <1>2 DEF GenericOperands
<1>4. \A r \in Bases : BaseOf(r) \in Nat /\ r = Base(BaseOf(r))
  BY DEF Bases, BaseOf, Base, V
<1> QED BY <1>3, <1>4

\* The bodies of a function of the input.
LEMMA BodiesAre ==
    ASSUME prog \in Programs
    PROVE  /\ DOMAIN prog.body = Blocks /\ prog.params \in SUBSET Nat
           /\ \A b \in Blocks : prog.body[b] \in Seq(GenericInstructions)
           /\ \A b \in Blocks : \A k \in DOMAIN prog.body[b] : prog.body[b][k] \in GenericInstructions
BY BodiesAssumption DEF Blocks

\* The operands of the phis.
LEMMA PhiIs ==
    ASSUME GraphInv, PhisInv, NEW b \in Blocks, NEW j \in DOMAIN phis[b]
    PROVE  LET phi == phis[b][j] IN
           /\ phis[b] \in Seq(PhiInstructions) /\ phi \in PhiInstructions
           /\ phi.ops \in Seq(PhiOperands) /\ DOMAIN phi.ops = 1 .. 1 + Len(Preds(b))
           /\ Len(Preds(b)) \in Nat /\ 1 \in DOMAIN phi.ops
           /\ Defs(phi) = {phi.ops[1].regs[1]}
           /\ phi.ops[1].regs[1] \in RegisterNames
<1>1. phis[b] \in Seq(PhiInstructions)
  BY DEF PhisInv
<1>2. PICK phi : phi = phis[b][j]
  OBVIOUS
<1>3. phi \in PhiInstructions
  BY <1>1, <1>2
<1>4. phi.ops \in Seq(PhiOperands)
  BY <1>3 DEF PhiInstructions
<1>5. DOMAIN phi.ops = 1 .. 1 + Len(Preds(b))
      /\ \A o \in DOMAIN phi.ops : phi.ops[o].acc = IF o = 1 THEN "W" ELSE "R"
  BY <1>2 DEF PhisInv
<1>6. Len(Preds(b)) \in Nat
  <2>1. IsFiniteSet({p \in Blocks : b \in prog.succ[p]})
    BY FS_Subset DEF GraphInv
  <2> QED BY <2>1, PredsAre, FS_CardinalityType
<1>7. 1 \in DOMAIN phi.ops
  BY <1>5, <1>6
<1>8. \A o \in DOMAIN phi.ops : phi.ops[o] \in PhiOperands
  BY <1>4
<1>9. \A o \in DOMAIN phi.ops : phi.ops[o].regs \in [1 .. 1 -> RegisterNames]
  BY <1>8 DEF PhiOperands
<1>10. Defs(phi) = {phi.ops[1].regs[1]}
  <2>1. \A o \in DOMAIN phi.ops : phi.ops[o].acc \in {"R", "W"} /\ (phi.ops[o].acc = "W" <=> o = 1)
    BY <1>5
  <2>2. \A r : r \in Defs(phi) <=> \E o \in DOMAIN phi.ops : phi.ops[o].acc = "W" /\ \E n \in DOMAIN phi.ops[o].regs : r = phi.ops[o].regs[n]
    BY <2>1, AccessIs
  <2>3. DOMAIN phi.ops[1].regs = 1 .. 1
    BY <1>7, <1>9
  <2> QED BY <1>7, <2>1, <2>2, <2>3
<1> QED BY <1>1, <1>2, <1>3, <1>4, <1>5, <1>6, <1>7, <1>9, <1>10

\* Names differ in their register or their number, and renaming gives out numbers from one.
LEMMA VersionIs ==
    ASSUME NEW v, NEW n, NEW w, NEW m
    PROVE  /\ Version(v, n) = Version(w, m) => v = w /\ n = m
           /\ BaseOf(Version(v, n)) = v /\ BaseOf(Base(v)) = v
           /\ IsGiven(Undef(v)) /\ (v \in prog.params => IsGiven(Base(v)))
           /\ (n \in Nat \ {0} => ~IsGiven(Version(v, n)))
BY DEF Version, Base, BaseOf, Undef, IsGiven, V

\* The registers of the operands that are put there.
LEMMA RegIs ==
    ASSUME NEW r \in RegisterNames, NEW acc \in {"R", "W"}
    PROVE  /\ Reg(r, acc) \in PhiOperands
           /\ Reg(r, acc).regs[1] = r /\ Reg(r, acc).acc = acc
BY DEF Reg, PhiOperands

\* The function before anything is placed.
LEMMA InitPlaces == SsaInit => PhisInv /\ PlaceInv
<1> SUFFICES ASSUME SsaInit PROVE PhisInv /\ PlaceInv
  OBVIOUS
<1>1. /\ prog \in Programs /\ phase = "defs" /\ defSites = <<>> /\ todo = {} /\ worklist = <<>>
      /\ phis = [b \in Blocks |-> <<>>] /\ code = prog.body
  BY DEF SsaInit
<1>2. PhisInv
  BY <1>1 DEF PhisInv
<1> QED BY <1>1, <1>2 DEF PlaceInv

\* The registers that are defined are those the bodies write, and the parameters.
LEMMA DefSitesKeepPlaces == ASSUME PhisInv, PlaceInv, BuildDefSites PROVE PhisInv' /\ PlaceInv'
<1>1. /\ phase = "defs" /\ phase' = "order" /\ UNCHANGED <<prog, todo, worklist, hasPhi, phis, code>>
      /\ DOMAIN defSites' = {BaseOf(r) : r \in UNION {WrittenIn(b) : b \in Blocks}} \cup prog.params
  BY DEF BuildDefSites, placement
<1>2. /\ prog \in Programs /\ todo = {} /\ worklist = <<>> /\ phis = [b \in Blocks |-> <<>>] /\ code = prog.body
      /\ Blocks' = Blocks
  BY <1>1 DEF PlaceInv, Blocks
<1>3. DOMAIN defSites' \subseteq Nat
  <2>1. ASSUME NEW b \in Blocks, NEW r \in WrittenIn(b) PROVE BaseOf(r) \in Nat
    <3>1. PICK k \in DOMAIN prog.body[b] : r \in Defs(prog.body[b][k])
      BY <2>1 DEF WrittenIn
    <3>2. PICK i : i = prog.body[b][k]
      OBVIOUS
    <3>3. i \in GenericInstructions
      BY <1>2, <3>2, BodiesAre
    <3>4. \E o \in DOMAIN i.ops : \E n \in DOMAIN i.ops[o].regs : r = i.ops[o].regs[n]
      BY <3>1, <3>2, <3>3, AccessIs, GenericRegisters
    <3> QED BY <3>3, <3>4, GenericRegisters
  <2> QED BY <1>1, <1>2, <2>1, BodiesAre
<1>4. PhisInv'
  BY <1>1, <1>2 DEF PhisInv
<1> QED BY <1>1, <1>2, <1>3, <1>4 DEF PlaceInv

\* The order of the blocks and their dominators have nothing to do with the phis.
LEMMA SamePhis ==
    ASSUME PhisInv, UNCHANGED <<prog, defSites, phis>>
    PROVE  PhisInv' /\ \A phi : PhiBase(phi)' = PhiBase(phi)
<1>1. Blocks' = Blocks /\ \A b : Preds(b)' = Preds(b)
  BY DEF Blocks, Preds
<1>2. \A phi : PhiBase(phi)' = PhiBase(phi)
  BY DEF PhiBase
<1> QED BY <1>1, <1>2 DEF PhisInv

\* Before phis are placed there are none.
LEMMA DominatorsKeepPlaces ==
    ASSUME PhisInv, PlaceInv,
           EnterSuccessor \/ LeaveBlock \/ StartDominators \/ VisitBlock \/ Sweep \/ BuildFrontier
    PROVE  PhisInv' /\ PlaceInv'
<1>1. UNCHANGED <<prog, defSites, worklist, hasPhi, phis, code>>
  BY DEF EnterSuccessor, LeaveBlock, StartDominators, VisitBlock, Sweep, BuildFrontier, placement
<1>2. PhisInv' /\ Blocks' = Blocks
  BY <1>1, SamePhis DEF Blocks
<1>3. phase \in {"order", "dominators", "frontier"}
  BY DEF EnterSuccessor, LeaveBlock, StartDominators, VisitBlock, Sweep, BuildFrontier
<1>4. /\ prog \in Programs /\ DOMAIN defSites \subseteq Nat /\ worklist = <<>> /\ todo = {}
      /\ phis = [b \in Blocks |-> <<>>] /\ code = prog.body
  BY <1>3 DEF PlaceInv
<1>5. CASE BuildFrontier
  <2>1. todo' = DOMAIN defSites /\ phase' = "place"
    BY <1>5 DEF BuildFrontier
  <2> QED BY <1>1, <1>2, <1>4, <2>1 DEF PlaceInv
<1>6. CASE todo' = todo /\ phase' \in {"order", "dominators", "frontier"}
  BY <1>1, <1>2, <1>4, <1>6 DEF PlaceInv
<1> QED BY <1>3, <1>5, <1>6 DEF EnterSuccessor, LeaveBlock, StartDominators, VisitBlock, Sweep, placement

\* A register and its blocks are taken.
LEMMA TakingKeepsPlaces ==
    ASSUME PhisInv, PlaceInv, TakeRegister \/ StartRenaming \/ UNCHANGED ssaVars PROVE PhisInv' /\ PlaceInv'
<1>1. UNCHANGED <<prog, defSites, todo, hasPhi, phis, code>>
  BY DEF TakeRegister, StartRenaming, placement, ssaVars
<1>2. PhisInv' /\ (\A phi : PhiBase(phi)' = PhiBase(phi)) /\ Blocks' = Blocks /\ Placing' = Placing
  BY <1>1, SamePhis DEF Blocks, Placing
<1>3. CASE TakeRegister
  BY <1>1, <1>2, <1>3 DEF PlaceInv, TakeRegister
<1>4. CASE StartRenaming
  BY <1>1, <1>2, <1>4 DEF PlaceInv, StartRenaming, placement
<1>5. CASE UNCHANGED ssaVars
  BY <1>1, <1>2, <1>5 DEF PlaceInv, ssaVars, placement
<1> QED BY <1>3, <1>4, <1>5

\* The phi that is created for a block.
LEMMA NewPhiIs ==
    ASSUME GraphInv, NEW b \in Blocks, NEW v \in Nat
    PROVE  LET phi == NewPhi(v, b) IN
           /\ phi \in PhiInstructions /\ DOMAIN phi.ops = 1 .. 1 + Len(Preds(b)) /\ PhiBase(phi) = v
           /\ \A o \in DOMAIN phi.ops : phi.ops[o].acc = IF o = 1 THEN "W" ELSE "R"
<1>1. Len(Preds(b)) \in Nat /\ Preds(b) \in Seq(Blocks)
  <2>1. {p \in Blocks : b \in prog.succ[p]} \in SUBSET Nat /\ IsFiniteSet({p \in Blocks : b \in prog.succ[p]})
    BY FS_Subset DEF GraphInv
  <2>2. Preds(b) \in Seq({p \in Blocks : b \in prog.succ[p]})
    BY <2>1, AscendingLists DEF Preds
  <2> QED BY <2>2
<1>2. PICK m \in Nat : m = Len(Preds(b)) /\ DOMAIN Preds(b) = 1 .. m
  BY <1>1
<1>3. Base(v) \in RegisterNames
  BY DEF Base, RegisterNames, V
<1>4. PICK r : r = Reg(Base(v), "R") /\ r \in PhiOperands /\ r.acc = "R"
  BY <1>3, RegIs
<1>5. PICK w : w = Reg(Base(v), "W") /\ w \in PhiOperands /\ w.acc = "W" /\ w.regs[1] = Base(v)
  BY <1>3, RegIs
<1>6. PICK tail : tail = [k \in 1 .. m |-> r]
  OBVIOUS
<1>7. tail \in Seq(PhiOperands) /\ Len(tail) = m
  BY <1>4, <1>6
<1>8. PICK ops : ops = <<w>> \o tail
  OBVIOUS
<1>9. /\ ops \in Seq(PhiOperands) /\ DOMAIN ops = 1 .. 1 + m /\ ops[1] = w
      /\ \A o \in 2 .. 1 + m : ops[o] = tail[o - 1]
  BY <1>5, <1>7, <1>8
<1>10. \A o \in 2 .. 1 + m : ops[o] = r
  BY <1>6, <1>9
<1>11. PICK phi : phi = NewPhi(v, b)
  OBVIOUS
<1>12. phi = [kind |-> "phi", tag |-> "phi", ops |-> ops, uses |-> {}, defs |-> {}]
  BY <1>2, <1>4, <1>5, <1>6, <1>8, <1>11 DEF NewPhi, Instr
<1>13. phi.ops = ops /\ phi \in PhiInstructions
  BY <1>9, <1>12 DEF PhiInstructions
<1>14. PhiBase(phi) = v
  BY <1>5, <1>9, <1>13, VersionIs DEF PhiBase
<1>15. \A o \in 1 .. 1 + m : o = 1 \/ o \in 2 .. 1 + m
  BY <1>2
<1> QED BY <1>2, <1>4, <1>5, <1>9, <1>10, <1>11, <1>13, <1>14, <1>15

\* A register gets its phis in blocks where it has none yet.
LEMMA PlacingKeepsPlaces ==
    ASSUME GraphInv, PhisInv, PlaceInv, PlacePhis
    PROVE  PhisInv' /\ PlaceInv'
<1>1. PICK v : v = Placing
  OBVIOUS
<1>2. PICK fresh : fresh = frontier[Last(worklist)] \ hasPhi
  OBVIOUS
<1>3. /\ phase = "place" /\ phase' = "place" /\ worklist # <<>>
      /\ UNCHANGED <<prog, defSites, code>>
      /\ phis' = [b \in Blocks |-> IF b \in fresh THEN <<NewPhi(v, b)>> \o phis[b] ELSE phis[b]]
      /\ \/ worklist' = <<>> /\ todo' = todo \ {v}
         \/ worklist' # <<>> /\ hasPhi' = hasPhi \cup fresh /\ todo' = todo
  BY <1>1, <1>2 DEF PlacePhis
<1>4. /\ prog \in Programs /\ todo \subseteq DOMAIN defSites /\ DOMAIN defSites \subseteq Nat /\ todo # {}
      /\ code = prog.body
      /\ \A b \in Blocks : \A j \in DOMAIN phis[b] : PhiBase(phis[b][j]) \in todo => PhiBase(phis[b][j]) = v /\ b \in hasPhi
  BY <1>1, <1>3 DEF PlaceInv
<1>5. v \in todo /\ v \in Nat /\ v \in DOMAIN defSites
  <2>1. PICK n \in todo : \A m \in todo : n <= m
    BY <1>4, LeastOf
  <2>2. \A x, y \in todo : (\A m \in todo : x <= m) /\ (\A m \in todo : y <= m) => x = y
    BY <1>4
  <2>3. v = n
    BY <1>1, <2>1, <2>2 DEF Placing, Min
  <2> QED BY <1>4, <2>3
<1>6. Blocks' = Blocks /\ \A b : Preds(b)' = Preds(b)
  BY <1>3 DEF Blocks, Preds
<1>7. ASSUME NEW b \in Blocks
      PROVE  /\ phis'[b] \in Seq(PhiInstructions)
             /\ \A j \in DOMAIN phis'[b] :
                   /\ DOMAIN phis'[b][j].ops = 1 .. 1 + Len(Preds(b))
                   /\ \A o \in DOMAIN phis'[b][j].ops : phis'[b][j].ops[o].acc = IF o = 1 THEN "W" ELSE "R"
                   /\ PhiBase(phis'[b][j]) \in DOMAIN defSites
                   /\ \A i \in DOMAIN phis'[b] : PhiBase(phis'[b][i]) = PhiBase(phis'[b][j]) => i = j
                   /\ PhiBase(phis'[b][j]) \in todo => PhiBase(phis'[b][j]) = v /\ b \in hasPhi \cup fresh
  <2>1. /\ phis[b] \in Seq(PhiInstructions)
        /\ \A j \in DOMAIN phis[b] :
              /\ DOMAIN phis[b][j].ops = 1 .. 1 + Len(Preds(b))
              /\ \A o \in DOMAIN phis[b][j].ops : phis[b][j].ops[o].acc = IF o = 1 THEN "W" ELSE "R"
              /\ PhiBase(phis[b][j]) \in DOMAIN defSites
              /\ \A i \in DOMAIN phis[b] : PhiBase(phis[b][i]) = PhiBase(phis[b][j]) => i = j
    BY DEF PhisInv
  <2>2. CASE b \notin fresh
    BY <1>3, <1>4, <2>1, <2>2
  <2>3. CASE b \in fresh
    <3>1. PICK phi : phi = NewPhi(v, b)
      OBVIOUS
    <3>2. /\ phi \in PhiInstructions /\ DOMAIN phi.ops = 1 .. 1 + Len(Preds(b)) /\ PhiBase(phi) = v
          /\ \A o \in DOMAIN phi.ops : phi.ops[o].acc = IF o = 1 THEN "W" ELSE "R"
      BY <1>5, <3>1, NewPhiIs
    <3>3. PICK new : new = <<phi>> \o phis[b]
      OBVIOUS
    <3>4. phis'[b] = new
      BY <1>3, <2>3, <3>1, <3>3
    <3>5. PICK n \in Nat : n = Len(phis[b]) /\ DOMAIN phis[b] = 1 .. n
      BY <2>1
    <3>6. /\ new \in Seq(PhiInstructions) /\ DOMAIN new = 1 .. n + 1 /\ new[1] = phi
          /\ \A j \in 2 .. n + 1 : new[j] = phis[b][j - 1] /\ j - 1 \in 1 .. n
      BY <2>1, <3>2, <3>3, <3>5
    <3>7. \A j \in 1 .. n : PhiBase(phis[b][j]) # v
      BY <1>2, <1>4, <1>5, <2>3, <3>5
    <3>8. \A j \in 1 .. n + 1 : j = 1 \/ j \in 2 .. n + 1
      OBVIOUS
    <3>9. ASSUME NEW j \in DOMAIN new
          PROVE  /\ DOMAIN new[j].ops = 1 .. 1 + Len(Preds(b))
                 /\ \A o \in DOMAIN new[j].ops : new[j].ops[o].acc = IF o = 1 THEN "W" ELSE "R"
                 /\ PhiBase(new[j]) \in DOMAIN defSites
                 /\ PhiBase(new[j]) \in todo => PhiBase(new[j]) = v /\ b \in hasPhi \cup fresh
      <4>1. CASE j = 1
        BY <1>5, <2>3, <3>2, <3>6, <4>1
      <4>2. CASE j \in 2 .. n + 1
        <5>1. PICK q \in DOMAIN phis[b] : new[j] = phis[b][q]
          BY <3>5, <3>6, <4>2
        <5> QED BY <1>4, <2>1, <5>1
      <4> QED BY <3>6, <3>8, <4>1, <4>2
    <3>10. ASSUME NEW i \in 1 .. n + 1, NEW j \in 1 .. n + 1, PhiBase(new[i]) = PhiBase(new[j]) PROVE i = j
      <4>1. CASE i = 1 \/ j = 1
        BY <3>2, <3>6, <3>7, <3>8, <3>10, <4>1
      <4>2. CASE i \in 2 .. n + 1 /\ j \in 2 .. n + 1
        <5>1. PICK p \in DOMAIN phis[b] : p = i - 1 /\ new[i] = phis[b][p]
          BY <3>5, <3>6, <4>2
        <5>2. PICK q \in DOMAIN phis[b] : q = j - 1 /\ new[j] = phis[b][q]
          BY <3>5, <3>6, <4>2
        <5>3. p = q
          BY <2>1, <3>10, <5>1, <5>2
        <5> QED BY <5>1, <5>2, <5>3
      <4> QED BY <3>8, <4>1, <4>2
    <3> QED BY <3>4, <3>6, <3>9, <3>10
  <2> QED BY <2>2, <2>3
<1>8. \A phi : PhiBase(phi)' = PhiBase(phi')
  BY DEF PhiBase
<1>9. PhisInv'
  <2>1. phis' \in [Blocks -> Seq(PhiInstructions)]
    BY <1>3, <1>7
  <2>2. \A b \in Blocks : \A j \in DOMAIN phis'[b] :
           /\ DOMAIN phis'[b][j].ops = 1 .. 1 + Len(Preds(b)')
           /\ \A o \in DOMAIN phis'[b][j].ops : phis'[b][j].ops[o].acc = IF o = 1 THEN "W" ELSE "R"
           /\ PhiBase(phis[b][j])' \in DOMAIN defSites'
           /\ \A i \in DOMAIN phis'[b] : PhiBase(phis[b][i])' = PhiBase(phis[b][j])' => i = j
    <3>1. ASSUME NEW b \in Blocks, NEW j \in DOMAIN phis'[b] PROVE PhiBase(phis[b][j])' = PhiBase(phis'[b][j])
      BY DEF PhiBase
    <3>2. ASSUME NEW b \in Blocks, NEW j \in DOMAIN phis'[b] PROVE Preds(b)' = Preds(b) /\ defSites' = defSites
      BY <1>3, <1>6
    <3> QED BY <1>7, <3>1, <3>2
  <2> QED BY <1>6, <2>1, <2>2 DEF PhisInv
<1>10. CASE worklist' = <<>> /\ todo' = todo \ {v}
  <2>1. \A b \in Blocks : \A j \in DOMAIN phis'[b] : PhiBase(phis'[b][j]) \notin todo'
    BY <1>7, <1>10
  <2>2. \A b \in Blocks' : \A j \in DOMAIN phis'[b] : PhiBase(phis[b][j])' \notin todo'
    BY <1>6, <2>1 DEF PhiBase
  <2> QED BY <1>3, <1>4, <1>9, <1>10, <2>2 DEF PlaceInv
<1>11. CASE worklist' # <<>> /\ hasPhi' = hasPhi \cup fresh /\ todo' = todo
  <2>1. Placing' = v
    BY <1>1, <1>11 DEF Placing
  <2>2. \A b \in Blocks' : \A j \in DOMAIN phis'[b] :
           PhiBase(phis[b][j])' \in todo' => PhiBase(phis[b][j])' = Placing' /\ b \in hasPhi'
    BY <1>6, <1>7, <1>11, <2>1 DEF PhiBase
  <2> QED BY <1>3, <1>4, <1>9, <1>11, <2>2 DEF PlaceInv
<1> QED BY <1>3, <1>10, <1>11

-----------------------------------------------------------------------------
(* The walk of renameBlock over the dominator tree.                         *)

ChildrenOf(b) == {c \in Reached \ {Entry} : idom[c] = b}
Frames ==
    [block : Blocks, entered : BOOLEAN, children : Seq(Blocks), pushed : {<<>>} \cup [Variables -> Nat]]

\* The blocks a call still has to rename, and those that all calls together
\* have; renamed are the blocks that are not below one of them.
Pending(i) == ToSet(frames[i].children) \cup (IF frames[i].entered THEN {} ELSE {frames[i].block})
Waiting == UNION {Pending(i) : i \in DOMAIN frames}
Visited == {b \in Reached : Above(idom, b) \cap Waiting = {}}

\* The calls are for a path down the tree; only the last one may not have begun,
\* and a call has no child left that is or has been called.
FrameInv(i) ==
    LET frame == frames[i] IN
    /\ frame.entered => frame.pushed \in [Variables -> Nat]
    /\ ~frame.entered => frame.children = <<>> /\ i = Len(frames)
    /\ Once(frame.children) /\ ToSet(frame.children) \subseteq ChildrenOf(frame.block)
    /\ frame.block \in Reached
    /\ i = 1 => frame.block = Entry
    /\ i > 1 => frame.block \in ChildrenOf(frames[i - 1].block) \ ToSet(frames[i - 1].children)
FramesInv ==
    /\ frames \in Seq(Frames)
    /\ phase = "rename" <=> frames # <<>>
    /\ \A i \in 1 .. Len(frames) : FrameInv(i)

-----------------------------------------------------------------------------
(* The walk that renames.                                                  *)

\* A block that is above another is the parent of one above it, or the block.
LEMMA ChildAbove ==
    ASSUME GraphInv, OrderInv, IsTree(idom), NEW x \in DOMAIN idom, NEW b \in Above(idom, x), b # x
    PROVE  \E c \in Above(idom, x) : c # Entry /\ idom[c] = b
<1> SUFFICES ASSUME \A c \in Above(idom, x) : c # Entry => idom[c] # b PROVE FALSE
  OBVIOUS
<1>1. x \in Above(idom, x) /\ Above(idom, x) \subseteq DOMAIN idom /\ \A a \in Above(idom, x) : idom[a] \in Above(idom, x)
  BY AboveIs
<1>2. idom[Entry] = Entry
  BY DEF IsTree
<1>3. PICK S : S = Above(idom, x) \ {b}
  OBVIOUS
<1>4. \A y \in S \cap DOMAIN idom : idom[y] \in S \cap DOMAIN idom
  BY <1>1, <1>2, <1>3
<1>5. Above(idom, x) \subseteq S
  BY <1>1, <1>3, <1>4, AboveLeast
<1> QED BY <1>3, <1>5

\* The tree is there: what the rest of the pass relies on.
TreeReady == GraphInv /\ OrderInv /\ TreeExact

\* What TreeExact says of the tree.
LEMMA TreeIs ==
    ASSUME TreeReady
    PROVE  /\ IsTree(idom) /\ DOMAIN idom = Reached /\ Reached \in SUBSET Blocks /\ Entry \in Reached
           /\ \A x \in Reached : x # Entry => x \notin Above(idom, idom[x]) /\ idom[x] \in Reached
           /\ \A x \in Reached : x \in Above(idom, x) /\ Entry \in Above(idom, x) /\ Above(idom, x) \subseteq Reached
           /\ \A x \in Reached : Above(idom, x) = {x} \cup Above(idom, idom[x])
           /\ \A x \in Reached : \A a \in Above(idom, x) : idom[a] \in Above(idom, x)
           /\ Above(idom, Entry) = {Entry}
           /\ \A c \in Reached : c # Entry => idom[c] # c
<1>1. GraphInv /\ OrderInv /\ TreeExact /\ IsTree(idom) /\ DOMAIN idom = Reached
  BY DEF TreeReady, TreeExact
<1>2. \A x \in Reached : x # Entry => idom[x] \in Reached /\ idom[x] # x
  <2>1. \A x \in Reached : idom[x] \in Reached /\ (x # Entry => Index(x) < Index(idom[x]))
    BY <1>1 DEF IsTree
  <2>2. \A x \in Reached : Index(x) \in Int
    BY <1>1, IndexIs
  <2>3. ASSUME NEW x \in Reached, x # Entry PROVE idom[x] # x
    BY <2>1, <2>2, <2>3
  <2> QED BY <2>1, <2>3
<1>3. \A x \in Reached : /\ x \in Above(idom, x) /\ Above(idom, x) \subseteq DOMAIN idom
                         /\ \A a \in Above(idom, x) : idom[a] \in Above(idom, x)
                         /\ Above(idom, x) = {x} \cup Above(idom, idom[x])
                         /\ x \notin Above(idom, idom[x]) \/ x = Entry
                         /\ Above(idom, Entry) = {Entry}
                         /\ Entry \in Above(idom, x)
  BY <1>1, AboveIs
<1>4. Reached \in SUBSET Blocks /\ Entry \in Reached
  BY <1>1, ReachedBlocks
<1> QED BY <1>1, <1>2, <1>3, <1>4

\* The calls that have not returned are for the blocks above the last one.
LEMMA FramesAreAbove ==
    ASSUME TreeReady, FramesInv
    PROVE  /\ \A i \in 1 .. Len(frames) : Above(idom, frames[i].block) = {frames[j].block : j \in 1 .. i}
           /\ \A i, j \in 1 .. Len(frames) : frames[i].block = frames[j].block => i = j
<1>1. PICK m \in Nat : m = Len(frames)
  BY DEF FramesInv
<1>2. \A i \in 1 .. m : /\ frames[i].block \in Reached
                        /\ i = 1 => frames[i].block = Entry
                        /\ i > 1 => frames[i].block # Entry /\ idom[frames[i].block] = frames[i - 1].block
  BY <1>1 DEF FramesInv, FrameInv, ChildrenOf
<1>3. PICK T : T = {i \in Nat : i \in 1 .. m => Above(idom, frames[i].block) = {frames[j].block : j \in 1 .. i}}
  OBVIOUS
<1>4. 0 \in T
  BY <1>3
<1>5. ASSUME NEW i \in Nat, i \in T PROVE i + 1 \in T
  <2>1. CASE i + 1 \notin 1 .. m
    BY <1>3, <2>1
  <2>2. CASE i + 1 \in 1 .. m /\ i = 0
    <3>1. frames[1].block = Entry /\ 1 \in 1 .. m /\ Above(idom, Entry) = {Entry}
      BY <1>2, <2>2, TreeIs
    <3>2. 1 .. 1 = {1}
      OBVIOUS
    <3>3. Above(idom, frames[1].block) = {frames[j].block : j \in 1 .. 1}
      BY <3>1, <3>2
    <3> QED BY <1>3, <2>2, <3>3
  <2>3. CASE i + 1 \in 1 .. m /\ i \in 1 .. m
    <3>1. Above(idom, frames[i].block) = {frames[j].block : j \in 1 .. i}
      BY <1>3, <1>5, <2>3
    <3>2. PICK k : k = i + 1 /\ k \in 1 .. m /\ k > 1 /\ k - 1 = i
      BY <2>3
    <3>3. frames[k].block \in Reached /\ idom[frames[k].block] = frames[i].block
      BY <1>2, <3>2
    <3>4. Above(idom, frames[k].block) = {frames[k].block} \cup Above(idom, frames[i].block)
      BY <3>3, TreeIs
    <3>5. 1 .. k = (1 .. i) \cup {k}
      BY <3>2
    <3>6. Above(idom, frames[k].block) = {frames[j].block : j \in 1 .. k}
      BY <3>1, <3>4, <3>5
    <3> QED BY <1>3, <3>2, <3>6
  <2> QED BY <1>1, <2>1, <2>2, <2>3
<1>6. Nat \subseteq T
  BY <1>4, <1>5, InductionOver
<1>7. ASSUME NEW i \in 1 .. m PROVE Above(idom, frames[i].block) = {frames[j].block : j \in 1 .. i}
  <2>1. i \in Nat
    BY <1>1
  <2>2. i \in T
    BY <1>6, <2>1
  <2> QED BY <1>3, <2>2
<1>8. ASSUME NEW i \in 1 .. m, NEW j \in 1 .. m, i < j PROVE frames[i].block # frames[j].block
  <2>1. PICK k \in 1 .. m : k = j - 1 /\ i \in 1 .. k
    BY <1>8
  <2>2. frames[j].block # Entry /\ frames[j].block \in Reached /\ idom[frames[j].block] = frames[k].block
    BY <1>2, <1>8, <2>1
  <2>3. frames[j].block \notin Above(idom, frames[k].block)
    BY <2>2, TreeIs
  <2> QED BY <1>7, <2>1, <2>3
<1>9. \A i, j \in 1 .. m : i = j \/ i < j \/ j < i
  OBVIOUS
<1> QED BY <1>1, <1>7, <1>8, <1>9

\* The children that wait are not among them.
LEMMA ChildrenAreBelow ==
    ASSUME TreeReady, FramesInv, NEW i \in 1 .. Len(frames), NEW n \in 1 .. Len(frames)
    PROVE  Above(idom, frames[n].block) \cap ToSet(frames[i].children) = {}
<1> SUFFICES ASSUME NEW c \in Above(idom, frames[n].block), c \in ToSet(frames[i].children) PROVE FALSE
  OBVIOUS
<1>1. PICK m \in Nat : m = Len(frames)
  BY DEF FramesInv
<1>2. PICK j \in 1 .. n : c = frames[j].block
  <2>1. Above(idom, frames[n].block) = {frames[j].block : j \in 1 .. n}
    BY FramesAreAbove
  <2> QED BY <2>1
<1>3. c # Entry /\ idom[c] = frames[i].block
  BY DEF FramesInv, FrameInv, ChildrenOf
<1>4. j \in 1 .. m /\ FrameInv(j)
  BY <1>1 DEF FramesInv
<1>5. j # 1
  BY <1>2, <1>3, <1>4 DEF FrameInv
<1>6. j > 1 /\ j - 1 \in 1 .. m
  BY <1>1, <1>4, <1>5
<1>7. idom[c] = frames[j - 1].block /\ c \notin ToSet(frames[j - 1].children)
  BY <1>2, <1>4, <1>6 DEF FrameInv, ChildrenOf
<1>8. i = j - 1
  BY <1>1, <1>3, <1>6, <1>7, FramesAreAbove
<1> QED BY <1>7, <1>8

\* What the steps of renaming leave alone.
LEMMA SameSurroundings ==
    ASSUME UNCHANGED <<prog, idom, defSites>>
    PROVE  /\ Blocks' = Blocks /\ Reached' = Reached /\ Variables' = Variables /\ Frames' = Frames
           /\ \A x : Above(idom, x)' = Above(idom, x)
           /\ \A b : ChildrenOf(b)' = ChildrenOf(b) /\ Preds(b)' = Preds(b) /\ DomChildren(b)' = DomChildren(b)
           /\ \A b, s : PredIndex(b, s)' = PredIndex(b, s)
<1>1. Blocks' = Blocks /\ Reached' = Reached
  BY SameGraph
<1>2. Variables' = Variables
  BY DEF Variables
<1>3. \A x : Above(idom, x)' = Above(idom, x)
  BY DEF Above
<1>4. \A b : Preds(b)' = Preds(b) /\ DomChildren(b)' = DomChildren(b)
  BY <1>1 DEF Preds, DomChildren
<1>5. \A b : ChildrenOf(b)' = ChildrenOf(b)
  BY <1>1 DEF ChildrenOf, Entry
<1> QED BY <1>1, <1>2, <1>3, <1>4, <1>5 DEF Frames, PredIndex

\* The blocks that wait to be renamed.
LEMMA WaitingIs ==
    ASSUME FramesInv
    PROVE  \A c : c \in Waiting <=> \E i \in 1 .. Len(frames) :
               c \in ToSet(frames[i].children) \/ (~frames[i].entered /\ c = frames[i].block)
BY DEF Waiting, Pending, FramesInv

\* The children that the walk is going to visit.
LEMMA ChildrenAre ==
    ASSUME TreeReady, NEW b \in Reached
    PROVE  /\ DomChildren(b) \in Seq(Blocks) /\ Once(DomChildren(b)) /\ ToSet(DomChildren(b)) = ChildrenOf(b)
<1>1. PICK S : S = {c \in DOMAIN idom : idom[c] = b /\ c # b}
  OBVIOUS
<1>2. S = ChildrenOf(b)
  BY <1>1, TreeIs DEF ChildrenOf, IsTree
<1>3. S \in SUBSET Blocks /\ S \in SUBSET Nat /\ IsFiniteSet(S)
  BY <1>1, TreeIs, FS_Subset DEF GraphInv, TreeReady
<1>4. PICK list : list = DomChildren(b) /\ list = Ascending(S)
  BY <1>1 DEF DomChildren
<1>5. list \in Seq(S) /\ Len(list) = Cardinality(S) /\ ToSet(list) = S
  BY <1>3, <1>4, AscendingLists
<1>6. list \in Seq(Blocks)
  <2>1. PICK n \in Nat : n = Len(list) /\ list \in [1 .. n -> S]
    BY <1>5
  <2>2. list \in [1 .. n -> Blocks]
    BY <1>3, <2>1
  <2> QED BY <2>2
<1>7. Once(list)
  <2>1. PICK n \in Nat : n = Cardinality(S) /\ n = Len(list)
    BY <1>5
  <2>2. ASSUME NEW k \in 1 .. n PROVE Cardinality({y \in S : y < list[k]}) = k - 1
    <3>1. list[k] = CHOOSE x \in S : Cardinality({y \in S : y < x}) = k - 1
      BY <1>4, <2>1, <2>2 DEF Ascending
    <3>2. \E x \in S : Cardinality({y \in S : y < x}) = k - 1
      BY <1>3, <2>1, <2>2, RanksOfNumbers
    <3> QED BY <3>1, <3>2
  <2>3. ASSUME NEW j \in 1 .. n, NEW k \in 1 .. n, list[j] = list[k] PROVE j = k
    <3>1. j - 1 = k - 1
      BY <2>2, <2>3
    <3> QED BY <3>1
  <2> QED BY <2>1, <2>3 DEF Once
<1> QED BY <1>2, <1>4, <1>5, <1>6, <1>7

\* The walk begins.
LEMMA RenamingBegins ==
    ASSUME TreeReady, UNCHANGED <<prog, idom, defSites>>, phase' = "rename", frames' = <<Frame(Entry)>>
    PROVE  FramesInv' /\ Visited' = {}
<1>1. /\ Blocks' = Blocks /\ Reached' = Reached /\ Variables' = Variables /\ Frames' = Frames
      /\ \A x : Above(idom, x)' = Above(idom, x)
      /\ \A b : ChildrenOf(b)' = ChildrenOf(b) /\ Entry' = Entry
  BY SameSurroundings DEF Entry
<1>2. PICK f : f = Frame(Entry)
  OBVIOUS
<1>3. f.block = Entry /\ ~f.entered /\ f.children = <<>> /\ f \in Frames
  BY <1>2, TreeIs DEF Frame, Frames
<1>4. frames' \in Seq(Frames) /\ Len(frames') = 1 /\ frames'[1] = f /\ frames' # <<>>
  BY <1>2, <1>3
<1>5. Once(<<>>) /\ ToSet(<<>>) = {}
  BY DEF Once, ToSet
<1>6. \A i \in 1 .. Len(frames') : i = 1
  BY <1>4
<1>7. \A i \in 1 .. Len(frames') : FrameInv(i)'
  <2>1. FrameInv(1)'
    BY <1>1, <1>3, <1>4, <1>5, TreeIs DEF FrameInv
  <2> QED BY <1>6, <2>1
<1>8. FramesInv'
  BY <1>1, <1>4, <1>7 DEF FramesInv
<1>9. Entry \in Waiting'
  BY <1>3, <1>4, <1>8 DEF Waiting, Pending
<1>10. \A x \in Reached : Entry \in Above(idom, x)
  BY TreeIs
<1> QED BY <1>1, <1>8, <1>9, <1>10 DEF Visited

\* The last call renames its block.
LEMMA BlockIsVisited ==
    ASSUME TreeReady, FramesInv, UNCHANGED <<prog, idom, defSites>>, phase = "rename", phase' = "rename",
           frames # <<>>, ~Last(frames).entered, NEW b, b = Last(frames).block, NEW frame,
           frame.block = b, frame.entered, frame.children = DomChildren(b), frame.pushed \in [Variables -> Nat],
           frame \in Frames, frames' = Append(Front(frames), frame)
    PROVE  FramesInv' /\ b \in Reached /\ b \notin Visited /\ Visited' = Visited \cup {b}
<1>1. /\ Blocks' = Blocks /\ Reached' = Reached /\ Variables' = Variables /\ Frames' = Frames
      /\ \A x : Above(idom, x)' = Above(idom, x)
      /\ \A a : ChildrenOf(a)' = ChildrenOf(a) /\ Entry' = Entry
  BY SameSurroundings DEF Entry
<1>2. PICK m \in Nat : m = Len(frames) /\ m > 0
  BY DEF FramesInv
<1>3. /\ frames \in Seq(Frames)
      /\ \A i \in 1 .. m : FrameInv(i)
  BY <1>2 DEF FramesInv
<1>4. /\ frames' \in Seq(Frames) /\ Len(frames') = m /\ frames'[m] = frame
      /\ \A i \in 1 .. m - 1 : frames'[i] = frames[i]
      /\ Last(frames) = frames[m]
  <2>1. PICK t : t = Front(frames)
    OBVIOUS
  <2>2. t \in Seq(Frames) /\ Len(t) = m - 1 /\ (\A i \in 1 .. m - 1 : t[i] = frames[i]) /\ Last(frames) = frames[m]
    BY <1>2, <1>3, <2>1, ListShortened
  <2>3. frames' = Append(t, frame)
    BY <2>1
  <2> QED BY <1>2, <2>2, <2>3, ListAppended
<1>5. b = frames[m].block /\ b \in Reached /\ ~frames[m].entered /\ frames[m].children = <<>>
  BY <1>2, <1>3, <1>4 DEF FrameInv
<1>6. Once(DomChildren(b)) /\ ToSet(DomChildren(b)) = ChildrenOf(b)
  BY <1>5, ChildrenAre
<1>7. ASSUME NEW i \in 1 .. m PROVE FrameInv(i)'
  <2>1. CASE i = m
    <3>1. m > 1 => m - 1 \in 1 .. m - 1 /\ frames'[m - 1] = frames[m - 1]
      BY <1>2, <1>4
    <3>2. FrameInv(m)
      BY <1>2, <1>3
    <3> QED BY <1>1, <1>2, <1>4, <1>5, <1>6, <2>1, <3>1, <3>2 DEF FrameInv
  <2>2. CASE i \in 1 .. m - 1
    <3>1. frames'[i] = frames[i] /\ (i > 1 => i - 1 \in 1 .. m - 1 /\ frames'[i - 1] = frames[i - 1])
      BY <1>4, <2>2
    <3>2. FrameInv(i) /\ i # m
      BY <1>3, <2>2
    <3> QED BY <1>1, <1>2, <3>1, <3>2 DEF FrameInv
  <2> QED BY <1>2, <2>1, <2>2
<1>8. FramesInv'
  <2>1. frames' # <<>>
    BY <1>2, <1>4
  <2> QED BY <1>1, <1>4, <1>7, <2>1 DEF FramesInv
<1>9. PICK kids : \A c : c \in kids <=> \E i \in 1 .. m - 1 : c \in ToSet(frames[i].children)
  <2> DEFINE kids == UNION {ToSet(frames[i].children) : i \in 1 .. m - 1}
  <2>1. \A c : c \in kids <=> \E i \in 1 .. m - 1 : c \in ToSet(frames[i].children)
    OBVIOUS
  <2> HIDE DEF kids
  <2> QED BY <2>1
<1>10. \A i \in 1 .. m : i = m \/ i \in 1 .. m - 1
  BY <1>2
<1>11. Waiting = kids \cup {b}
  <2>1. \A c : c \in Waiting <=> \E i \in 1 .. m : c \in ToSet(frames[i].children) \/ (~frames[i].entered /\ c = frames[i].block)
    BY <1>2, WaitingIs
  <2>2. \A i \in 1 .. m - 1 : frames[i].entered
    BY <1>2, <1>3 DEF FrameInv
  <2>3. ToSet(frames[m].children) = {} /\ m \in 1 .. m
    BY <1>2, <1>5 DEF ToSet
  <2>4. \A c : c \in Waiting <=> c \in kids \/ c = b
    BY <1>5, <1>9, <1>10, <2>1, <2>2, <2>3
  <2> QED BY <2>4
<1>12. Waiting' = kids \cup ChildrenOf(b)
  <2>1. \A c : c \in Waiting' <=> \E i \in 1 .. m : c \in Pending(i)'
    BY <1>4 DEF Waiting
  <2>2. Pending(m)' = ChildrenOf(b)
    BY <1>4, <1>6 DEF Pending
  <2>3. \A i \in 1 .. m - 1 : Pending(i)' = ToSet(frames[i].children)
    <3>1. \A i \in 1 .. m - 1 : frames'[i] = frames[i] /\ frames[i].entered
      BY <1>2, <1>3, <1>4 DEF FrameInv
    <3> QED BY <3>1 DEF Pending
  <2>4. ASSUME NEW c PROVE c \in Waiting' <=> c \in kids \/ c \in ChildrenOf(b)
    <3>1. m \in 1 .. m /\ \A i \in 1 .. m - 1 : i \in 1 .. m
      BY <1>2
    <3>2. (\E i \in 1 .. m : c \in Pending(i)') <=> c \in Pending(m)' \/ \E i \in 1 .. m - 1 : c \in Pending(i)'
      BY <1>10, <3>1
    <3>3. (\E i \in 1 .. m - 1 : c \in Pending(i)') <=> c \in kids
      BY <1>9, <2>3
    <3> QED BY <2>1, <2>2, <3>2, <3>3
  <2> QED BY <2>4
<1>13. Above(idom, b) \cap kids = {}
  <2>1. \A i \in 1 .. m - 1 : i \in 1 .. m
    BY <1>2
  <2>2. m \in 1 .. m
    BY <1>2
  <2>3. \A i \in 1 .. m - 1 : Above(idom, b) \cap ToSet(frames[i].children) = {}
    BY <1>2, <1>5, <2>1, <2>2, ChildrenAreBelow
  <2> QED BY <1>9, <2>3
<1>14. b \notin Visited
  BY <1>5, <1>11, TreeIs DEF Visited
<1>15. ASSUME NEW x \in Reached PROVE x \in Visited' <=> x \in Visited \cup {b}
  <2>1. x \in Visited' <=> Above(idom, x) \cap (kids \cup ChildrenOf(b)) = {}
    BY <1>1, <1>12 DEF Visited
  <2>2. x \in Visited <=> Above(idom, x) \cap (kids \cup {b}) = {}
    BY <1>11 DEF Visited
  <2>3. CASE b \notin Above(idom, x)
    <3>1. Above(idom, x) \cap ChildrenOf(b) = {}
      BY <2>3, TreeIs DEF ChildrenOf
    <3>2. x # b
      BY <2>3, TreeIs
    <3> QED BY <2>1, <2>2, <2>3, <3>1, <3>2
  <2>4. CASE b \in Above(idom, x) /\ x # b
    <3>1. PICK c \in Above(idom, x) : c # Entry /\ idom[c] = b
      BY <2>4, ChildAbove, TreeIs DEF TreeReady
    <3>2. c \in ChildrenOf(b)
      BY <3>1, TreeIs DEF ChildrenOf
    <3> QED BY <2>1, <2>2, <2>4, <3>1, <3>2
  <2>5. CASE x = b
    <3>1. \A c \in Above(idom, b) \cap ChildrenOf(b) : FALSE
      <4> SUFFICES ASSUME NEW c \in Above(idom, b), c \in ChildrenOf(b) PROVE FALSE
        OBVIOUS
      <4>1. c \in Reached /\ c # Entry /\ idom[c] = b
        BY DEF ChildrenOf
      <4>2. c \notin Above(idom, b)
        BY <4>1, TreeIs
      <4> QED BY <4>2
    <3> QED BY <1>13, <2>1, <2>5, <3>1
  <2> QED BY <2>3, <2>4, <2>5
<1>16. Visited \subseteq Reached /\ Visited' \subseteq Reached
  BY <1>1 DEF Visited
<1> QED BY <1>5, <1>8, <1>14, <1>15, <1>16

\* What the list of a call that has descended holds.
LEMMA ListTail ==
    ASSUME NEW S, NEW s \in Seq(S), s # <<>>, Once(s)
    PROVE  /\ Tail(s) \in Seq(S) /\ Once(Tail(s)) /\ Head(s) \in S
           /\ ToSet(s) = ToSet(Tail(s)) \cup {Head(s)} /\ Head(s) \notin ToSet(Tail(s))
<1>1. PICK n \in Nat : n = Len(s) /\ n > 0 /\ DOMAIN s = 1 .. n
  OBVIOUS
<1>2. PICK t : t = Tail(s)
  OBVIOUS
<1>3. t \in Seq(S) /\ Len(t) = n - 1 /\ DOMAIN t = 1 .. n - 1
      /\ \A k \in 1 .. n - 1 : t[k] = s[k + 1]
  BY <1>1, <1>2
<1>4. Head(s) = s[1] /\ s[1] \in S
  BY <1>1
<1>5. Once(t)
  <2>1. ASSUME NEW j \in 1 .. n - 1, NEW k \in 1 .. n - 1, t[j] = t[k] PROVE j = k
    <3>1. j + 1 \in 1 .. n /\ k + 1 \in 1 .. n /\ s[j + 1] = s[k + 1]
      BY <1>1, <1>3, <2>1
    <3>2. j + 1 = k + 1
      BY <1>1, <3>1 DEF Once
    <3> QED BY <3>2
  <2> QED BY <1>3, <2>1 DEF Once
<1>6. ASSUME NEW k \in 1 .. n - 1 PROVE t[k] # s[1]
  <2>1. k + 1 \in 1 .. n /\ 1 \in 1 .. n /\ k + 1 # 1
    BY <1>1
  <2> QED BY <1>1, <1>3, <2>1 DEF Once
<1>7. ASSUME NEW x PROVE x \in ToSet(s) <=> x \in ToSet(t) \/ x = s[1]
  <2>1. \A k \in 1 .. n : k = 1 \/ \E j \in 1 .. n - 1 : k = j + 1
    <3>1. \A k \in 1 .. n : k = 1 \/ (k - 1 \in 1 .. n - 1 /\ k = (k - 1) + 1)
      BY <1>1
    <3> QED BY <3>1
  <2>2. \A j \in 1 .. n - 1 : j + 1 \in 1 .. n
    BY <1>1
  <2>3. 1 \in 1 .. n
    BY <1>1
  <2>4. x \in ToSet(s) <=> \E k \in 1 .. n : x = s[k]
    BY <1>1 DEF ToSet
  <2>5. x \in ToSet(t) <=> \E j \in 1 .. n - 1 : x = t[j]
    BY <1>3 DEF ToSet
  <2>6. (\E k \in 1 .. n : x = s[k]) <=> x = s[1] \/ \E j \in 1 .. n - 1 : x = s[j + 1]
    BY <2>1, <2>2, <2>3
  <2> QED BY <1>3, <2>4, <2>5, <2>6
<1>8. s[1] \notin ToSet(t)
  BY <1>3, <1>6 DEF ToSet
<1> QED BY <1>2, <1>3, <1>4, <1>5, <1>7, <1>8

\* A call for the next child.
LEMMA DescendKeepsFrames ==
    ASSUME TreeReady, FramesInv, UNCHANGED <<prog, idom, defSites>>, phase = "rename", phase' = "rename",
           frames # <<>>, Last(frames).entered, Last(frames).children # <<>>,
           NEW top, NEW new, top.block = Last(frames).block, top.entered,
           top.children = Tail(Last(frames).children), top.pushed = Last(frames).pushed,
           new.block = Head(Last(frames).children), ~new.entered, new.children = <<>>,
           frames' \in Seq(Frames), Len(frames') = Len(frames) + 1,
           \A i \in 1 .. Len(frames) - 1 : frames'[i] = frames[i],
           frames'[Len(frames)] = top, frames'[Len(frames) + 1] = new
    PROVE  FramesInv' /\ Visited' = Visited
<1>1. /\ Blocks' = Blocks /\ Reached' = Reached /\ Variables' = Variables /\ Frames' = Frames
      /\ \A x : Above(idom, x)' = Above(idom, x)
      /\ \A a : ChildrenOf(a)' = ChildrenOf(a) /\ Entry' = Entry
  BY SameSurroundings DEF Entry
<1>2. PICK m \in Nat : m = Len(frames) /\ m > 0
  BY DEF FramesInv
<1>3. /\ frames \in Seq(Frames)
      /\ \A i \in 1 .. m : FrameInv(i) /\ frames[i] \in Frames
  BY <1>2 DEF FramesInv
<1>4. PICK old \in Frames : old = frames[m] /\ old = Last(frames)
  <2>1. Last(frames) = frames[m]
    BY <1>2, <1>3, ListShortened
  <2> QED BY <1>2, <1>3, <2>1
<1>5. /\ old.block \in Blocks /\ old.children \in Seq(Blocks) /\ old.children # <<>> /\ old.entered
      /\ Once(old.children) /\ ToSet(old.children) \subseteq ChildrenOf(old.block) /\ old.block \in Reached
      /\ old.pushed \in [Variables -> Nat]
  <2>1. FrameInv(m)
    BY <1>2, <1>3
  <2> QED BY <1>4, <2>1 DEF FrameInv, Frames
<1>6. PICK h : h = Head(old.children)
  OBVIOUS
<1>7. PICK rest : rest = Tail(old.children)
  OBVIOUS
<1>8. /\ rest \in Seq(Blocks) /\ Once(rest) /\ h \in Blocks
      /\ ToSet(old.children) = ToSet(rest) \cup {h} /\ h \notin ToSet(rest)
  BY <1>5, <1>6, <1>7, ListTail
<1>9. top.block = old.block /\ top.entered /\ top.children = rest /\ top.pushed = old.pushed
  BY <1>4, <1>7
<1>10. new.block = h /\ ~new.entered /\ new.children = <<>>
  BY <1>4, <1>6
<1>11. /\ frames' \in Seq(Frames) /\ Len(frames') = m + 1 /\ frames'[m] = top /\ frames'[m + 1] = new
       /\ \A i \in 1 .. m - 1 : frames'[i] = frames[i]
  BY <1>2
<1>12. h \in ChildrenOf(old.block) /\ h \in Reached
  BY <1>5, <1>8 DEF ChildrenOf
<1>13. Once(<<>>) /\ ToSet(<<>>) = {}
  BY DEF Once, ToSet
<1>14. FrameInv(m + 1)'
  <2>1. (m + 1) - 1 = m /\ m + 1 > 1 /\ m + 1 # 1
    BY <1>2
  <2> QED BY <1>1, <1>8, <1>9, <1>10, <1>11, <1>12, <1>13, <2>1 DEF FrameInv
<1>15. FrameInv(m)'
  <2>1. m > 1 => m - 1 \in 1 .. m - 1 /\ frames'[m - 1] = frames[m - 1]
    <3>1. m > 1 => m - 1 \in 1 .. m - 1
      BY <1>2
    <3> QED BY <1>11, <3>1
  <2>2. FrameInv(m)
    BY <1>2, <1>3
  <2> QED BY <1>1, <1>4, <1>5, <1>8, <1>9, <1>11, <2>1, <2>2 DEF FrameInv
<1>16. ASSUME NEW i \in 1 .. m - 1 PROVE FrameInv(i)' /\ frames'[i] = frames[i] /\ frames[i].entered
  <2>1. frames'[i] = frames[i] /\ (i > 1 => i - 1 \in 1 .. m - 1 /\ frames'[i - 1] = frames[i - 1])
    BY <1>11
  <2>2. FrameInv(i) /\ i # m
    BY <1>2, <1>3
  <2>3. frames[i].entered
    BY <1>2, <2>2 DEF FrameInv
  <2> QED BY <1>1, <2>1, <2>2, <2>3 DEF FrameInv
<1>17. \A i \in 1 .. m + 1 : i = m + 1 \/ i = m \/ i \in 1 .. m - 1
  BY <1>2
<1>18. FramesInv'
  <2>1. frames' # <<>>
    BY <1>2, <1>11
  <2>2. \A i \in 1 .. Len(frames') : FrameInv(i)'
    BY <1>11, <1>14, <1>15, <1>16, <1>17
  <2> QED BY <1>1, <1>11, <2>1, <2>2 DEF FramesInv
<1>19. Waiting' = Waiting
  <2>1. \A c : c \in Waiting' <=> \E i \in 1 .. m + 1 : c \in Pending(i)'
    BY <1>11 DEF Waiting
  <2>2. \A c : c \in Waiting <=> \E i \in 1 .. m : c \in Pending(i)
    BY <1>2, <1>3 DEF Waiting
  <2>3. Pending(m + 1)' = {h} /\ Pending(m)' = ToSet(rest)
    BY <1>9, <1>10, <1>11, <1>13 DEF Pending
  <2>4. Pending(m) = ToSet(rest) \cup {h}
    BY <1>4, <1>5, <1>8 DEF Pending
  <2>5. \A i \in 1 .. m - 1 : Pending(i)' = Pending(i)
    BY <1>16 DEF Pending
  <2>6. ASSUME NEW c PROVE c \in Waiting' <=> c \in Waiting
    <3>1. /\ m \in 1 .. m /\ m \in 1 .. m + 1 /\ m + 1 \in 1 .. m + 1
          /\ \A i \in 1 .. m - 1 : i \in 1 .. m /\ i \in 1 .. m + 1
          /\ \A i \in 1 .. m : i = m \/ i \in 1 .. m - 1
      BY <1>2
    <3>2. (\E i \in 1 .. m + 1 : c \in Pending(i)')
             <=> c \in Pending(m + 1)' \/ c \in Pending(m)' \/ \E i \in 1 .. m - 1 : c \in Pending(i)'
      BY <1>17, <3>1
    <3>3. (\E i \in 1 .. m : c \in Pending(i)) <=> c \in Pending(m) \/ \E i \in 1 .. m - 1 : c \in Pending(i)
      BY <3>1
    <3> QED BY <2>1, <2>2, <2>3, <2>4, <2>5, <3>2, <3>3
  <2> QED BY <2>6
<1> QED BY <1>1, <1>18, <1>19 DEF Visited

\* A call returns.
LEMMA LeaveKeepsFrames ==
    ASSUME TreeReady, FramesInv, UNCHANGED <<prog, idom, defSites>>,
           frames # <<>>, Last(frames).entered, Last(frames).children = <<>>, frames' = Front(frames),
           phase = "rename", phase' = IF Len(frames) = 1 THEN "done" ELSE phase
    PROVE  FramesInv' /\ Visited' = Visited
<1>1. /\ Blocks' = Blocks /\ Reached' = Reached /\ Variables' = Variables /\ Frames' = Frames
      /\ \A x : Above(idom, x)' = Above(idom, x)
      /\ \A a : ChildrenOf(a)' = ChildrenOf(a) /\ Entry' = Entry
  BY SameSurroundings DEF Entry
<1>2. PICK m \in Nat : m = Len(frames) /\ m > 0
  BY DEF FramesInv
<1>3. frames \in Seq(Frames) /\ \A i \in 1 .. m : FrameInv(i)
  BY <1>2 DEF FramesInv
<1>4. /\ frames' \in Seq(Frames) /\ Len(frames') = m - 1
      /\ (\A i \in 1 .. m - 1 : frames'[i] = frames[i]) /\ Last(frames) = frames[m]
  BY <1>2, <1>3, ListShortened
<1>5. ASSUME NEW i \in 1 .. m - 1 PROVE FrameInv(i)' /\ frames'[i] = frames[i]
  <2>1. frames'[i] = frames[i] /\ (i > 1 => i - 1 \in 1 .. m - 1 /\ frames'[i - 1] = frames[i - 1])
    BY <1>4
  <2>2. FrameInv(i) /\ i # m
    BY <1>2, <1>3
  <2>3. frames[i].entered
    BY <1>2, <2>2 DEF FrameInv
  <2> QED BY <1>1, <2>1, <2>2, <2>3 DEF FrameInv
<1>6. FramesInv'
  <2>1. phase' = "rename" <=> frames' # <<>>
    BY <1>2, <1>4
  <2>2. \A i \in 1 .. Len(frames') : FrameInv(i)'
    BY <1>4, <1>5
  <2> QED BY <1>1, <1>4, <2>1, <2>2 DEF FramesInv
<1>7. Waiting' = Waiting
  <2>1. \A c : c \in Waiting' <=> \E i \in 1 .. m - 1 : c \in Pending(i)'
    BY <1>4 DEF Waiting
  <2>2. \A c : c \in Waiting <=> \E i \in 1 .. m : c \in Pending(i)
    BY <1>2, <1>3 DEF Waiting
  <2>3. Pending(m) = {}
    BY <1>4 DEF Pending, ToSet
  <2>4. \A i \in 1 .. m - 1 : Pending(i)' = Pending(i)
    BY <1>5 DEF Pending
  <2>5. \A i \in 1 .. m : i = m \/ i \in 1 .. m - 1
    BY <1>2
  <2>6. \A i \in 1 .. m - 1 : i \in 1 .. m
    BY <1>2
  <2>7. ASSUME NEW c \in Waiting' PROVE c \in Waiting
    <3>1. PICK i \in 1 .. m - 1 : c \in Pending(i)'
      BY <2>1, <2>7
    <3> QED BY <2>2, <2>4, <2>6, <3>1
  <2>8. ASSUME NEW c \in Waiting PROVE c \in Waiting'
    <3>1. PICK i \in 1 .. m : c \in Pending(i)
      BY <2>2, <2>8
    <3>2. i \in 1 .. m - 1
      BY <2>3, <2>5, <3>1
    <3> QED BY <2>1, <2>4, <3>1, <3>2
  <2> QED BY <2>7, <2>8
<1> QED BY <1>1, <1>6, <1>7 DEF Visited

\* Into the next child: the call on top has one child less to visit.
LEMMA DescendKeepsWalk == ASSUME TreeReady, FramesInv, Descend PROVE FramesInv' /\ Visited' = Visited
<1>1. PICK old : old = Last(frames)
  OBVIOUS
<1>2. PICK top : top = [old EXCEPT !.children = Tail(old.children)]
  OBVIOUS
<1>3. PICK new : new = Frame(Head(old.children))
  OBVIOUS
<1>4. /\ UNCHANGED <<prog, idom, defSites, phase>> /\ phase = "rename" /\ frames # <<>>
      /\ old.entered /\ old.children # <<>>
      /\ frames' = Append(Append(Front(frames), top), new)
  BY <1>1, <1>2, <1>3 DEF Descend, dominance
<1>5. frames \in Seq(Frames)
  BY DEF FramesInv
<1>6. old \in Frames
  BY <1>1, <1>4, <1>5, ListShortened
<1>7. old.children \in Seq(Blocks)
  BY <1>6 DEF Frames
<1>8. Tail(old.children) \in Seq(Blocks) /\ Head(old.children) \in Blocks
  BY <1>4, <1>7
<1>9. top \in Frames
  BY <1>2, <1>6, <1>8 DEF Frames
<1>10. new \in Frames
  BY <1>3, <1>8 DEF Frames, Frame
<1>11. top.block = old.block /\ top.entered /\ top.children = Tail(old.children) /\ top.pushed = old.pushed
  BY <1>2, <1>4, <1>6 DEF Frames
<1>12. new.block = Head(old.children) /\ ~new.entered /\ new.children = <<>>
  BY <1>3 DEF Frame
<1>13. /\ frames' \in Seq(Frames) /\ Len(frames') = Len(frames) + 1
       /\ \A i \in 1 .. Len(frames) - 1 : frames'[i] = frames[i]
       /\ frames'[Len(frames)] = top /\ frames'[Len(frames) + 1] = new
  <2>1. PICK m \in Nat : m = Len(frames) /\ m > 0
    BY <1>4, <1>5
  <2>2. PICK f : f = Front(frames)
    OBVIOUS
  <2>3. f \in Seq(Frames) /\ Len(f) = m - 1 /\ \A i \in 1 .. m - 1 : f[i] = frames[i]
    BY <1>4, <1>5, <2>1, <2>2, ListShortened
  <2>4. PICK g : g = Append(f, top)
    OBVIOUS
  <2>5. g \in Seq(Frames) /\ Len(g) = m /\ g[m] = top /\ \A i \in 1 .. m - 1 : g[i] = frames[i]
    BY <1>9, <2>1, <2>3, <2>4, ListAppended
  <2>6. frames' = Append(g, new)
    BY <1>4, <2>2, <2>4
  <2>7. frames' \in Seq(Frames) /\ Len(frames') = m + 1 /\ frames'[m + 1] = new /\ \A i \in 1 .. m : frames'[i] = g[i]
    BY <1>10, <2>5, <2>6, ListAppended
  <2>8. m \in 1 .. m /\ \A i \in 1 .. m - 1 : i \in 1 .. m
    BY <2>1
  <2> QED BY <2>1, <2>5, <2>7, <2>8
<1> QED BY <1>1, <1>4, <1>11, <1>12, <1>13, DescendKeepsFrames

\* A call returns.
LEMMA LeaveKeepsWalk == ASSUME TreeReady, FramesInv, Leave PROVE FramesInv' /\ Visited' = Visited
<1>1. /\ UNCHANGED <<prog, idom, defSites>> /\ frames # <<>> /\ Last(frames).entered /\ Last(frames).children = <<>>
      /\ frames' = Front(frames) /\ phase = "rename" /\ phase' = IF Len(frames) = 1 THEN "done" ELSE phase
  BY DEF Leave, dominance
<1> QED BY <1>1, LeaveKeepsFrames

-----------------------------------------------------------------------------
(* The names that renaming gives out, and the stacks it takes them from.    *)

DefinedIn(b) ==
    (UNION {Defs(phis[b][j]) : j \in DOMAIN phis[b]}) \cup (UNION {Defs(code[b][k]) : k \in DOMAIN code[b]})

\* A stack is made of one part for each call, up to h[i] for the i-th, and the
\* names in it are those of the block of the call, or arguments.
Holds(r, a) == IsGiven(r) \/ (a \in Visited /\ r \in DefinedIn(a))
Segments(v, h) ==
    /\ h[0] = 0 /\ h[Len(frames)] = Len(stacks[v])
    /\ \A i \in 1 .. Len(frames) :
          /\ h[i] = h[i - 1] + (IF frames[i].entered THEN frames[i].pushed[v] ELSE 0)
          /\ \A j \in h[i - 1] + 1 .. h[i] : Holds(stacks[v][j], frames[i].block)
StackInv == \A v \in Variables : \E h \in [0 .. Len(frames) -> Nat] : Segments(v, h)

\* Uses at the end of a block and in front of its k-th instruction that are
\* behind their definition, told by the tree.
ReachesEnd(r, b) == IsGiven(r) \/ \E a \in Above(idom, b) : a \in Visited /\ r \in DefinedIn(a)
Behind(r, b, k) ==
    \/ \E d \in DefsIn(r, b) : d[1] < k
    \/ DefsIn(r, b) = {} /\ ReachesEnd(r, b)

\* The blocks that are renamed define names up to the counters, each once, and
\* read names behind their definitions, as the phis of their successors do for
\* them; the others are as they were.
NamesInv ==
    /\ counters \in [Variables -> Nat] /\ stacks \in [Variables -> Seq(RegisterNames)]
    /\ DOMAIN code = Blocks /\ \A b \in Blocks \ Visited : code[b] = prog.body[b]
    /\ \A b \in Visited : \A r \in DefinedIn(b) : \E v \in Variables : \E n \in 1 .. counters[v] : r = Version(v, n)
    /\ \A a, b \in Visited : DefinedIn(a) \cap DefinedIn(b) # {} => a = b
    /\ \A b \in Visited : \A r \in DefinedIn(b) : \A c, d \in DefsIn(r, b) : c = d
    /\ \A b \in Visited : \A k \in DOMAIN code[b] : \A r \in Uses(code[b][k]) : Behind(r, b, k)
    /\ \A b \in Visited : \A s \in prog.succ[b] : \A j \in DOMAIN phis[s] :
          ReachesEnd(phis[s][j].ops[1 + PredIndex(b, s)].regs[1], b)

-----------------------------------------------------------------------------
(* The names of a block.                                                   *)

\* The place of a block among the predecessors of another.
LEMMA PredIndexIs ==
    ASSUME GraphInv, NEW b \in Blocks, NEW s \in prog.succ[b]
    PROVE  PredIndex(b, s) \in 1 .. Len(Preds(s)) /\ Preds(s)[PredIndex(b, s)] = b /\ s \in Blocks
<1>1. {p \in Blocks : s \in prog.succ[p]} \in SUBSET Nat /\ IsFiniteSet({p \in Blocks : s \in prog.succ[p]})
  BY FS_Subset DEF GraphInv
<1>2. PICK list : list = Preds(s) /\ list \in Seq({p \in Blocks : s \in prog.succ[p]})
  BY <1>1, AscendingLists DEF Preds
<1>3. b \in ToSet(list)
  BY <1>2, PredsAre
<1>4. \E k \in DOMAIN list : list[k] = b
  BY <1>3 DEF ToSet
<1>5. PredIndex(b, s) \in DOMAIN list /\ list[PredIndex(b, s)] = b
  BY <1>2, <1>4 DEF PredIndex
<1> QED BY <1>2, <1>5 DEF GraphInv

\* The numbers of a set that are lower than n.
LowerThan(S, n) == {m \in 1 .. n - 1 : m \in S}

\* How many there are, one number after the other.
LEMMA CountIs ==
    ASSUME NEW S, NEW k \in Nat \ {0}
    PROVE  /\ Cardinality(LowerThan(S, k)) \in Nat /\ Cardinality(LowerThan(S, 1)) = 0
           /\ Cardinality(LowerThan(S, k + 1)) = Cardinality(LowerThan(S, k)) + IF k \in S THEN 1 ELSE 0
<1>1. IsFiniteSet(LowerThan(S, k)) /\ Cardinality(LowerThan(S, k)) \in Nat
  <2>1. IsFiniteSet(1 .. k - 1)
    BY FS_Interval
  <2> QED BY <2>1, FS_Subset, FS_CardinalityType DEF LowerThan
<1>2. LowerThan(S, 1) = {}
  BY DEF LowerThan
<1>3. LowerThan(S, k + 1) = IF k \in S THEN LowerThan(S, k) \cup {k} ELSE LowerThan(S, k)
  BY DEF LowerThan
<1>4. k \notin LowerThan(S, k)
  BY DEF LowerThan
<1>5. Cardinality(LowerThan(S, k) \cup {k}) = Cardinality(LowerThan(S, k)) + 1
  BY <1>1, <1>4, FS_AddElement
<1>6. Cardinality(LowerThan(S, 1)) = 0
  BY <1>2, FS_EmptySet
<1>7. Cardinality(LowerThan(S, k + 1)) = Cardinality(LowerThan(S, k)) + IF k \in S THEN 1 ELSE 0
  <2>1. CASE k \in S
    BY <1>1, <1>3, <1>5, <2>1
  <2>2. CASE k \notin S
    BY <1>1, <1>3, <2>2
  <2> QED BY <2>1, <2>2
<1> QED BY <1>1, <1>6, <1>7

\* The phi of a register, if a block has one.
HeadOf(b, v) == Cardinality({j \in DOMAIN phis[b] : PhiBase(phis[b][j]) = v})

\* That is one if there is such a phi, and none otherwise.
LEMMA HeadIs ==
    ASSUME GraphInv, PhisInv, NEW b \in Blocks, NEW v
    PROVE  /\ HeadOf(b, v) \in {0, 1}
           /\ HeadOf(b, v) = 1 <=> \E j \in DOMAIN phis[b] : PhiBase(phis[b][j]) = v
<1>1. PICK H : H = {j \in DOMAIN phis[b] : PhiBase(phis[b][j]) = v}
  OBVIOUS
<1>2. \A i, j \in H : i = j
  BY <1>1 DEF PhisInv
<1>3. CASE H = {}
  BY <1>1, <1>3, FS_EmptySet DEF HeadOf
<1>4. CASE H # {}
  <2>1. PICK j : H = {j}
    BY <1>2, <1>4
  <2> QED BY <1>1, <2>1, FS_Singleton DEF HeadOf
<1> QED BY <1>3, <1>4

\* The definitions in front of an instruction, one by one.
LEMMA DefsBeforeIs ==
    ASSUME GraphInv, PhisInv, NEW b \in Blocks, NEW v, NEW k \in Nat \ {0}
    PROVE  /\ DefsBefore(b, v, k) \in Nat /\ DefsBefore(b, v, 1) = HeadOf(b, v)
           /\ DefsBefore(b, v, k + 1) = DefsBefore(b, v, k) + IF Base(v) \in Defs(code[b][k]) THEN 1 ELSE 0
<1> DEFINE S == {m \in Nat : Base(v) \in Defs(code[b][m])}
<1>1. \A n \in Nat \ {0} : {m \in 1 .. n - 1 : Base(v) \in Defs(code[b][m])} = LowerThan(S, n)
  BY DEF LowerThan
<1>2. k \in S <=> Base(v) \in Defs(code[b][k])
  OBVIOUS
<1> HIDE DEF S
<1>3. /\ Cardinality(LowerThan(S, k)) \in Nat /\ Cardinality(LowerThan(S, 1)) = 0
      /\ Cardinality(LowerThan(S, k + 1)) = Cardinality(LowerThan(S, k)) + IF k \in S THEN 1 ELSE 0
  BY CountIs
<1>4. \A n \in Nat \ {0} : DefsBefore(b, v, n) = HeadOf(b, v) + Cardinality(LowerThan(S, n))
  BY <1>1 DEF DefsBefore, HeadOf
<1>5. HeadOf(b, v) \in {0, 1}
  BY HeadIs
<1>6. /\ DefsBefore(b, v, k) = HeadOf(b, v) + Cardinality(LowerThan(S, k))
      /\ DefsBefore(b, v, k + 1) = HeadOf(b, v) + Cardinality(LowerThan(S, k + 1))
      /\ DefsBefore(b, v, 1) = HeadOf(b, v) + Cardinality(LowerThan(S, 1))
  BY <1>4
<1> QED BY <1>2, <1>3, <1>5, <1>6

\* There are not fewer of them further on.
LEMMA DefsBeforeGrows ==
    ASSUME GraphInv, PhisInv, NEW b \in Blocks, NEW v, NEW j \in Nat \ {0}, NEW d \in Nat
    PROVE  DefsBefore(b, v, j) <= DefsBefore(b, v, j + d)
<1>1. PICK T : T = {n \in Nat : DefsBefore(b, v, j) <= DefsBefore(b, v, j + n)}
  OBVIOUS
<1>2. \A n \in Nat \ {0} : DefsBefore(b, v, n) \in Nat /\ DefsBefore(b, v, n) <= DefsBefore(b, v, n + 1)
  <2> SUFFICES ASSUME NEW n \in Nat \ {0}
               PROVE  DefsBefore(b, v, n) \in Nat /\ DefsBefore(b, v, n) <= DefsBefore(b, v, n + 1)
    OBVIOUS
  <2>1. /\ DefsBefore(b, v, n) \in Nat
        /\ DefsBefore(b, v, n + 1) = DefsBefore(b, v, n) + IF Base(v) \in Defs(code[b][n]) THEN 1 ELSE 0
    BY DefsBeforeIs
  <2> QED BY <2>1
<1>3. 0 \in T
  <2>1. j + 0 = j
    OBVIOUS
  <2> QED BY <1>1, <1>2, <2>1
<1>4. ASSUME NEW n \in Nat, n \in T PROVE n + 1 \in T
  <2>1. PICK i \in Nat \ {0} : i = j + n /\ j + (n + 1) = i + 1 /\ i + 1 \in Nat \ {0}
    OBVIOUS
  <2>2. DefsBefore(b, v, j) <= DefsBefore(b, v, i)
    BY <1>1, <1>4, <2>1
  <2>3. DefsBefore(b, v, i) <= DefsBefore(b, v, i + 1)
    BY <1>2
  <2>4. DefsBefore(b, v, j) \in Nat /\ DefsBefore(b, v, i) \in Nat /\ DefsBefore(b, v, i + 1) \in Nat
    BY <1>2, <2>1
  <2>5. DefsBefore(b, v, j) <= DefsBefore(b, v, i + 1)
    BY <2>2, <2>3, <2>4
  <2> QED BY <1>1, <2>1, <2>5
<1>5. Nat \subseteq T
  BY <1>3, <1>4, InductionOver
<1> QED BY <1>1, <1>5

\* Each of them is at a phi or an instruction.
LEMMA SiteOf ==
    ASSUME GraphInv, PhisInv, NEW b \in Blocks, NEW v, NEW k \in Nat \ {0}, NEW n \in 1 .. DefsBefore(b, v, k)
    PROVE  \/ n = 1 /\ HeadOf(b, v) = 1
           \/ \E m \in 1 .. k - 1 : Base(v) \in Defs(code[b][m]) /\ DefsBefore(b, v, m + 1) = n
<1> DEFINE At(i, m) == Base(v) \in Defs(code[b][i]) /\ DefsBefore(b, v, i + 1) = m
<1>1. PICK T : T = {i \in Nat : \A m \in 1 .. DefsBefore(b, v, i + 1) :
                       (m = 1 /\ HeadOf(b, v) = 1) \/ \E j \in 1 .. i : At(j, m)}
  OBVIOUS
<1>2. 0 \in T
  <2>1. DefsBefore(b, v, 1) = HeadOf(b, v) /\ HeadOf(b, v) \in {0, 1} /\ 0 + 1 = 1
    BY DefsBeforeIs, HeadIs
  <2>2. \A m \in 1 .. HeadOf(b, v) : m = 1 /\ HeadOf(b, v) = 1
    BY <2>1
  <2> QED BY <1>1, <2>1, <2>2
<1>3. ASSUME NEW i \in Nat, i \in T PROVE i + 1 \in T
  <2>1. PICK p \in Nat \ {0} : p = i + 1
    OBVIOUS
  <2>2. PICK c \in Nat : c = DefsBefore(b, v, p)
    BY DefsBeforeIs
  <2>3. DefsBefore(b, v, p + 1) = c + IF Base(v) \in Defs(code[b][p]) THEN 1 ELSE 0
    BY <2>2, DefsBeforeIs
  <2>4. ASSUME NEW m \in 1 .. DefsBefore(b, v, p + 1)
        PROVE  (m = 1 /\ HeadOf(b, v) = 1) \/ \E j \in 1 .. p : At(j, m)
    <3>1. CASE m \in 1 .. c
      <4>1. (m = 1 /\ HeadOf(b, v) = 1) \/ \E j \in 1 .. i : At(j, m)
        BY <1>1, <1>3, <2>1, <2>2, <3>1
      <4>2. \A j \in 1 .. i : j \in 1 .. p
        BY <2>1
      <4> QED BY <4>1, <4>2
    <3>2. CASE m \notin 1 .. c
      <4>1. Base(v) \in Defs(code[b][p]) /\ m = c + 1
        BY <2>3, <2>4, <3>2
      <4>2. At(p, m) /\ p \in 1 .. p
        BY <2>3, <4>1
      <4> QED BY <4>2
    <3> QED BY <3>1, <3>2
  <2> HIDE DEF At
  <2> QED BY <1>1, <2>1, <2>4
<1>4. Nat \subseteq T
  BY <1>2, <1>3, InductionOver
<1>5. PICK i \in Nat : i = k - 1 /\ k = i + 1
  OBVIOUS
<1> HIDE DEF At
<1>6. (n = 1 /\ HeadOf(b, v) = 1) \/ \E j \in 1 .. i : At(j, n)
  BY <1>1, <1>4, <1>5
<1> QED BY <1>5, <1>6 DEF At

\* The definitions of a block have different numbers.
LEMMA SitesDiffer ==
    ASSUME GraphInv, PhisInv, NEW b \in Blocks, NEW v, NEW k \in Nat \ {0}, Base(v) \in Defs(code[b][k])
    PROVE  /\ DefsBefore(b, v, k + 1) \in Nat \ {0} /\ DefsBefore(b, v, k + 1) > HeadOf(b, v)
           /\ \A m \in Nat \ {0} : m < k => DefsBefore(b, v, m + 1) < DefsBefore(b, v, k + 1)
           /\ \A m \in Nat : m >= k => DefsBefore(b, v, k + 1) <= DefsBefore(b, v, m + 1)
<1>1. PICK c \in Nat : c = DefsBefore(b, v, k) /\ DefsBefore(b, v, k + 1) = c + 1
  BY DefsBeforeIs
<1>2. HeadOf(b, v) <= c /\ HeadOf(b, v) \in {0, 1}
  <2>1. PICK d \in Nat : 1 + d = k
    <3>1. k - 1 \in Nat /\ 1 + (k - 1) = k
      OBVIOUS
    <3> QED BY <3>1
  <2>2. DefsBefore(b, v, 1) <= DefsBefore(b, v, 1 + d)
    BY DefsBeforeGrows
  <2> QED BY <1>1, <2>1, <2>2, DefsBeforeIs, HeadIs
<1>3. ASSUME NEW m \in Nat \ {0}, m < k PROVE DefsBefore(b, v, m + 1) < DefsBefore(b, v, k + 1)
  <2>1. PICK d \in Nat : (m + 1) + d = k
    <3>1. k - (m + 1) \in Nat /\ (m + 1) + (k - (m + 1)) = k
      BY <1>3
    <3> QED BY <3>1
  <2>2. DefsBefore(b, v, m + 1) <= DefsBefore(b, v, (m + 1) + d) /\ DefsBefore(b, v, m + 1) \in Nat
    <3>1. m + 1 \in Nat \ {0}
      OBVIOUS
    <3> QED BY <3>1, DefsBeforeGrows, DefsBeforeIs
  <2> QED BY <1>1, <2>1, <2>2
<1>4. ASSUME NEW m \in Nat, m >= k PROVE DefsBefore(b, v, k + 1) <= DefsBefore(b, v, m + 1)
  <2>1. PICK d \in Nat : (k + 1) + d = m + 1
    <3>1. m - k \in Nat /\ (k + 1) + (m - k) = m + 1
      BY <1>4
    <3> QED BY <3>1
  <2>2. DefsBefore(b, v, k + 1) <= DefsBefore(b, v, (k + 1) + d)
    BY DefsBeforeGrows
  <2> QED BY <2>1, <2>2
<1> QED BY <1>1, <1>2, <1>3, <1>4

\* What the walk renames: the stacks and the counters of the variables.
CountersInv == counters \in [Variables -> Nat] /\ stacks \in [Variables -> Seq(RegisterNames)] /\ Variables \in SUBSET Nat

\* The variables are numbers.
LEMMA VariablesAre ==
    ASSUME prog \in Programs, DOMAIN defSites \subseteq Nat
    PROVE  /\ Variables \in SUBSET Nat /\ DOMAIN defSites \subseteq Variables
           /\ \A b \in Blocks : \A k \in DOMAIN prog.body[b] :
                 \A r \in Defs(prog.body[b][k]) \cup Uses(prog.body[b][k]) : BaseOf(r) \in Variables /\ r = Base(BaseOf(r))
<1>1. ASSUME NEW b \in Blocks, NEW k \in DOMAIN prog.body[b],
             NEW r \in Defs(prog.body[b][k]) \cup Uses(prog.body[b][k])
      PROVE  BaseOf(r) \in Nat /\ r = Base(BaseOf(r)) /\ r \in RegsOf(prog.body)
  <2>1. PICK i : i = prog.body[b][k]
    OBVIOUS
  <2>2. i \in GenericInstructions
    BY <2>1, BodiesAre
  <2>3. \E o \in DOMAIN i.ops : \E n \in DOMAIN i.ops[o].regs : r = i.ops[o].regs[n]
    BY <2>1, <2>2, AccessIs, GenericRegisters
  <2>4. r \in RegsOf(prog.body)
    <3>1. i \in ToSet(prog.body[b]) /\ b \in DOMAIN prog.body
      BY <2>1, BodiesAre DEF ToSet
    <3>2. i \in UNION {ToSet(prog.body[a]) : a \in DOMAIN prog.body}
      BY <3>1
    <3> QED BY <2>1, <3>2 DEF RegsOf
  <2> QED BY <2>2, <2>3, <2>4, GenericRegisters
<1>2. ASSUME NEW r \in RegsOf(prog.body) PROVE BaseOf(r) \in Nat
  <2>1. PICK i \in UNION {ToSet(prog.body[a]) : a \in DOMAIN prog.body} : r \in Defs(i) \cup Uses(i)
    BY <1>2 DEF RegsOf
  <2>2. PICK b \in DOMAIN prog.body : i \in ToSet(prog.body[b])
    BY <2>1
  <2>3. PICK k \in DOMAIN prog.body[b] : i = prog.body[b][k]
    BY <2>2 DEF ToSet
  <2> QED BY <1>1, <2>1, <2>2, <2>3, BodiesAre
<1>3. Variables \in SUBSET Nat /\ DOMAIN defSites \subseteq Variables
  BY <1>2 DEF Variables
<1> QED BY <1>1, <1>3 DEF Variables

\* The register that reaches a place has a name.
LEMMA ReachingIs ==
    ASSUME GraphInv, PhisInv, CountersInv, NEW b \in Blocks, NEW v \in Variables, NEW k \in Nat \ {0}
    PROVE  /\ Reaching(b, v, k) \in RegisterNames
           /\ \A n \in Int : Version(v, n) \in RegisterNames
<1>1. DefsBefore(b, v, k) \in Nat /\ counters[v] \in Nat /\ stacks[v] \in Seq(RegisterNames) /\ v \in Nat
  BY DefsBeforeIs DEF CountersInv
<1>2. \A n \in Int : Version(v, n) \in RegisterNames
  BY <1>1 DEF Version, RegisterNames, V
<1>3. Base(v) \in RegisterNames /\ Undef(v) \in RegisterNames
  BY <1>1 DEF Base, Undef, RegisterNames, V
<1>4. stacks[v] # <<>> => Last(stacks[v]) \in RegisterNames
  BY <1>1, ListShortened
<1>5. OnEntry(b, v) \in RegisterNames
  BY <1>3, <1>4 DEF OnEntry
<1>6. counters[v] + DefsBefore(b, v, k) \in Int
  BY <1>1
<1> QED BY <1>2, <1>5, <1>6 DEF Reaching

\* A phi of block s with its new name, if b, which is being renamed, is s.
NamedPhi(b, s, j) ==
    LET v == PhiBase(phis[s][j]) IN
    IF s = b THEN [phis[s][j] EXCEPT !.ops[1] = Reg(Version(v, counters[v] + 1), "W")] ELSE phis[s][j]

\* The phi after it, with its operand for b if s is a successor of b.
PhiAfter(b, s, j) ==
    LET h == NamedPhi(b, s, j) IN
    IF s \in prog.succ[b] /\ 1 + PredIndex(b, s) \in DOMAIN h.ops
    THEN [h EXCEPT !.ops[1 + PredIndex(b, s)] = Reg(AtEnd(b, PhiBase(h)), "R")] ELSE h

\* It is a phi of the same register; only what is written and the operand for b have changed.
LEMMA PhiRenamed ==
    ASSUME GraphInv, PhisInv, CountersInv, DOMAIN defSites \subseteq Variables,
           NEW b \in Blocks, Len(code[b]) \in Nat, NEW s \in Blocks, NEW j \in DOMAIN phis[s]
    PROVE  LET v == PhiBase(phis[s][j])
               t == PhiAfter(b, s, j)
           IN  /\ t \in PhiInstructions /\ DOMAIN t.ops = DOMAIN phis[s][j].ops
               /\ \A o \in DOMAIN t.ops : t.ops[o].acc = IF o = 1 THEN "W" ELSE "R"
               /\ t.ops[1].regs[1] = IF s = b THEN Version(v, counters[v] + 1) ELSE phis[s][j].ops[1].regs[1]
               /\ PhiBase(t) = v
               /\ s \in prog.succ[b] => t.ops[1 + PredIndex(b, s)].regs[1] = AtEnd(b, v)
               /\ \A o \in DOMAIN t.ops :
                     o # 1 /\ (s \in prog.succ[b] => o # 1 + PredIndex(b, s)) => t.ops[o] = phis[s][j].ops[o]
<1>1. PICK v : v = PhiBase(phis[s][j])
  OBVIOUS
<1>2. PICK h : h = NamedPhi(b, s, j)
  OBVIOUS
<1>3. PICK t : t = PhiAfter(b, s, j)
  OBVIOUS
<1>4. PICK phi : phi = phis[s][j]
  OBVIOUS
<1>5. /\ phi \in PhiInstructions /\ DOMAIN phi.ops = 1 .. 1 + Len(Preds(s)) /\ Len(Preds(s)) \in Nat /\ 1 \in DOMAIN phi.ops
      /\ (\A o \in DOMAIN phi.ops : phi.ops[o].acc = IF o = 1 THEN "W" ELSE "R")
      /\ PhiBase(phi) = v /\ v \in Variables
  BY <1>1, <1>4, PhiIs DEF PhisInv
<1>6. counters[v] \in Nat /\ counters[v] + 1 \in Int
  <2>1. v \in Variables
    BY <1>5
  <2>2. counters[v] \in Nat
    BY <2>1 DEF CountersInv
  <2> QED BY <2>2
<1>7. PICK w : w = Reg(Version(v, counters[v] + 1), "W")
  OBVIOUS
<1>8. w \in PhiOperands /\ w.regs[1] = Version(v, counters[v] + 1) /\ w.acc = "W"
  <2>1. Version(v, counters[v] + 1) \in RegisterNames
    BY <1>5, <1>6, ReachingIs
  <2> QED BY <1>7, <2>1, RegIs
<1>9. /\ h \in PhiInstructions /\ DOMAIN h.ops = DOMAIN phi.ops /\ PhiBase(h) = v
      /\ h.ops[1].acc = "W"
      /\ h.ops[1].regs[1] = IF s = b THEN Version(v, counters[v] + 1) ELSE phi.ops[1].regs[1]
      /\ \A o \in DOMAIN phi.ops : o # 1 => h.ops[o] = phi.ops[o]
  <2>1. CASE s = b
    <3>1. h = [phi EXCEPT !.ops[1] = w]
      BY <1>1, <1>2, <1>4, <1>7, <2>1 DEF NamedPhi
    <3>2. /\ h \in PhiInstructions /\ DOMAIN h.ops = DOMAIN phi.ops /\ h.ops[1] = w
          /\ \A o \in DOMAIN phi.ops : o # 1 => h.ops[o] = phi.ops[o]
      <4>1. phi.ops \in Seq(PhiOperands)
        BY <1>5 DEF PhiInstructions
      <4>2. h.ops = [phi.ops EXCEPT ![1] = w]
        BY <1>5, <3>1 DEF PhiInstructions
      <4>3. /\ h.ops \in Seq(PhiOperands) /\ DOMAIN h.ops = DOMAIN phi.ops /\ h.ops[1] = w
            /\ \A o \in DOMAIN phi.ops : o # 1 => h.ops[o] = phi.ops[o]
        <5>1. PICK n \in Nat : phi.ops \in [1 .. n -> PhiOperands]
          BY <4>1
        <5>2. h.ops \in [1 .. n -> PhiOperands]
          BY <1>8, <4>2, <5>1
        <5>3. h.ops \in Seq(PhiOperands)
          BY <5>2
        <5> QED BY <1>5, <4>2, <5>1, <5>3
      <4>4. h \in PhiInstructions
        BY <1>5, <3>1, <4>3 DEF PhiInstructions
      <4> QED BY <4>3, <4>4
    <3>3. PhiBase(h) = v
      <4>1. BaseOf(Version(v, counters[v] + 1)) = v
        BY VersionIs
      <4> QED BY <1>8, <3>2, <4>1 DEF PhiBase
    <3> QED BY <1>8, <2>1, <3>2, <3>3
  <2>2. CASE s # b
    BY <1>2, <1>4, <1>5, <2>2 DEF NamedPhi
  <2> QED BY <2>1, <2>2
<1>10. CASE s \notin prog.succ[b]
  <2>1. t = h
    BY <1>2, <1>3, <1>10 DEF PhiAfter
  <2>2. \A o \in DOMAIN h.ops : h.ops[o].acc = IF o = 1 THEN "W" ELSE "R"
    BY <1>5, <1>9
  <2> QED BY <1>1, <1>3, <1>4, <1>9, <1>10, <2>1, <2>2
<1>11. CASE s \in prog.succ[b]
  <2>1. PICK p : p = 1 + PredIndex(b, s)
    OBVIOUS
  <2>2. p \in DOMAIN phi.ops /\ p # 1
    BY <1>5, <1>11, <2>1, PredIndexIs
  <2>3. PICK r : r = Reg(AtEnd(b, v), "R")
    OBVIOUS
  <2>4. r \in PhiOperands /\ r.regs[1] = AtEnd(b, v) /\ r.acc = "R"
    <3>1. Len(code[b]) + 1 \in Nat \ {0}
      OBVIOUS
    <3>2. AtEnd(b, v) \in RegisterNames
      BY <1>5, <3>1, ReachingIs DEF AtEnd
    <3> QED BY <2>3, <3>2, RegIs
  <2>5. t = [h EXCEPT !.ops[p] = r]
    BY <1>2, <1>3, <1>9, <1>11, <2>1, <2>2, <2>3 DEF PhiAfter
  <2>6. /\ t \in PhiInstructions /\ DOMAIN t.ops = DOMAIN h.ops /\ t.ops[p] = r
        /\ \A o \in DOMAIN h.ops : o # p => t.ops[o] = h.ops[o]
    <3>1. h.ops \in Seq(PhiOperands)
      BY <1>9 DEF PhiInstructions
    <3>2. t.ops = [h.ops EXCEPT ![p] = r]
      BY <1>9, <2>5 DEF PhiInstructions
    <3>3. /\ t.ops \in Seq(PhiOperands) /\ DOMAIN t.ops = DOMAIN h.ops /\ t.ops[p] = r
          /\ \A o \in DOMAIN h.ops : o # p => t.ops[o] = h.ops[o]
      <4>1. PICK n \in Nat : h.ops \in [1 .. n -> PhiOperands]
        BY <3>1
      <4>2. t.ops \in [1 .. n -> PhiOperands]
        BY <2>4, <3>2, <4>1
      <4>3. t.ops \in Seq(PhiOperands)
        BY <4>2
      <4> QED BY <1>9, <2>2, <3>2, <4>1, <4>3
    <3>4. t \in PhiInstructions
      BY <1>9, <2>5, <3>3 DEF PhiInstructions
    <3> QED BY <3>3, <3>4
  <2>7. PhiBase(t) = v
    BY <1>5, <1>9, <2>2, <2>6 DEF PhiBase
  <2>8. ASSUME NEW o \in DOMAIN t.ops PROVE t.ops[o].acc = IF o = 1 THEN "W" ELSE "R"
    <3>1. CASE o = p
      BY <2>2, <2>4, <2>6, <3>1
    <3>2. CASE o # p
      <4>1. o \in DOMAIN phi.ops /\ t.ops[o] = h.ops[o]
        BY <1>9, <2>6, <3>2
      <4>2. CASE o = 1
        BY <1>9, <4>1, <4>2
      <4>3. CASE o # 1
        BY <1>5, <1>9, <4>1, <4>3
      <4> QED BY <4>2, <4>3
    <3> QED BY <3>1, <3>2
  <2>9. t.ops[1].regs[1] = IF s = b THEN Version(v, counters[v] + 1) ELSE phi.ops[1].regs[1]
    BY <1>5, <1>9, <2>2, <2>6
  <2>10. \A o \in DOMAIN t.ops : o # 1 /\ o # p => t.ops[o] = phi.ops[o]
    BY <1>9, <2>6
  <2>11. t \in PhiInstructions /\ DOMAIN t.ops = DOMAIN phi.ops /\ t.ops[p].regs[1] = AtEnd(b, v)
    BY <1>9, <2>4, <2>6
  <2> QED BY <1>1, <1>3, <1>4, <1>11, <2>1, <2>7, <2>8, <2>9, <2>10, <2>11
<1> QED BY <1>10, <1>11

\* The phis of all blocks when a block is renamed.
LEMMA PhisAfter ==
    ASSUME GraphInv, PhisInv, CountersInv, DOMAIN defSites \subseteq Variables,
           RenameBlock, NEW b \in Blocks, b = Last(frames).block, Len(code[b]) \in Nat
    PROVE  /\ PhisInv'
           /\ \A s \in Blocks : DOMAIN phis'[s] = DOMAIN phis[s] /\ \A j \in DOMAIN phis[s] : phis'[s][j] = PhiAfter(b, s, j)
<1>1. PICK named : named = [phis EXCEPT ![b] = RenamedPhis(b)]
  OBVIOUS
<1>2. phis' = [s \in Blocks |-> IF s \in prog.succ[b] THEN Populated(b, s, named[s]) ELSE named[s]]
      /\ UNCHANGED <<prog, defSites>>
  BY <1>1 DEF RenameBlock
<1>3. \A s \in Blocks : phis[s] \in Seq(PhiInstructions)
  BY DEF PhisInv
<1>4. DOMAIN phis = Blocks
  BY DEF PhisInv
<1>5. ASSUME NEW s \in Blocks
      PROVE  /\ DOMAIN named[s] = DOMAIN phis[s]
             /\ \A j \in DOMAIN phis[s] : named[s][j] = NamedPhi(b, s, j)
  <2>1. CASE s = b
    <3>1. named[s] = RenamedPhis(b)
      BY <1>1, <1>4, <2>1
    <3> QED BY <2>1, <3>1 DEF RenamedPhis, NamedPhi
  <2>2. CASE s # b
    BY <1>1, <1>4, <2>2 DEF NamedPhi
  <2> QED BY <2>1, <2>2
<1>6. ASSUME NEW s \in Blocks
      PROVE  /\ DOMAIN phis'[s] = DOMAIN phis[s]
             /\ \A j \in DOMAIN phis[s] : phis'[s][j] = PhiAfter(b, s, j)
             /\ phis'[s] \in Seq(PhiInstructions)
  <2>1. CASE s \in prog.succ[b]
    <3>1. phis'[s] = Populated(b, s, named[s])
      BY <1>2, <2>1
    <3>2. DOMAIN phis'[s] = DOMAIN phis[s]
      BY <1>5, <3>1 DEF Populated
    <3>3. ASSUME NEW j \in DOMAIN phis[s] PROVE phis'[s][j] = PhiAfter(b, s, j)
      <4>1. PICK h : h = named[s][j] /\ h = NamedPhi(b, s, j)
        BY <1>5, <3>3
      <4>2. phis'[s][j] = IF 1 + PredIndex(b, s) \in DOMAIN h.ops
                          THEN [h EXCEPT !.ops[1 + PredIndex(b, s)] = Reg(AtEnd(b, PhiBase(h)), "R")] ELSE h
        BY <1>5, <3>1, <4>1 DEF Populated
      <4> QED BY <2>1, <4>1, <4>2 DEF PhiAfter
    <3>4. PICK n \in Nat : DOMAIN phis[s] = 1 .. n
      BY <1>3
    <3>5. phis'[s] = [j \in 1 .. n |-> phis'[s][j]]
      BY <1>5, <3>1, <3>4 DEF Populated
    <3>6. \A j \in 1 .. n : phis'[s][j] \in PhiInstructions
      BY <3>3, <3>4, PhiRenamed
    <3>7. PICK list : list = phis'[s]
      OBVIOUS
    <3>8. list \in [1 .. n -> PhiInstructions]
      BY <3>5, <3>6, <3>7
    <3>9. list \in Seq(PhiInstructions)
      BY <3>8
    <3> QED BY <3>2, <3>3, <3>7, <3>9
  <2>2. CASE s \notin prog.succ[b]
    <3>1. phis'[s] = named[s]
      BY <1>2, <2>2
    <3>2. DOMAIN phis'[s] = DOMAIN phis[s]
      BY <1>5, <3>1
    <3>3. ASSUME NEW j \in DOMAIN phis[s] PROVE phis'[s][j] = PhiAfter(b, s, j)
      BY <1>5, <2>2, <3>1 DEF PhiAfter
    <3>4. PICK n \in Nat : DOMAIN phis[s] = 1 .. n
      BY <1>3
    <3>5. phis'[s] = [j \in 1 .. n |-> phis'[s][j]]
      <4>1. CASE s = b
        BY <1>1, <1>4, <3>1, <3>4, <4>1 DEF RenamedPhis
      <4>2. CASE s # b
        <5>1. phis'[s] = phis[s]
          BY <1>1, <1>4, <3>1, <4>2
        <5> QED BY <1>3, <3>4, <5>1
      <4> QED BY <4>1, <4>2
    <3>6. \A j \in 1 .. n : phis'[s][j] \in PhiInstructions
      BY <3>3, <3>4, PhiRenamed
    <3>7. PICK list : list = phis'[s]
      OBVIOUS
    <3>8. list \in [1 .. n -> PhiInstructions]
      BY <3>5, <3>6, <3>7
    <3>9. list \in Seq(PhiInstructions)
      BY <3>8
    <3> QED BY <3>2, <3>3, <3>7, <3>9
  <2> QED BY <2>1, <2>2
<1>7. /\ Blocks' = Blocks /\ \A s : Preds(s)' = Preds(s)
      /\ \A s, j : PhiBase(phis[s][j])' = PhiBase(phis'[s][j])
  BY <1>2 DEF Blocks, Preds, PhiBase
<1>8. ASSUME NEW s \in Blocks, NEW j \in DOMAIN phis[s]
      PROVE  /\ DOMAIN phis'[s][j].ops = 1 .. 1 + Len(Preds(s))
             /\ \A o \in DOMAIN phis'[s][j].ops : phis'[s][j].ops[o].acc = IF o = 1 THEN "W" ELSE "R"
             /\ PhiBase(phis'[s][j]) = PhiBase(phis[s][j])
             /\ DOMAIN phis[s][j].ops = 1 .. 1 + Len(Preds(s))
  BY <1>6, PhiRenamed DEF PhisInv
<1>9. ASSUME NEW s \in Blocks, NEW j \in DOMAIN phis[s]
      PROVE  /\ PhiBase(phis'[s][j]) \in DOMAIN defSites
             /\ \A i \in DOMAIN phis[s] : PhiBase(phis'[s][i]) = PhiBase(phis'[s][j]) => i = j
  BY <1>8 DEF PhisInv
<1>10. phis' \in [Blocks -> Seq(PhiInstructions)]
  <2>1. phis' = [s \in Blocks |-> phis'[s]]
    BY <1>2
  <2> QED BY <1>6, <2>1
<1>11. PhisInv'
  <2>1. phis' \in [Blocks' -> Seq(PhiInstructions)]
    BY <1>7, <1>10
  <2>2. ASSUME NEW s \in Blocks', NEW j \in DOMAIN phis'[s]
        PROVE  /\ DOMAIN phis'[s][j].ops = 1 .. 1 + Len(Preds(s)')
               /\ \A o \in DOMAIN phis'[s][j].ops : phis'[s][j].ops[o].acc = IF o = 1 THEN "W" ELSE "R"
               /\ PhiBase(phis[s][j])' \in DOMAIN defSites'
               /\ \A i \in DOMAIN phis'[s] : PhiBase(phis[s][i])' = PhiBase(phis[s][j])' => i = j
    <3>1. s \in Blocks /\ j \in DOMAIN phis[s] /\ DOMAIN phis'[s] = DOMAIN phis[s]
      BY <1>6, <1>7, <2>2
    <3>2. Preds(s)' = Preds(s) /\ DOMAIN defSites' = DOMAIN defSites
          /\ \A i : PhiBase(phis[s][i])' = PhiBase(phis'[s][i])
      BY <1>2, <1>7
    <3>3. /\ DOMAIN phis'[s][j].ops = 1 .. 1 + Len(Preds(s)')
          /\ \A o \in DOMAIN phis'[s][j].ops : phis'[s][j].ops[o].acc = IF o = 1 THEN "W" ELSE "R"
      BY <1>8, <3>1, <3>2
    <3>4. /\ PhiBase(phis[s][j])' \in DOMAIN defSites'
          /\ \A i \in DOMAIN phis'[s] : PhiBase(phis[s][i])' = PhiBase(phis[s][j])' => i = j
      BY <1>9, <3>1, <3>2
    <3> QED BY <3>3, <3>4
  <2> QED BY <2>1, <2>2 DEF PhisInv
<1> QED BY <1>6, <1>11

\* A phi defines its first operand.
LEMMA PhiDefines ==
    ASSUME NEW phi \in PhiInstructions, 1 \in DOMAIN phi.ops,
           \A o \in DOMAIN phi.ops : phi.ops[o].acc = IF o = 1 THEN "W" ELSE "R"
    PROVE  Defs(phi) = {phi.ops[1].regs[1]}
<1>1. phi.ops \in Seq(PhiOperands)
  BY DEF PhiInstructions
<1>2. phi.ops[1] \in PhiOperands
  BY <1>1
<1>3. DOMAIN phi.ops[1].regs = 1 .. 1
  BY <1>2 DEF PhiOperands
<1>4. \A o \in DOMAIN phi.ops : phi.ops[o].acc \in {"R", "W"} /\ (phi.ops[o].acc = "W" <=> o = 1)
  OBVIOUS
<1>5. \A r : r \in Defs(phi) <=> \E o \in DOMAIN phi.ops : phi.ops[o].acc = "W" /\ \E n \in DOMAIN phi.ops[o].regs : r = phi.ops[o].regs[n]
  BY <1>4, AccessIs
<1>6. \A r : r \in Defs(phi) <=> r = phi.ops[1].regs[1]
  BY <1>3, <1>4, <1>5
<1> QED BY <1>6

\* A block that is about to be renamed.
AtBlock(b) ==
    /\ GraphInv /\ PhisInv /\ CountersInv /\ prog \in Programs /\ DOMAIN defSites \subseteq Variables
    /\ b \in Blocks /\ DOMAIN code = Blocks /\ code[b] = prog.body[b] /\ b = Last(frames).block

\* What an instruction writes and reads then.
LEMMA CodeRenamed ==
    ASSUME NEW b, AtBlock(b), DOMAIN defSites \subseteq Nat, NEW k \in DOMAIN code[b]
    PROVE  /\ k \in Nat \ {0} /\ DOMAIN Renamed(b) = DOMAIN code[b]
           /\ \A r : r \in Defs(Renamed(b)[k]) <=> \E v \in Variables : Base(v) \in Defs(code[b][k]) /\ r = Reaching(b, v, k + 1)
           /\ \A r : r \in Uses(Renamed(b)[k]) <=> \E v \in Variables : Base(v) \in Uses(code[b][k]) /\ r = Reaching(b, v, k)
<1>1. PICK i : i = code[b][k]
  OBVIOUS
<1>2. i \in GenericInstructions /\ k \in Nat \ {0}
  BY <1>1, BodiesAre DEF AtBlock
<1>3. PICK new : new = Renamed(b)[k]
  OBVIOUS
<1>4. new = [i EXCEPT !.ops = [o \in DOMAIN i.ops |-> NameOf(b, k, i.ops[o])]] /\ DOMAIN Renamed(b) = DOMAIN code[b]
  BY <1>1, <1>3 DEF Renamed
<1>5. DOMAIN new.ops = DOMAIN i.ops /\ \A o \in DOMAIN i.ops : new.ops[o] = NameOf(b, k, i.ops[o])
  BY <1>2, <1>4 DEF GenericInstructions
<1>6. ASSUME NEW o \in DOMAIN i.ops
      PROVE  /\ i.ops[o].acc \in {"R", "W"} /\ new.ops[o].acc = i.ops[o].acc
             /\ DOMAIN new.ops[o].regs = DOMAIN i.ops[o].regs
             /\ \A n \in DOMAIN i.ops[o].regs :
                   new.ops[o].regs[n] = Reaching(b, BaseOf(i.ops[o].regs[n]), IF i.ops[o].acc = "R" THEN k ELSE k + 1)
  <2>1. PICK op : op = i.ops[o]
    OBVIOUS
  <2>2. op \in GenericOperands
    BY <1>2, <2>1 DEF GenericInstructions
  <2>3. op.acc \in {"R", "W"}
    BY <1>2, <2>1, GenericRegisters
  <2>4. PICK p : p = NameOf(b, k, op)
    OBVIOUS
  <2>5. p = [op EXCEPT !.regs = [n \in DOMAIN op.regs |-> Reaching(b, BaseOf(op.regs[n]), IF op.acc = "R" THEN k ELSE k + 1)]]
    BY <2>4 DEF NameOf
  <2>6. p.acc = op.acc /\ DOMAIN p.regs = DOMAIN op.regs
        /\ \A n \in DOMAIN op.regs : p.regs[n] = Reaching(b, BaseOf(op.regs[n]), IF op.acc = "R" THEN k ELSE k + 1)
    BY <2>2, <2>5 DEF GenericOperands
  <2> QED BY <1>5, <2>1, <2>3, <2>4, <2>6
<1>7. \A o \in DOMAIN i.ops : \A n \in DOMAIN i.ops[o].regs :
         /\ i.ops[o].regs[n] = Base(BaseOf(i.ops[o].regs[n]))
         /\ i.ops[o].regs[n] \in Defs(i) \cup Uses(i)
  <2>1. \A o \in DOMAIN i.ops : i.ops[o].acc \in {"R", "W"}
    BY <1>6
  <2> QED BY <1>2, <2>1, AccessIs, GenericRegisters
<1>8. \A r \in Defs(i) \cup Uses(i) : BaseOf(r) \in Variables /\ r = Base(BaseOf(r))
  BY <1>1, VariablesAre DEF AtBlock
<1>9. /\ \A r : r \in Defs(new) <=> \E o \in DOMAIN new.ops : new.ops[o].acc = "W" /\ \E n \in DOMAIN new.ops[o].regs : r = new.ops[o].regs[n]
      /\ \A r : r \in Uses(new) <=> \E o \in DOMAIN new.ops : new.ops[o].acc = "R" /\ \E n \in DOMAIN new.ops[o].regs : r = new.ops[o].regs[n]
      /\ \A r : r \in Defs(i) <=> \E o \in DOMAIN i.ops : i.ops[o].acc = "W" /\ \E n \in DOMAIN i.ops[o].regs : r = i.ops[o].regs[n]
      /\ \A r : r \in Uses(i) <=> \E o \in DOMAIN i.ops : i.ops[o].acc = "R" /\ \E n \in DOMAIN i.ops[o].regs : r = i.ops[o].regs[n]
  BY <1>5, <1>6, AccessIs
<1>10. ASSUME NEW r
       PROVE  r \in Defs(new) <=> \E v \in Variables : Base(v) \in Defs(i) /\ r = Reaching(b, v, k + 1)
  <2>1. ASSUME r \in Defs(new) PROVE \E v \in Variables : Base(v) \in Defs(i) /\ r = Reaching(b, v, k + 1)
    <3>1. PICK o, n : o \in DOMAIN i.ops /\ n \in DOMAIN i.ops[o].regs /\ new.ops[o].acc = "W" /\ r = new.ops[o].regs[n]
      BY <1>5, <1>6, <1>9, <2>1
    <3>2. PICK q : q = i.ops[o].regs[n]
      OBVIOUS
    <3>3. q \in Defs(i) /\ r = Reaching(b, BaseOf(q), k + 1)
      BY <1>6, <1>9, <3>1, <3>2
    <3> QED BY <1>8, <3>3
  <2>2. ASSUME NEW v \in Variables, Base(v) \in Defs(i), r = Reaching(b, v, k + 1) PROVE r \in Defs(new)
    <3>1. PICK o, n : o \in DOMAIN i.ops /\ n \in DOMAIN i.ops[o].regs /\ i.ops[o].acc = "W" /\ Base(v) = i.ops[o].regs[n]
      BY <1>9, <2>2
    <3>2. BaseOf(Base(v)) = v
      BY VersionIs
    <3>3. new.ops[o].acc = "W" /\ r = new.ops[o].regs[n] /\ n \in DOMAIN new.ops[o].regs /\ o \in DOMAIN new.ops
      BY <1>5, <1>6, <2>2, <3>1, <3>2
    <3> QED BY <1>9, <3>3
  <2> QED BY <2>1, <2>2
<1>11. ASSUME NEW r
       PROVE  r \in Uses(new) <=> \E v \in Variables : Base(v) \in Uses(i) /\ r = Reaching(b, v, k)
  <2>1. ASSUME r \in Uses(new) PROVE \E v \in Variables : Base(v) \in Uses(i) /\ r = Reaching(b, v, k)
    <3>1. PICK o, n : o \in DOMAIN i.ops /\ n \in DOMAIN i.ops[o].regs /\ new.ops[o].acc = "R" /\ r = new.ops[o].regs[n]
      BY <1>5, <1>6, <1>9, <2>1
    <3>2. PICK q : q = i.ops[o].regs[n]
      OBVIOUS
    <3>3. q \in Uses(i) /\ r = Reaching(b, BaseOf(q), k)
      BY <1>6, <1>9, <3>1, <3>2
    <3> QED BY <1>8, <3>3
  <2>2. ASSUME NEW v \in Variables, Base(v) \in Uses(i), r = Reaching(b, v, k) PROVE r \in Uses(new)
    <3>1. PICK o, n : o \in DOMAIN i.ops /\ n \in DOMAIN i.ops[o].regs /\ i.ops[o].acc = "R" /\ Base(v) = i.ops[o].regs[n]
      BY <1>9, <2>2
    <3>2. BaseOf(Base(v)) = v
      BY VersionIs
    <3>3. new.ops[o].acc = "R" /\ r = new.ops[o].regs[n] /\ n \in DOMAIN new.ops[o].regs /\ o \in DOMAIN new.ops
      BY <1>5, <1>6, <2>2, <3>1, <3>2
    <3> QED BY <1>9, <3>3
  <2> QED BY <2>1, <2>2
<1> QED BY <1>1, <1>2, <1>3, <1>4, <1>10, <1>11

\* The names in a block that has been renamed.
LEMMA NewNames ==
    ASSUME NEW b, AtBlock(b), DOMAIN defSites \subseteq Nat, RenameBlock
    PROVE  /\ Len(code[b]) \in Nat /\ DOMAIN code[b] = 1 .. Len(code[b])
           /\ DOMAIN phis'[b] = DOMAIN phis[b] /\ DOMAIN code'[b] = DOMAIN code[b]
           /\ \A j \in DOMAIN phis[b] :
                 /\ PhiBase(phis[b][j]) \in Variables
                 /\ Defs(phis'[b][j]) = {Version(PhiBase(phis[b][j]), counters[PhiBase(phis[b][j])] + 1)}
           /\ \A k \in DOMAIN code[b] : \A r : r \in Defs(code'[b][k]) <=>
                 \E v \in Variables : Base(v) \in Defs(code[b][k]) /\ r = Version(v, counters[v] + DefsBefore(b, v, k + 1))
           /\ \A k \in DOMAIN code[b] : \A r : r \in Uses(code'[b][k]) <=>
                 \E v \in Variables : Base(v) \in Uses(code[b][k]) /\ r = Reaching(b, v, k)
<1>1. GraphInv /\ PhisInv /\ CountersInv /\ b \in Blocks /\ b = Last(frames).block /\ DOMAIN code = Blocks
      /\ DOMAIN defSites \subseteq Variables
  BY DEF AtBlock
<1>2. Len(code[b]) \in Nat /\ DOMAIN code[b] = 1 .. Len(code[b])
  <2>1. prog.body[b] \in Seq(GenericInstructions)
    BY BodiesAre DEF AtBlock
  <2> QED BY <2>1 DEF AtBlock
<1>3. code'[b] = Renamed(b)
  BY <1>1 DEF RenameBlock
<1>4. /\ PhisInv' /\ DOMAIN phis'[b] = DOMAIN phis[b]
      /\ \A j \in DOMAIN phis[b] : phis'[b][j] = PhiAfter(b, b, j)
  BY <1>1, <1>2, PhisAfter
<1>5. ASSUME NEW j \in DOMAIN phis[b]
      PROVE  /\ PhiBase(phis[b][j]) \in Variables
             /\ Defs(phis'[b][j]) = {Version(PhiBase(phis[b][j]), counters[PhiBase(phis[b][j])] + 1)}
  <2>1. PICK t : t = phis'[b][j]
    OBVIOUS
  <2>2. /\ t \in PhiInstructions /\ DOMAIN t.ops = DOMAIN phis[b][j].ops
        /\ \A o \in DOMAIN t.ops : t.ops[o].acc = IF o = 1 THEN "W" ELSE "R"
        /\ t.ops[1].regs[1] = Version(PhiBase(phis[b][j]), counters[PhiBase(phis[b][j])] + 1)
    BY <1>1, <1>2, <1>4, <2>1, PhiRenamed
  <2>3. 1 \in DOMAIN t.ops
    BY <1>1, <2>2, PhiIs
  <2>4. PhiBase(phis[b][j]) \in Variables
    BY <1>1 DEF PhisInv
  <2> QED BY <2>1, <2>2, <2>3, <2>4, PhiDefines
<1>6. ASSUME NEW k \in DOMAIN code[b], NEW v \in Variables, Base(v) \in Defs(code[b][k])
      PROVE  Reaching(b, v, k + 1) = Version(v, counters[v] + DefsBefore(b, v, k + 1))
  <2>1. k \in Nat \ {0}
    BY <1>2
  <2>2. DefsBefore(b, v, k + 1) \in Nat \ {0}
    BY <1>1, <1>6, <2>1, SitesDiffer
  <2> QED BY <2>2 DEF Reaching
<1>7. ASSUME NEW k \in DOMAIN code[b]
      PROVE  /\ \A r : r \in Defs(code'[b][k]) <=>
                   \E v \in Variables : Base(v) \in Defs(code[b][k]) /\ r = Version(v, counters[v] + DefsBefore(b, v, k + 1))
             /\ \A r : r \in Uses(code'[b][k]) <=> \E v \in Variables : Base(v) \in Uses(code[b][k]) /\ r = Reaching(b, v, k)
  <2>1. /\ \A r : r \in Defs(Renamed(b)[k]) <=> \E v \in Variables : Base(v) \in Defs(code[b][k]) /\ r = Reaching(b, v, k + 1)
        /\ \A r : r \in Uses(Renamed(b)[k]) <=> \E v \in Variables : Base(v) \in Uses(code[b][k]) /\ r = Reaching(b, v, k)
    BY CodeRenamed, Zenon
  <2> QED BY <1>3, <1>6, <2>1
<1>9. DOMAIN code'[b] = DOMAIN code[b]
  BY <1>3 DEF Renamed
<1> QED BY <1>2, <1>4, <1>5, <1>7, <1>9

\* What a list is made of behind another.
LEMMA ListJoined ==
    ASSUME NEW S, NEW s \in Seq(S), NEW t \in Seq(S)
    PROVE  /\ s \o t \in Seq(S) /\ Len(s \o t) = Len(s) + Len(t)
           /\ \A i \in 1 .. Len(s) : (s \o t)[i] = s[i]
           /\ \A n \in 1 .. Len(t) : (s \o t)[Len(s) + n] = t[n]
<1>1. PICK u : u = s \o t
  OBVIOUS
<1>2. u \in Seq(S) /\ Len(u) = Len(s) + Len(t)
  BY <1>1
<1>3. \A i \in 1 .. Len(s) : u[i] = s[i]
  BY <1>1
<1>4. ASSUME NEW n \in 1 .. Len(t)
      PROVE  u[Len(s) + n] = t[n]
  <2>1. Len(s) + n > Len(s) /\ Len(s) + n \in 1 .. Len(s) + Len(t) /\ Len(s) + n - Len(s) = n
    OBVIOUS
  <2> QED BY <1>1, <2>1
<1> QED BY <1>1, <1>2, <1>3, <1>4

\* How many definitions of v there are in block b.
AllDefs(b, v) == DefsBefore(b, v, Len(code[b]) + 1)

\* What renaming a block adds to the stacks and the counters.
LEMMA StacksAfter ==
    ASSUME NEW b, AtBlock(b), DOMAIN defSites \subseteq Nat, RenameBlock, NEW v \in Variables
    PROVE  LET args == IF b = Entry /\ v \in prog.params THEN 1 ELSE 0
               old == stacks[v]
           IN  /\ AllDefs(b, v) \in Nat
               /\ counters[v] \in Nat /\ counters'[v] = counters[v] + AllDefs(b, v)
               /\ old \in Seq(RegisterNames) /\ stacks'[v] \in Seq(RegisterNames)
               /\ Len(stacks'[v]) = Len(old) + args + AllDefs(b, v)
               /\ \A i \in 1 .. Len(old) : stacks'[v][i] = old[i]
               /\ args = 1 => stacks'[v][Len(old) + 1] = Base(v)
               /\ \A n \in 1 .. AllDefs(b, v) : stacks'[v][Len(old) + args + n] = Version(v, counters[v] + n)
<1>1. GraphInv /\ PhisInv /\ CountersInv /\ b \in Blocks /\ b = Last(frames).block
      /\ stacks[v] \in Seq(RegisterNames) /\ counters[v] \in Nat /\ v \in Nat
  BY DEF AtBlock, CountersInv
<1>2. Len(code[b]) + 1 \in Nat \ {0}
  BY NewNames
<1>3. AllDefs(b, v) \in Nat
  BY <1>1, <1>2, DefsBeforeIs DEF AllDefs
<1>4. PICK args : args = IF b = Entry /\ v \in prog.params THEN <<Base(v)>> ELSE <<>>
  OBVIOUS
<1>5. PICK new : new = [n \in 1 .. AllDefs(b, v) |-> Version(v, counters[v] + n)]
  OBVIOUS
<1>6. \A n \in Int : Version(v, n) \in RegisterNames
  BY <1>1 DEF Version, V, RegisterNames
<1>7. Base(v) \in RegisterNames
  BY <1>1 DEF Base, V, RegisterNames
<1>8. new \in Seq(RegisterNames) /\ Len(new) = AllDefs(b, v) /\ \A n \in 1 .. AllDefs(b, v) : new[n] = Version(v, counters[v] + n)
  <2>1. new \in [1 .. AllDefs(b, v) -> RegisterNames]
    BY <1>1, <1>3, <1>5, <1>6
  <2>2. new \in Seq(RegisterNames)
    BY <1>3, <2>1
  <2> QED BY <1>3, <1>5, <2>1, <2>2
<1>9. /\ args \in Seq(RegisterNames) /\ Len(args) = IF b = Entry /\ v \in prog.params THEN 1 ELSE 0
      /\ Len(args) = 1 => args[1] = Base(v)
  <2>1. CASE b = Entry /\ v \in prog.params
    BY <1>4, <1>7, <2>1
  <2>2. CASE ~(b = Entry /\ v \in prog.params)
    BY <1>4, <2>2
  <2> QED BY <2>1, <2>2
<1>10. v \in DOMAIN stacks /\ v \in DOMAIN counters
  BY <1>1 DEF CountersInv
<1>11. stacks'[v] = stacks[v] \o args \o new /\ counters'[v] = counters[v] + Len(new)
  BY <1>1, <1>4, <1>5, <1>10 DEF RenameBlock, AllDefs
<1>12. PICK old : old = stacks[v]
  OBVIOUS
<1>13. PICK mid : /\ mid = old \o args
                  /\ mid \in Seq(RegisterNames) /\ Len(mid) = Len(old) + Len(args)
                  /\ \A i \in 1 .. Len(old) : mid[i] = old[i]
                  /\ \A n \in 1 .. Len(args) : mid[Len(old) + n] = args[n]
  <2>1. old \in Seq(RegisterNames) /\ args \in Seq(RegisterNames)
    BY <1>1, <1>9, <1>12
  <2>2. /\ old \o args \in Seq(RegisterNames) /\ Len(old \o args) = Len(old) + Len(args)
        /\ \A i \in 1 .. Len(old) : (old \o args)[i] = old[i]
        /\ \A n \in 1 .. Len(args) : (old \o args)[Len(old) + n] = args[n]
    BY <2>1, ListJoined
  <2> QED BY <2>2
<1>14. PICK all : /\ all = mid \o new
                  /\ all \in Seq(RegisterNames) /\ Len(all) = Len(mid) + Len(new)
                  /\ \A i \in 1 .. Len(mid) : all[i] = mid[i]
                  /\ \A n \in 1 .. Len(new) : all[Len(mid) + n] = new[n]
  <2>1. mid \in Seq(RegisterNames) /\ new \in Seq(RegisterNames)
    BY <1>8, <1>13
  <2>2. /\ mid \o new \in Seq(RegisterNames) /\ Len(mid \o new) = Len(mid) + Len(new)
        /\ \A i \in 1 .. Len(mid) : (mid \o new)[i] = mid[i]
        /\ \A n \in 1 .. Len(new) : (mid \o new)[Len(mid) + n] = new[n]
    BY <2>1, ListJoined
  <2> QED BY <2>2
<1>15. Len(old) \in Nat /\ Len(args) \in {0, 1} /\ (Len(args) = 1 => 1 \in 1 .. Len(args))
  BY <1>1, <1>9, <1>12
<1>16. stacks'[v] = all
  BY <1>11, <1>12, <1>13, <1>14
<1>17. \A i \in 1 .. Len(old) : all[i] = old[i]
  <2>1. \A i \in 1 .. Len(old) : i \in 1 .. Len(mid)
    BY <1>13, <1>15
  <2> QED BY <1>13, <1>14, <2>1
<1>18. Len(args) = 1 => all[Len(old) + 1] = Base(v)
  <2>1. Len(args) = 1 => Len(old) + 1 \in 1 .. Len(mid)
    BY <1>13, <1>15
  <2> QED BY <1>9, <1>13, <1>14, <1>15, <2>1
<1>19. /\ Len(all) = Len(old) + Len(args) + AllDefs(b, v)
       /\ \A n \in 1 .. AllDefs(b, v) : all[Len(old) + Len(args) + n] = Version(v, counters[v] + n)
  BY <1>8, <1>13, <1>14
<1> QED BY <1>1, <1>3, <1>8, <1>9, <1>11, <1>12, <1>14, <1>16, <1>17, <1>18, <1>19

\* The places where a renamed block defines a register.
LEMMA SitesAre ==
    ASSUME NEW b, NEW r, NEW d
    PROVE  /\ d \in DefsIn(r, b)' <=> \/ \E j \in DOMAIN phis'[b] : d = <<0, j>> /\ r \in Defs(phis'[b][j])
                                      \/ \E k \in DOMAIN code'[b] : d = <<k, 1>> /\ r \in Defs(code'[b][k])
           /\ r \in DefinedIn(b)' <=> \/ \E j \in DOMAIN phis'[b] : r \in Defs(phis'[b][j])
                                      \/ \E k \in DOMAIN code'[b] : r \in Defs(code'[b][k])
<1>1. d \in DefsIn(r, b)' <=> \/ \E j \in DOMAIN phis'[b] : d = <<0, j>> /\ r \in Defs(phis'[b][j])
                           \/ \E k \in DOMAIN code'[b] : d = <<k, 1>> /\ r \in Defs(code'[b][k])
  BY Zenon DEF DefsIn
<1>2. r \in DefinedIn(b)' <=> \/ \E j \in DOMAIN phis'[b] : r \in Defs(phis'[b][j])
                            \/ \E k \in DOMAIN code'[b] : r \in Defs(code'[b][k])
  BY SMT DEF DefinedIn
<1> QED BY <1>1, <1>2

\* The names of a block are new, and each is given to one definition.
LEMMA NamesAreNew ==
    ASSUME NEW b, AtBlock(b), DOMAIN defSites \subseteq Nat, RenameBlock
    PROVE  /\ \A r \in DefinedIn(b)' : \E v \in Variables : \E n \in counters[v] + 1 .. counters'[v] : r = Version(v, n)
           /\ \A r : \A c, d \in DefsIn(r, b)' : c = d
<1>1. GraphInv /\ PhisInv /\ CountersInv /\ b \in Blocks
  BY DEF AtBlock
<1>2. PICK n : n = Len(code[b])
  OBVIOUS
<1>3. n \in Nat /\ DOMAIN code[b] = 1 .. n
  BY <1>2, NewNames
<1>4. /\ DOMAIN phis'[b] = DOMAIN phis[b] /\ DOMAIN code'[b] = DOMAIN code[b]
      /\ \A j \in DOMAIN phis[b] :
                 /\ PhiBase(phis[b][j]) \in Variables
                 /\ Defs(phis'[b][j]) = {Version(PhiBase(phis[b][j]), counters[PhiBase(phis[b][j])] + 1)}
      /\ \A k \in DOMAIN code[b] : \A r : r \in Defs(code'[b][k]) <=>
             \E v \in Variables : Base(v) \in Defs(code[b][k]) /\ r = Version(v, counters[v] + DefsBefore(b, v, k + 1))
  BY NewNames, Zenon
<1>5. ASSUME NEW j \in DOMAIN phis[b], NEW v, v = PhiBase(phis[b][j])
      PROVE  HeadOf(b, v) = 1 /\ AllDefs(b, v) \in Nat /\ 1 <= AllDefs(b, v)
  <2>1. HeadOf(b, v) = 1
    BY <1>1, <1>5, HeadIs
  <2>2. 1 \in Nat \ {0} /\ n + 1 \in Nat \ {0} /\ 1 + n = n + 1
    BY <1>3
  <2>3. DefsBefore(b, v, 1) = 1
    BY <1>1, <2>1, <2>2, DefsBeforeIs
  <2>4. DefsBefore(b, v, 1) <= DefsBefore(b, v, n + 1)
    BY <1>1, <1>3, <2>2, DefsBeforeGrows
  <2>5. DefsBefore(b, v, n + 1) \in Nat
    BY <1>1, <2>2, DefsBeforeIs
  <2> QED BY <1>2, <2>1, <2>3, <2>4, <2>5 DEF AllDefs
<1>6. ASSUME NEW k \in 1 .. n, NEW v, Base(v) \in Defs(code[b][k])
      PROVE  /\ DefsBefore(b, v, k + 1) \in Nat \ {0} /\ DefsBefore(b, v, k + 1) > HeadOf(b, v)
             /\ AllDefs(b, v) \in Nat /\ DefsBefore(b, v, k + 1) <= AllDefs(b, v)
  <2>1. k \in Nat \ {0} /\ n >= k /\ n + 1 \in Nat \ {0}
    BY <1>3
  <2>2. /\ DefsBefore(b, v, k + 1) \in Nat \ {0} /\ DefsBefore(b, v, k + 1) > HeadOf(b, v)
        /\ DefsBefore(b, v, k + 1) <= DefsBefore(b, v, n + 1)
    BY <1>1, <1>3, <1>6, <2>1, SitesDiffer
  <2>3. DefsBefore(b, v, n + 1) \in Nat
    BY <1>1, <2>1, DefsBeforeIs
  <2> QED BY <1>2, <2>2, <2>3 DEF AllDefs
<1>7. \A v \in Variables : counters[v] \in Nat /\ counters'[v] = counters[v] + AllDefs(b, v)
  BY StacksAfter
<1>8. ASSUME NEW r \in DefinedIn(b)'
      PROVE  \E v \in Variables : \E m \in counters[v] + 1 .. counters'[v] : r = Version(v, m)
  <2>1. CASE \E j \in DOMAIN phis'[b] : r \in Defs(phis'[b][j])
    <3>1. PICK j \in DOMAIN phis[b] : r \in Defs(phis'[b][j])
      BY <1>4, <2>1
    <3>2. PICK v : v = PhiBase(phis[b][j])
      OBVIOUS
    <3>3. v \in Variables /\ r = Version(v, counters[v] + 1)
      BY <1>4, <3>1, <3>2
    <3>4. counters[v] + 1 \in counters[v] + 1 .. counters'[v]
      BY <1>5, <1>7, <3>2, <3>3
    <3> QED BY <3>3, <3>4
  <2>2. CASE \E k \in DOMAIN code'[b] : r \in Defs(code'[b][k])
    <3>1. PICK k \in 1 .. n : r \in Defs(code'[b][k])
      BY <1>3, <1>4, <2>2
    <3>2. PICK v \in Variables : Base(v) \in Defs(code[b][k]) /\ r = Version(v, counters[v] + DefsBefore(b, v, k + 1))
      BY <1>3, <1>4, <3>1
    <3>3. counters[v] + DefsBefore(b, v, k + 1) \in counters[v] + 1 .. counters'[v]
      BY <1>6, <1>7, <3>2
    <3> QED BY <3>2, <3>3
  <2> QED BY <1>8, <2>1, <2>2, SitesAre
<1>9. ASSUME NEW r, NEW c \in DefsIn(r, b)', NEW d \in DefsIn(r, b)'
      PROVE  c = d
  <2>1. ASSUME NEW i \in DOMAIN phis[b], NEW j \in DOMAIN phis[b], r \in Defs(phis'[b][i]), r \in Defs(phis'[b][j])
        PROVE  i = j
    <3>1. PhiBase(phis[b][i]) = PhiBase(phis[b][j])
      BY <1>4, <2>1, VersionIs
    <3> QED BY <1>1, <3>1 DEF PhisInv
  <2>2. ASSUME NEW i \in DOMAIN phis[b], NEW k \in 1 .. n, r \in Defs(phis'[b][i]), r \in Defs(code'[b][k])
        PROVE  FALSE
    <3>1. PICK v \in Variables : Base(v) \in Defs(code[b][k]) /\ r = Version(v, counters[v] + DefsBefore(b, v, k + 1))
      BY <1>3, <1>4, <2>2
    <3>2. PICK w : w = PhiBase(phis[b][i])
      OBVIOUS
    <3>3. w \in Variables /\ r = Version(w, counters[w] + 1)
      BY <1>4, <2>2, <3>2
    <3>4. v = w /\ counters[v] + DefsBefore(b, v, k + 1) = counters[w] + 1
      BY <3>1, <3>3, VersionIs
    <3>5. HeadOf(b, v) = 1
      BY <1>5, <3>2, <3>4
    <3> QED BY <1>6, <1>7, <3>1, <3>4, <3>5
  <2>3. ASSUME NEW k \in 1 .. n, NEW m \in 1 .. n, r \in Defs(code'[b][k]), r \in Defs(code'[b][m]), k < m
        PROVE  FALSE
    <3>1. PICK v \in Variables : Base(v) \in Defs(code[b][k]) /\ r = Version(v, counters[v] + DefsBefore(b, v, k + 1))
      BY <1>3, <1>4, <2>3
    <3>2. PICK w \in Variables : Base(w) \in Defs(code[b][m]) /\ r = Version(w, counters[w] + DefsBefore(b, w, m + 1))
      BY <1>3, <1>4, <2>3
    <3>3. v = w /\ counters[v] + DefsBefore(b, v, k + 1) = counters[w] + DefsBefore(b, w, m + 1)
      BY <3>1, <3>2, VersionIs
    <3>4. k \in Nat \ {0} /\ m \in Nat \ {0} /\ Base(v) \in Defs(code[b][m])
      BY <3>2, <3>3
    <3>5. DefsBefore(b, v, k + 1) < DefsBefore(b, v, m + 1)
      BY <1>1, <2>3, <3>4, SitesDiffer
    <3>6. DefsBefore(b, v, k + 1) \in Nat /\ DefsBefore(b, v, m + 1) \in Nat
      BY <1>6, <3>1, <3>4
    <3> QED BY <1>7, <3>3, <3>5, <3>6
  <2>4. \A k, m \in 1 .. n : r \in Defs(code'[b][k]) /\ r \in Defs(code'[b][m]) => k = m
    BY <1>3, <2>3
  <2>5. \/ \E j \in DOMAIN phis[b] : c = <<0, j>> /\ r \in Defs(phis'[b][j])
        \/ \E k \in 1 .. n : c = <<k, 1>> /\ r \in Defs(code'[b][k])
    BY <1>3, <1>4, <1>9, SitesAre
  <2>6. \/ \E j \in DOMAIN phis[b] : d = <<0, j>> /\ r \in Defs(phis'[b][j])
        \/ \E k \in 1 .. n : d = <<k, 1>> /\ r \in Defs(code'[b][k])
    BY <1>3, <1>4, <1>9, SitesAre
  <2> QED BY <2>1, <2>2, <2>4, <2>5, <2>6
<1> QED BY <1>8, <1>9

\* Each of them is given, and in front of the instructions it reaches.
LEMMA NamesAreGiven ==
    ASSUME NEW b, AtBlock(b), DOMAIN defSites \subseteq Nat, RenameBlock,
           NEW v \in Variables, NEW k \in 1 .. Len(code[b]) + 1,
           NEW n \in 1 .. DefsBefore(b, v, k), NEW r, r = Version(v, counters[v] + n)
    PROVE  \E d \in DefsIn(r, b)' : d[1] < k
<1>1. GraphInv /\ PhisInv /\ CountersInv /\ b \in Blocks
  BY DEF AtBlock
<1>2. Len(code[b]) \in Nat /\ DOMAIN code[b] = 1 .. Len(code[b])
  BY NewNames
<1>3. k \in Nat \ {0} /\ \A m \in 1 .. k - 1 : m \in DOMAIN code[b] /\ m < k
  BY <1>2
<1>4. /\ DOMAIN phis'[b] = DOMAIN phis[b] /\ DOMAIN code'[b] = DOMAIN code[b]
      /\ \A j \in DOMAIN phis[b] : Defs(phis'[b][j]) = {Version(PhiBase(phis[b][j]), counters[PhiBase(phis[b][j])] + 1)}
      /\ \A m \in DOMAIN code[b] : \A q : q \in Defs(code'[b][m]) <=>
             \E w \in Variables : Base(w) \in Defs(code[b][m]) /\ q = Version(w, counters[w] + DefsBefore(b, w, m + 1))
  BY NewNames, Zenon
<1>5. CASE n = 1 /\ HeadOf(b, v) = 1
  <2>1. PICK j \in DOMAIN phis[b] : PhiBase(phis[b][j]) = v
    BY <1>1, <1>5, HeadIs
  <2>2. r \in Defs(phis'[b][j])
    BY <1>4, <1>5, <2>1
  <2>3. PICK d : d = <<0, j>>
    OBVIOUS
  <2>4. d \in DefsIn(r, b)'
    BY <1>4, <2>2, <2>3, SitesAre
  <2> QED BY <1>3, <2>3, <2>4
<1>6. CASE \E m \in 1 .. k - 1 : Base(v) \in Defs(code[b][m]) /\ DefsBefore(b, v, m + 1) = n
  <2>1. PICK m \in 1 .. k - 1 : Base(v) \in Defs(code[b][m]) /\ DefsBefore(b, v, m + 1) = n
    BY <1>6
  <2>2. m \in DOMAIN code[b] /\ m < k
    BY <1>3
  <2>3. r \in Defs(code'[b][m])
    BY <1>4, <2>1, <2>2
  <2>4. PICK d : d = <<m, 1>>
    OBVIOUS
  <2>5. d \in DefsIn(r, b)'
    BY <1>4, <2>2, <2>3, <2>4, SitesAre
  <2> QED BY <2>2, <2>4, <2>5
<1>7. \/ n = 1 /\ HeadOf(b, v) = 1
      \/ \E m \in 1 .. k - 1 : Base(v) \in Defs(code[b][m]) /\ DefsBefore(b, v, m + 1) = n
  BY <1>1, <1>3, SiteOf
<1> QED BY <1>5, <1>6, <1>7

\* What reaches an instruction comes from the block, or from where the walk came from.
LEMMA ReachingIsGiven ==
    ASSUME NEW b, AtBlock(b), DOMAIN defSites \subseteq Nat, RenameBlock,
           NEW v \in Variables, NEW k \in 1 .. Len(code[b]) + 1, NEW r, r = Reaching(b, v, k)
    PROVE  r = OnEntry(b, v) \/ \E d \in DefsIn(r, b)' : d[1] < k
<1>1. GraphInv /\ PhisInv
  BY DEF AtBlock
<1>2. PICK n : n = DefsBefore(b, v, k)
  OBVIOUS
<1>3. k \in Nat \ {0} /\ b \in Blocks
  BY NewNames DEF AtBlock
<1>4. n \in Nat
  BY <1>1, <1>2, <1>3, DefsBeforeIs
<1>5. CASE n = 0
  BY <1>2, <1>5 DEF Reaching
<1>6. CASE n # 0
  <2>1. n \in 1 .. DefsBefore(b, v, k) /\ r = Version(v, counters[v] + n)
    BY <1>2, <1>4, <1>6 DEF Reaching
  <2> QED BY <2>1, NamesAreGiven
<1> QED BY <1>5, <1>6

\* The definitions of the other blocks stay the same.
LEMMA OthersKeepNames ==
    ASSUME NEW b, AtBlock(b), DOMAIN defSites \subseteq Nat, RenameBlock, NEW x \in Blocks, x # b
    PROVE  /\ DefinedIn(x)' = DefinedIn(x) /\ \A r : DefsIn(r, x)' = DefsIn(r, x)
           /\ code'[x] = code[x]
<1>1. GraphInv /\ PhisInv /\ CountersInv /\ b \in Blocks /\ DOMAIN code = Blocks /\ b = Last(frames).block
      /\ DOMAIN defSites \subseteq Variables
  BY DEF AtBlock
<1>2. Len(code[b]) \in Nat
  BY NewNames
<1>3. code'[x] = code[x]
  BY <1>1 DEF RenameBlock
<1>4. DOMAIN phis'[x] = DOMAIN phis[x] /\ \A j \in DOMAIN phis[x] : phis'[x][j] = PhiAfter(b, x, j)
  BY <1>1, <1>2, PhisAfter
<1>5. ASSUME NEW j \in DOMAIN phis[x]
      PROVE  Defs(phis'[x][j]) = Defs(phis[x][j])
  <2>1. PICK t : t = phis'[x][j]
    OBVIOUS
  <2>2. /\ t \in PhiInstructions /\ DOMAIN t.ops = DOMAIN phis[x][j].ops
        /\ \A o \in DOMAIN t.ops : t.ops[o].acc = IF o = 1 THEN "W" ELSE "R"
        /\ t.ops[1].regs[1] = phis[x][j].ops[1].regs[1]
    BY <1>1, <1>2, <1>4, <2>1, PhiRenamed
  <2>3. 1 \in DOMAIN t.ops /\ Defs(phis[x][j]) = {phis[x][j].ops[1].regs[1]}
    BY <1>1, <2>2, PhiIs
  <2> QED BY <2>1, <2>2, <2>3, PhiDefines
<1>6. DefinedIn(x)' = DefinedIn(x)
  BY <1>3, <1>4, <1>5 DEF DefinedIn
<1>7. \A r : DefsIn(r, x)' = DefsIn(r, x)
  BY <1>3, <1>4, <1>5 DEF DefsIn
<1> QED BY <1>3, <1>6, <1>7

\* What holds of a name on a stack goes on to hold.
LEMMA SameHolds ==
    ASSUME UNCHANGED prog, Visited \subseteq Visited', \A a \in Visited : DefinedIn(a)' = DefinedIn(a),
           NEW r, NEW a, Holds(r, a)
    PROVE  Holds(r, a)'
BY DEF Holds, IsGiven

\* The calls below the last one stay what they are, and so does their part of the stacks.
LEMMA LowerSegments ==
    ASSUME UNCHANGED prog, Visited \subseteq Visited', \A a \in Visited : DefinedIn(a)' = DefinedIn(a),
           NEW v, NEW m \in Nat, m \in 1 .. Len(frames), NEW h \in [0 .. Len(frames) -> Nat], Segments(v, h),
           NEW i \in 1 .. m - 1, frames'[i] = frames[i],
           \A j \in 1 .. h[m - 1] : stacks'[v][j] = stacks[v][j], \A j \in 1 .. m - 1 : h[j] <= h[m - 1]
    PROVE  /\ h[i] = h[i - 1] + (IF frames'[i].entered THEN frames'[i].pushed[v] ELSE 0)
           /\ \A j \in h[i - 1] + 1 .. h[i] : Holds(stacks[v][j], frames[i].block)'
<1>1. i \in 1 .. Len(frames)
  OBVIOUS
<1>2. /\ h[i] = h[i - 1] + (IF frames[i].entered THEN frames[i].pushed[v] ELSE 0)
      /\ \A j \in h[i - 1] + 1 .. h[i] : Holds(stacks[v][j], frames[i].block)
  BY <1>1 DEF Segments
<1>3. ASSUME NEW j \in h[i - 1] + 1 .. h[i]
      PROVE  Holds(stacks[v][j], frames[i].block)'
  <2>1. PICK r : r = stacks[v][j]
    OBVIOUS
  <2>2. PICK a : a = frames[i].block
    OBVIOUS
  <2>3. Holds(r, a)
    BY <1>2, <2>1, <2>2
  <2>4. Holds(r, a)'
    BY <2>3, SameHolds
  <2>5. h[i - 1] \in Nat /\ h[i] <= h[m - 1] /\ h[i] \in Nat /\ h[m - 1] \in Nat
    BY <1>1
  <2>6. j \in 1 .. h[m - 1]
    BY <2>5
  <2>7. r = stacks'[v][j] /\ a = frames'[i].block
    BY <2>1, <2>2, <2>6
  <2> QED BY <2>4, <2>7
<1> QED BY <1>2, <1>3

\* The parts of a stack follow one another.
LEMMA SegmentsGrow ==
    ASSUME FramesInv, NEW v \in Variables, NEW h \in [0 .. Len(frames) -> Nat], Segments(v, h),
           NEW m \in 0 .. Len(frames)
    PROVE  \A j \in 0 .. m : h[j] <= h[m]
<1>1. Len(frames) \in Nat
  BY DEF FramesInv
<1>2. \A i \in 1 .. Len(frames) : i - 1 \in 0 .. Len(frames) /\ h[i - 1] \in Nat /\ h[i] \in Nat
  BY <1>1
<1>3. ASSUME NEW i \in 1 .. Len(frames) PROVE h[i - 1] <= h[i]
  <2>1. h[i] = h[i - 1] + (IF frames[i].entered THEN frames[i].pushed[v] ELSE 0)
    BY DEF Segments
  <2>2. frames[i].entered => frames[i].pushed[v] \in Nat
    BY DEF FramesInv, FrameInv
  <2> QED BY <1>2, <2>1, <2>2
<1>4. PICK T : T = {n \in Nat : n <= Len(frames) => \A j \in 0 .. n : h[j] <= h[n]}
  OBVIOUS
<1>5. 0 \in T
  <2>1. h[0] \in Nat
    BY <1>1
  <2> QED BY <1>4, <2>1
<1>6. ASSUME NEW n \in T PROVE n + 1 \in T
  <2>1. n \in Nat
    BY <1>4
  <2>2. ASSUME n + 1 <= Len(frames), NEW j \in 0 .. n + 1 PROVE h[j] <= h[n + 1]
    <3>1. PICK i \in 1 .. Len(frames) : i = n + 1 /\ i - 1 = n /\ n <= Len(frames)
      BY <1>1, <2>1, <2>2
    <3>2. h[n] <= h[n + 1] /\ h[n] \in Nat /\ h[n + 1] \in Nat
      <4>1. h[i - 1] <= h[i] /\ h[i - 1] \in Nat /\ h[i] \in Nat
        BY <1>2, <1>3
      <4> QED BY <3>1, <4>1
    <3>3. CASE j = n + 1
      BY <3>2, <3>3
    <3>4. CASE j \in 0 .. n
      <4>1. h[j] <= h[n]
        BY <1>4, <3>1, <3>4
      <4>2. h[j] \in Nat
        BY <1>1, <2>1, <3>1, <3>4
      <4> QED BY <3>2, <4>1, <4>2
    <3> QED BY <2>1, <3>3, <3>4
  <2> QED BY <1>4, <2>1, <2>2
<1>7. T = Nat
  BY <1>4, <1>5, <1>6, InductionOver
<1> QED BY <1>1, <1>4, <1>7

\* What is on top where the walk enters a block reaches the end of the block it comes from.
LEMMA OnEntryIs ==
    ASSUME TreeReady, FramesInv, StackInv, CountersInv, NEW b, frames # <<>>, b = Last(frames).block,
           NEW v \in Variables
    PROVE  ReachesEnd(OnEntry(b, v), b)
<1>1. PICK m \in Nat : m = Len(frames) /\ m > 0 /\ b = frames[m].block
  BY DEF FramesInv, Last
<1>2. CASE stacks[v] = <<>>
  BY <1>2, VersionIs DEF OnEntry, ReachesEnd
<1>3. CASE stacks[v] # <<>>
  <2>1. PICK h \in [0 .. m -> Nat] : Segments(v, h)
    BY <1>1 DEF StackInv
  <2>2. PICK n \in Nat : n = Len(stacks[v]) /\ n > 0
    BY <1>3 DEF CountersInv
  <2>3. h[0] = 0 /\ h[m] = n
    BY <1>1, <2>1, <2>2 DEF Segments
  <2>4. PICK T : T = {i \in 0 .. m : h[i] >= n}
    OBVIOUS
  <2>5. m \in T /\ T \in SUBSET Nat
    BY <2>2, <2>3, <2>4
  <2>6. PICK i \in T : \A k \in T : i <= k
    BY <2>5, LeastOf
  <2>7. i \in 1 .. m /\ h[i] >= n /\ h[i - 1] < n /\ h[i - 1] \in Nat /\ h[i] \in Nat
    <3>1. i \in 0 .. m /\ h[i] >= n
      BY <2>4, <2>6
    <3>2. i # 0
      BY <2>2, <2>3, <3>1
    <3>3. i - 1 \in 0 .. m /\ i - 1 \notin T
      BY <1>1, <2>6, <3>1, <3>2
    <3> QED BY <2>4, <3>1, <3>2, <3>3
  <2>8. n \in h[i - 1] + 1 .. h[i]
    BY <2>7
  <2>9. Holds(stacks[v][n], frames[i].block)
    BY <1>1, <2>1, <2>7, <2>8 DEF Segments
  <2>10. OnEntry(b, v) = stacks[v][n]
    BY <1>3, <2>2 DEF OnEntry, Last
  <2>11. frames[i].block \in Above(idom, b)
    <3>1. m \in 1 .. Len(frames) /\ i \in 1 .. m
      BY <1>1, <2>7
    <3> QED BY <1>1, <3>1, FramesAreAbove
  <2> QED BY <2>9, <2>10, <2>11 DEF Holds, ReachesEnd
<1> QED BY <1>2, <1>3

\* The stacks where renaming begins, empty.
LEMMA StacksBegin ==
    ASSUME UNCHANGED <<prog, idom, defSites>>, frames' = <<Frame(Entry)>>, stacks' = [v \in Variables |-> <<>>]
    PROVE  StackInv'
<1>1. Variables' = Variables
  BY SameSurroundings
<1>2. PICK f : f = Frame(Entry)
  OBVIOUS
<1>3. Len(frames') = 1 /\ frames'[1] = f /\ ~f.entered
  BY <1>2 DEF Frame
<1>4. ASSUME NEW v \in Variables
      PROVE  \E h \in [0 .. Len(frames') -> Nat] : Segments(v, h)'
  <2>1. PICK h : h = [i \in 0 .. 1 |-> 0]
    OBVIOUS
  <2>2. h \in [0 .. Len(frames') -> Nat] /\ h[0] = 0 /\ h[1] = 0
    BY <1>3, <2>1
  <2>3. stacks'[v] = <<>>
    OBVIOUS
  <2>4. \A i \in 1 .. Len(frames') : i = 1 /\ i - 1 = 0
    BY <1>3
  <2>5. \A j \in h[0] + 1 .. h[1] : FALSE
    BY <2>2
  <2>6. Segments(v, h)'
    <3>1. Len(stacks'[v]) = 0
      BY <2>3
    <3>2. h[0] = 0 /\ h[Len(frames')] = Len(stacks'[v])
      BY <1>3, <2>2, <3>1
    <3>3. ASSUME NEW i \in 1 .. Len(frames')
          PROVE  /\ h[i] = h[i - 1] + (IF frames'[i].entered THEN frames'[i].pushed[v] ELSE 0)
                 /\ \A j \in h[i - 1] + 1 .. h[i] : FALSE
      BY <1>3, <2>2, <2>4, <2>5
    <3> QED BY <3>2, <3>3 DEF Segments
  <2> QED BY <2>2, <2>6
<1> QED BY <1>1, <1>4 DEF StackInv

\* A call for a child has pushed nothing.
LEMMA DescendKeepsStacks ==
    ASSUME TreeReady, FramesInv, StackInv, Descend PROVE StackInv'
<1>1. PICK old : old = Last(frames)
  OBVIOUS
<1>2. PICK top : top = [old EXCEPT !.children = Tail(old.children)]
  OBVIOUS
<1>3. PICK new : new = Frame(Head(old.children))
  OBVIOUS
<1>4. /\ UNCHANGED <<prog, idom, defSites, phase, phis, code, stacks>> /\ frames # <<>>
      /\ old.children # <<>> /\ frames' = Append(Append(Front(frames), top), new)
  BY <1>1, <1>2, <1>3 DEF Descend, dominance
<1>5. Variables' = Variables /\ Visited' = Visited
  BY <1>4, SameSurroundings, DescendKeepsWalk
<1>6. PICK m \in Nat : m = Len(frames) /\ m > 0
  BY <1>4 DEF FramesInv
<1>7. frames \in Seq(Frames) /\ old = frames[m] /\ old \in Frames /\ m \in 1 .. m
  <2>1. frames \in Seq(Frames)
    BY DEF FramesInv
  <2> QED BY <1>1, <1>4, <1>6, <2>1, ListShortened
<1>8. top.block = old.block /\ top.entered = old.entered /\ top.pushed = old.pushed /\ ~new.entered
  BY <1>2, <1>3, <1>7 DEF Frames, Frame
<1>9. /\ Len(frames') = m + 1 /\ (\A i \in 1 .. m - 1 : frames'[i] = frames[i])
      /\ frames'[m] = top /\ frames'[m + 1] = new
  <2>1. PICK S : S = Frames \cup {top, new}
    OBVIOUS
  <2>2. frames \in Seq(S) /\ top \in S /\ new \in S
    BY <1>7, <2>1
  <2>3. PICK f : f = Front(frames)
    OBVIOUS
  <2>4. f \in Seq(S) /\ Len(f) = m - 1 /\ \A i \in 1 .. m - 1 : f[i] = frames[i]
    BY <1>4, <1>6, <2>2, <2>3, ListShortened
  <2>5. PICK g : g = Append(f, top)
    OBVIOUS
  <2>6. g \in Seq(S) /\ Len(g) = m /\ g[m] = top /\ \A i \in 1 .. m - 1 : g[i] = frames[i]
    BY <1>6, <2>2, <2>4, <2>5, ListAppended
  <2>7. frames' = Append(g, new)
    BY <1>4, <2>3, <2>5
  <2>8. Len(frames') = m + 1 /\ frames'[m + 1] = new /\ \A i \in 1 .. m : frames'[i] = g[i]
    BY <2>2, <2>6, <2>7, ListAppended
  <2>9. m \in 1 .. m /\ \A i \in 1 .. m - 1 : i \in 1 .. m
    BY <1>6
  <2> QED BY <2>6, <2>8, <2>9
<1>10. \A a \in Visited : DefinedIn(a)' = DefinedIn(a)
  BY <1>4 DEF DefinedIn
<1>11. ASSUME NEW v \in Variables
       PROVE  \E h \in [0 .. Len(frames') -> Nat] : Segments(v, h)'
  <2>1. PICK h \in [0 .. m -> Nat] : Segments(v, h)
    BY <1>6 DEF StackInv
  <2>2. PICK k : k = [i \in 0 .. m + 1 |-> IF i = m + 1 THEN h[m] ELSE h[i]]
    OBVIOUS
  <2>3. k \in [0 .. m + 1 -> Nat] /\ k[m + 1] = h[m] /\ \A i \in 0 .. m : k[i] = h[i]
    BY <1>6, <2>1, <2>2
  <2>4. h[0] = 0 /\ h[m] = Len(stacks[v])
    BY <1>6, <2>1 DEF Segments
  <2>5. \A i \in 1 .. m : /\ h[i] = h[i - 1] + (IF frames[i].entered THEN frames[i].pushed[v] ELSE 0)
                          /\ \A j \in h[i - 1] + 1 .. h[i] : Holds(stacks[v][j], frames[i].block)
    BY <1>6, <2>1 DEF Segments
  <2>6. ASSUME NEW i \in 1 .. m
        PROVE  /\ frames'[i].entered = frames[i].entered /\ frames'[i].pushed = frames[i].pushed
               /\ frames'[i].block = frames[i].block /\ i - 1 \in 0 .. m /\ i \in 0 .. m
    <3>1. i = m \/ i \in 1 .. m - 1
      BY <1>6
    <3> QED BY <1>6, <1>7, <1>8, <1>9, <3>1
  <2>7. ASSUME NEW i \in 1 .. m
        PROVE  /\ k[i] = k[i - 1] + (IF frames'[i].entered THEN frames'[i].pushed[v] ELSE 0)
               /\ \A j \in k[i - 1] + 1 .. k[i] : Holds(stacks[v][j], frames[i].block)'
    <3>1. k[i] = h[i] /\ k[i - 1] = h[i - 1]
      BY <2>3, <2>6
    <3>2. k[i] = k[i - 1] + (IF frames'[i].entered THEN frames'[i].pushed[v] ELSE 0)
      BY <2>5, <2>6, <3>1
    <3>3. ASSUME NEW j \in k[i - 1] + 1 .. k[i] PROVE Holds(stacks[v][j], frames[i].block)'
      <4>1. PICK r, a : r = stacks[v][j] /\ a = frames[i].block
        OBVIOUS
      <4>2. Holds(r, a)
        BY <2>5, <3>1, <3>3, <4>1
      <4>3. Holds(r, a)'
        BY <1>4, <1>5, <1>10, <4>2, SameHolds
      <4>4. r = stacks'[v][j] /\ a = frames'[i].block
        BY <1>4, <2>6, <4>1
      <4> QED BY <4>3, <4>4
    <3> QED BY <3>2, <3>3
  <2>8. k[m + 1] = k[m + 1 - 1] + 0 /\ ~frames'[m + 1].entered /\ \A j \in k[m + 1 - 1] + 1 .. k[m + 1] : FALSE
    <3>1. m + 1 - 1 = m /\ k[m] = h[m] /\ h[m] \in Nat
      BY <1>6, <2>1, <2>3
    <3> QED BY <1>8, <1>9, <2>3, <3>1
  <2>9. \A i \in 1 .. m + 1 : i = m + 1 \/ i \in 1 .. m
    BY <1>6
  <2>10. ASSUME NEW i \in 1 .. m + 1
         PROVE  /\ k[i] = k[i - 1] + (IF frames'[i].entered THEN frames'[i].pushed[v] ELSE 0)
                /\ \A j \in k[i - 1] + 1 .. k[i] : Holds(stacks[v][j], frames[i].block)'
    <3>1. CASE i = m + 1
      BY <2>8, <3>1
    <3>2. CASE i \in 1 .. m
      BY <2>7, <3>2
    <3> QED BY <2>9, <3>1, <3>2
  <2>11. Segments(v, k)'
    <3>1. k[0] = 0 /\ k[Len(frames')] = Len(stacks'[v])
      BY <1>4, <1>6, <1>9, <2>3, <2>4
    <3> QED BY <1>9, <2>10, <3>1 DEF Segments
  <2> QED BY <1>9, <2>3, <2>11
<1> QED BY <1>5, <1>11 DEF StackInv

\* A call that returns takes what it has pushed.
LEMMA LeaveKeepsStacks ==
    ASSUME TreeReady, FramesInv, StackInv, CountersInv, Leave PROVE StackInv' /\ CountersInv'
<1>1. /\ UNCHANGED <<prog, idom, defSites, phis, code, counters>> /\ frames # <<>> /\ Last(frames).entered
      /\ frames' = Front(frames) /\ stacks' = [v \in DOMAIN stacks |-> Popped(stacks[v], Last(frames).pushed[v])]
  BY DEF Leave, dominance
<1>2. Variables' = Variables /\ Visited' = Visited
  BY <1>1, SameSurroundings, LeaveKeepsWalk
<1>3. PICK m \in Nat : m = Len(frames) /\ m > 0
  BY <1>1 DEF FramesInv
<1>4. Len(frames') = m - 1 /\ (\A i \in 1 .. m - 1 : frames'[i] = frames[i]) /\ Last(frames) = frames[m]
  <2>1. frames \in Seq(Frames)
    BY DEF FramesInv
  <2> QED BY <1>1, <1>3, <2>1, ListShortened
<1>5. \A a \in Visited : DefinedIn(a)' = DefinedIn(a)
  BY <1>1 DEF DefinedIn
<1>6. ASSUME NEW v \in Variables
      PROVE  /\ stacks'[v] \in Seq(RegisterNames)
             /\ \E h \in [0 .. Len(frames') -> Nat] : Segments(v, h)'
  <2>1. PICK h \in [0 .. m -> Nat] : Segments(v, h)
    BY <1>3 DEF StackInv
  <2>2. m - 1 \in 0 .. m /\ m \in 0 .. m /\ m \in 1 .. m /\ m - 1 \in Nat
    BY <1>3
  <2>3. h[0] = 0 /\ h[m] = Len(stacks[v]) /\ h[m] = h[m - 1] + frames[m].pushed[v]
    BY <1>1, <1>3, <1>4, <2>1, <2>2 DEF Segments
  <2>4. h[m - 1] \in Nat /\ h[m] \in Nat
    BY <2>1, <2>2
  <2>5. frames[m].pushed[v] \in Nat
    BY <1>1, <1>3, <1>4, <2>2 DEF FramesInv, FrameInv
  <2>6. v \in DOMAIN stacks /\ stacks[v] \in Seq(RegisterNames)
    BY DEF CountersInv
  <2>7. PICK n : n = frames[m].pushed[v]
    OBVIOUS
  <2>8. PICK old \in Seq(RegisterNames) : old = stacks[v] /\ Len(old) = h[m]
    BY <2>3, <2>6
  <2>9. stacks'[v] = SubSeq(old, 1, Len(old) - n)
    BY <1>1, <1>4, <2>6, <2>7, <2>8 DEF Popped
  <2>10. Len(old) - n = h[m - 1] /\ h[m - 1] <= Len(old)
    BY <2>3, <2>4, <2>5, <2>7, <2>8
  <2>11. /\ stacks'[v] \in Seq(RegisterNames) /\ Len(stacks'[v]) = h[m - 1]
         /\ \A j \in 1 .. h[m - 1] : stacks'[v][j] = stacks[v][j]
    BY <2>4, <2>8, <2>9, <2>10
  <2>12. PICK k : k = [i \in 0 .. m - 1 |-> h[i]]
    OBVIOUS
  <2>13. k \in [0 .. m - 1 -> Nat] /\ \A i \in 0 .. m - 1 : k[i] = h[i]
    BY <1>3, <2>1, <2>12
  <2>14. \A j \in 0 .. m - 1 : h[j] <= h[m - 1]
    BY <1>3, <2>1, <2>2, SegmentsGrow
  <2>15. \A j \in 1 .. m - 1 : h[j] <= h[m - 1]
    BY <1>3, <2>14
  <2>16. ASSUME NEW i \in 1 .. m - 1
         PROVE  /\ k[i] = k[i - 1] + (IF frames'[i].entered THEN frames'[i].pushed[v] ELSE 0)
                /\ \A j \in k[i - 1] + 1 .. k[i] : Holds(stacks[v][j], frames[i].block)'
    <3>1. i \in 0 .. m - 1 /\ i - 1 \in 0 .. m - 1 /\ m \in 1 .. Len(frames)
      BY <1>3
    <3>2. k[i] = h[i] /\ k[i - 1] = h[i - 1]
      BY <2>13, <3>1
    <3>3. /\ h[i] = h[i - 1] + (IF frames'[i].entered THEN frames'[i].pushed[v] ELSE 0)
          /\ \A j \in h[i - 1] + 1 .. h[i] : Holds(stacks[v][j], frames[i].block)'
      <4>1. h \in [0 .. Len(frames) -> Nat]
        BY <1>3, <2>1
      <4>2. frames'[i] = frames[i]
        BY <1>4
      <4>3. UNCHANGED prog /\ Visited \subseteq Visited'
        BY <1>1, <1>2
      <4> QED BY <1>5, <2>1, <2>11, <2>15, <3>1, <4>1, <4>2, <4>3, LowerSegments
    <3> QED BY <3>2, <3>3
  <2>17. Segments(v, k)'
    <3>1. 0 \in 0 .. m - 1 /\ m - 1 \in 0 .. m - 1
      BY <1>3
    <3>2. k[0] = 0 /\ k[Len(frames')] = Len(stacks'[v])
      BY <1>4, <2>3, <2>11, <2>13, <3>1
    <3> QED BY <1>4, <2>16, <3>2 DEF Segments
  <2> QED BY <1>4, <2>11, <2>13, <2>17
<1>7. stacks' \in [Variables -> Seq(RegisterNames)]
  <2>1. DOMAIN stacks' = Variables /\ stacks' = [v \in Variables |-> stacks'[v]]
    BY <1>1 DEF CountersInv
  <2> QED BY <1>6, <2>1
<1> QED BY <1>1, <1>2, <1>6, <1>7 DEF StackInv, CountersInv

\* The block of the last call, where it is to be renamed.
LEMMA BlockIsWaiting ==
    ASSUME TreeReady, PhisInv, PlaceInv, FramesInv, NamesInv, frames # <<>>, ~Last(frames).entered,
           NEW b, b = Last(frames).block
    PROVE  AtBlock(b) /\ DOMAIN defSites \subseteq Nat /\ b \in Reached \ Visited
<1>1. PICK m \in Nat : m = Len(frames) /\ m > 0 /\ b = frames[m].block /\ ~frames[m].entered
  BY DEF FramesInv, Last
<1>2. m \in 1 .. Len(frames)
  BY <1>1
<1>3. b \in Reached
  BY <1>1, <1>2 DEF FramesInv, FrameInv
<1>4. b \in Waiting
  BY <1>1, <1>2, WaitingIs
<1>5. b \notin Visited
  BY <1>3, <1>4, TreeIs DEF Visited
<1>6. b \in Blocks /\ GraphInv
  BY <1>3, TreeIs DEF TreeReady
<1>7. prog \in Programs /\ DOMAIN defSites \subseteq Nat
  BY DEF PlaceInv
<1>8. Variables \in SUBSET Nat /\ DOMAIN defSites \subseteq Variables
  BY <1>7, VariablesAre
<1>9. CountersInv /\ DOMAIN code = Blocks /\ code[b] = prog.body[b]
  BY <1>5, <1>6, <1>8 DEF NamesInv, CountersInv
<1> QED BY <1>3, <1>5, <1>6, <1>7, <1>8, <1>9 DEF AtBlock

\* The last call renames its block and goes on to the children.
LEMMA BlockKeepsWalk ==
    ASSUME TreeReady, FramesInv, NEW b, AtBlock(b), DOMAIN defSites \subseteq Nat, b \in Reached \ Visited, RenameBlock
    PROVE  /\ FramesInv' /\ Visited' = Visited \cup {b}
           /\ Len(frames') = Len(frames) /\ Len(frames) \in Nat \ {0}
           /\ \A i \in 1 .. Len(frames) - 1 : frames'[i] = frames[i]
           /\ frames[Len(frames)].block = b /\ ~frames[Len(frames)].entered
           /\ frames'[Len(frames)].block = b /\ frames'[Len(frames)].entered
           /\ \A v \in Variables : frames'[Len(frames)].pushed[v] = Pushed(b, v)
<1>1. /\ phase = "rename" /\ frames # <<>> /\ ~Last(frames).entered /\ b = Last(frames).block
      /\ UNCHANGED <<prog, phase, idom, defSites>>
  BY DEF RenameBlock, AtBlock, dominance
<1>2. PICK pushed : pushed = [v \in Variables |-> Pushed(b, v)]
  OBVIOUS
<1>3. DOMAIN stacks = Variables
  BY DEF AtBlock, CountersInv
<1>4. PICK frame : frame = [block |-> b, entered |-> TRUE, children |-> DomChildren(b), pushed |-> pushed]
  OBVIOUS
<1>5. frames' = Append(Front(frames), frame)
  BY <1>1, <1>2, <1>3, <1>4 DEF RenameBlock
<1>6. \A v \in Variables : Pushed(b, v) \in Nat
  <2>1. \A v \in Variables : AllDefs(b, v) \in Nat
    BY StacksAfter
  <2> QED BY <2>1 DEF Pushed, AllDefs
<1>7. pushed \in [Variables -> Nat] /\ \A v \in Variables : pushed[v] = Pushed(b, v)
  BY <1>2, <1>6
<1>8. DomChildren(b) \in Seq(Blocks)
  BY ChildrenAre
<1>9. frame \in Frames /\ frame.block = b /\ frame.entered /\ frame.children = DomChildren(b) /\ frame.pushed = pushed
  BY <1>4, <1>7, <1>8, TreeIs DEF Frames, AtBlock
<1>10. FramesInv' /\ Visited' = Visited \cup {b}
  BY <1>1, <1>5, <1>7, <1>9, BlockIsVisited
<1>11. PICK m \in Nat : m = Len(frames) /\ m > 0
  BY <1>1 DEF FramesInv
<1>12. frames \in Seq(Frames) /\ Last(frames) = frames[m]
  BY <1>11 DEF FramesInv, Last
<1>13. Len(frames') = m /\ frames'[m] = frame /\ \A i \in 1 .. m - 1 : frames'[i] = frames[i]
  <2>1. PICK t : t = Front(frames)
    OBVIOUS
  <2>2. t \in Seq(Frames) /\ Len(t) = m - 1 /\ \A i \in 1 .. m - 1 : t[i] = frames[i]
    BY <1>1, <1>11, <1>12, <2>1, ListShortened
  <2> QED BY <1>5, <1>9, <1>11, <2>1, <2>2, ListAppended
<1> QED BY <1>1, <1>7, <1>9, <1>10, <1>11, <1>12, <1>13

\* The definitions of the blocks that were visited before stay the same.
LEMMA VisitedKeepNames ==
    ASSUME TreeReady, NEW b, AtBlock(b), DOMAIN defSites \subseteq Nat, b \notin Visited, RenameBlock
    PROVE  \A a \in Visited : /\ DefinedIn(a)' = DefinedIn(a) /\ (\A r : DefsIn(r, a)' = DefsIn(r, a))
                              /\ code'[a] = code[a] /\ a \in Blocks /\ a # b
<1>1. \A a \in Visited : a \in Blocks /\ a # b
  BY TreeIs DEF Visited
<1> QED BY <1>1, OthersKeepNames

\* Renaming a block pushes names of its definitions, or its arguments.
LEMMA BlockKeepsStacks ==
    ASSUME TreeReady, FramesInv, StackInv, NEW b, AtBlock(b), DOMAIN defSites \subseteq Nat, b \in Reached \ Visited, RenameBlock
    PROVE  StackInv' /\ counters' \in [Variables -> Nat] /\ stacks' \in [Variables -> Seq(RegisterNames)]
<1>1. UNCHANGED <<prog, idom, defSites>>
  BY DEF RenameBlock, dominance
<1>2. Variables' = Variables /\ Visited' = Visited \cup {b}
  BY <1>1, SameSurroundings, BlockKeepsWalk
<1>3. PICK m \in Nat : m = Len(frames) /\ m > 0
  BY BlockKeepsWalk
<1>4. /\ Len(frames') = m /\ \A i \in 1 .. m - 1 : frames'[i] = frames[i]
      /\ frames[m].block = b /\ ~frames[m].entered /\ frames'[m].block = b /\ frames'[m].entered
      /\ \A v \in Variables : frames'[m].pushed[v] = Pushed(b, v)
  BY <1>3, BlockKeepsWalk
<1>5. \A a \in Visited : DefinedIn(a)' = DefinedIn(a)
  BY VisitedKeepNames
<1>6. ASSUME NEW v \in Variables
      PROVE  \E h \in [0 .. Len(frames') -> Nat] : Segments(v, h)'
  <2>1. PICK h \in [0 .. m -> Nat] : Segments(v, h)
    BY <1>3 DEF StackInv
  <2>2. m - 1 \in 0 .. m /\ m \in 0 .. m /\ m \in 1 .. m /\ m - 1 \in Nat
    BY <1>3
  <2>3. h[0] = 0 /\ h[m] = Len(stacks[v]) /\ h[m] = h[m - 1] + 0 /\ h[m - 1] \in Nat /\ h[m] \in Nat
    BY <1>3, <1>4, <2>1, <2>2 DEF Segments
  <2>4. PICK args \in {0, 1} : args = IF b = Entry /\ v \in prog.params THEN 1 ELSE 0
    OBVIOUS
  <2>5. PICK all \in Nat : all = AllDefs(b, v)
    BY StacksAfter
  <2>6. PICK old \in Nat : old = h[m] /\ old = h[m - 1] /\ old = Len(stacks[v])
    BY <2>3
  <2>7. /\ Len(stacks'[v]) = old + args + all
        /\ \A i \in 1 .. old : stacks'[v][i] = stacks[v][i]
        /\ args = 1 => stacks'[v][old + 1] = Base(v)
        /\ \A n \in 1 .. all : stacks'[v][old + args + n] = Version(v, counters[v] + n)
    <3>1. LET extra == IF b = Entry /\ v \in prog.params THEN 1 ELSE 0
              under == stacks[v]
          IN  /\ Len(stacks'[v]) = Len(under) + extra + AllDefs(b, v)
              /\ \A i \in 1 .. Len(under) : stacks'[v][i] = under[i]
              /\ extra = 1 => stacks'[v][Len(under) + 1] = Base(v)
              /\ \A n \in 1 .. AllDefs(b, v) : stacks'[v][Len(under) + extra + n] = Version(v, counters[v] + n)
      BY StacksAfter
    <3>2. CASE b = Entry /\ v \in prog.params
      BY <2>4, <2>5, <2>6, <3>1, <3>2
    <3>3. CASE ~(b = Entry /\ v \in prog.params)
      BY <2>4, <2>5, <2>6, <3>1, <3>3
    <3> QED BY <3>2, <3>3
  <2>8. Pushed(b, v) = args + all
    BY <2>4, <2>5 DEF Pushed, AllDefs
  <2>9. PICK k : k = [i \in 0 .. m |-> IF i = m THEN old + args + all ELSE h[i]]
    OBVIOUS
  <2>10. k \in [0 .. m -> Nat] /\ k[m] = old + args + all /\ \A i \in 0 .. m - 1 : k[i] = h[i]
    BY <1>3, <2>1, <2>9
  <2>11. \A j \in 1 .. m - 1 : h[j] <= h[m - 1]
    <3>1. \A j \in 0 .. m - 1 : h[j] <= h[m - 1]
      BY <1>3, <2>1, <2>2, SegmentsGrow
    <3> QED BY <1>3, <3>1
  <2>12. ASSUME NEW i \in 1 .. m - 1
         PROVE  /\ k[i] = k[i - 1] + (IF frames'[i].entered THEN frames'[i].pushed[v] ELSE 0)
                /\ \A j \in k[i - 1] + 1 .. k[i] : Holds(stacks[v][j], frames[i].block)'
    <3>1. i \in 0 .. m - 1 /\ i - 1 \in 0 .. m - 1 /\ m \in 1 .. Len(frames)
      BY <1>3
    <3>2. k[i] = h[i] /\ k[i - 1] = h[i - 1]
      BY <2>10, <3>1
    <3>3. /\ h[i] = h[i - 1] + (IF frames'[i].entered THEN frames'[i].pushed[v] ELSE 0)
          /\ \A j \in h[i - 1] + 1 .. h[i] : Holds(stacks[v][j], frames[i].block)'
      <4>1. h \in [0 .. Len(frames) -> Nat]
        BY <1>3, <2>1
      <4>2. frames'[i] = frames[i]
        BY <1>4
      <4>3. UNCHANGED prog /\ Visited \subseteq Visited'
        BY <1>1, <1>2
      <4>4. \A j \in 1 .. h[m - 1] : stacks'[v][j] = stacks[v][j]
        BY <2>6, <2>7
      <4> QED BY <1>5, <2>1, <2>11, <3>1, <4>1, <4>2, <4>3, <4>4, LowerSegments
    <3> QED BY <3>2, <3>3
  <2>13. k[m] = k[m - 1] + (IF frames'[m].entered THEN frames'[m].pushed[v] ELSE 0)
    <3>1. m - 1 \in 0 .. m - 1
      BY <1>3
    <3>2. k[m - 1] = old
      BY <2>6, <2>10, <3>1
    <3>3. frames'[m].entered /\ frames'[m].pushed[v] = args + all
      BY <1>4, <2>8
    <3> QED BY <2>10, <3>2, <3>3
  <2>14. ASSUME NEW j \in k[m - 1] + 1 .. k[m]
         PROVE  Holds(stacks[v][j], frames[m].block)'
    <3>1. PICK r : r = stacks'[v][j]
      OBVIOUS
    <3>2. k[m - 1] = old /\ k[m] = old + args + all
      <4>1. m - 1 \in 0 .. m - 1
        BY <1>3
      <4> QED BY <2>6, <2>10, <4>1
    <3>3. CASE args = 1 /\ j = old + 1
      <4>1. r = Base(v) /\ v \in prog.params
        BY <2>4, <2>7, <3>1, <3>3
      <4>2. IsGiven(r)
        BY <4>1, VersionIs
      <4>3. IsGiven(r)'
        BY <1>1, <4>2 DEF IsGiven
      <4>4. Holds(r, b)'
        BY <4>3 DEF Holds
      <4> QED BY <1>4, <3>1, <4>4
    <3>4. CASE ~(args = 1 /\ j = old + 1)
      <4>1. PICK n \in 1 .. all : j = old + args + n
        <5>1. j - old - args \in 1 .. all
          BY <2>4, <3>2, <3>4
        <5>2. j = old + args + (j - old - args)
          BY <3>2
        <5> QED BY <5>1, <5>2
      <4>2. r = Version(v, counters[v] + n)
        BY <2>7, <3>1, <4>1
      <4>3. Len(code[b]) + 1 \in 1 .. Len(code[b]) + 1
        BY NewNames
      <4>4. n \in 1 .. DefsBefore(b, v, Len(code[b]) + 1)
        BY <2>5 DEF AllDefs
      <4>5. \E d \in DefsIn(r, b)' : d[1] < Len(code[b]) + 1
        BY <4>2, <4>3, <4>4, NamesAreGiven
      <4>6. r \in DefinedIn(b)'
        BY <4>5, SitesAre
      <4>7. Holds(r, b)'
        BY <1>2, <4>6 DEF Holds
      <4> QED BY <1>4, <3>1, <4>7
    <3> QED BY <3>3, <3>4
  <2>15. ASSUME NEW i \in 1 .. m
         PROVE  /\ k[i] = k[i - 1] + (IF frames'[i].entered THEN frames'[i].pushed[v] ELSE 0)
                /\ \A j \in k[i - 1] + 1 .. k[i] : Holds(stacks[v][j], frames[i].block)'
    <3>1. CASE i = m
      BY <2>13, <2>14, <3>1
    <3>2. CASE i \in 1 .. m - 1
      BY <2>12, <3>2
    <3>3. i = m \/ i \in 1 .. m - 1
      BY <1>3
    <3> QED BY <3>1, <3>2, <3>3
  <2>16. Segments(v, k)'
    <3>1. k[0] = 0 /\ k[Len(frames')] = Len(stacks'[v])
      <4>1. 0 \in 0 .. m - 1
        BY <1>3
      <4> QED BY <1>4, <2>3, <2>7, <2>10, <4>1
    <3> QED BY <1>4, <2>15, <3>1 DEF Segments
  <2> QED BY <1>4, <2>10, <2>16
<1>7. stacks' \in [Variables -> Seq(RegisterNames)] /\ counters' \in [Variables -> Nat]
  <2>1. DOMAIN stacks = Variables /\ DOMAIN counters = Variables
    BY DEF AtBlock, CountersInv
  <2>2. stacks' = [v \in Variables |-> stacks'[v]] /\ counters' = [v \in Variables |-> counters'[v]]
    BY <2>1 DEF RenameBlock
  <2>3. \A v \in Variables : stacks'[v] \in Seq(RegisterNames) /\ counters'[v] \in Nat
    <3> SUFFICES ASSUME NEW v \in Variables PROVE stacks'[v] \in Seq(RegisterNames) /\ counters'[v] \in Nat
      OBVIOUS
    <3>1. /\ AllDefs(b, v) \in Nat /\ counters[v] \in Nat /\ counters'[v] = counters[v] + AllDefs(b, v)
          /\ stacks'[v] \in Seq(RegisterNames)
      BY StacksAfter
    <3> QED BY <3>1
  <2> QED BY <2>2, <2>3
<1> QED BY <1>2, <1>6, <1>7 DEF StackInv

\* What reaches the end of a block, and what is in front of an instruction, goes on to do so.
LEMMA ReachesEndStays ==
    ASSUME UNCHANGED <<prog, idom, defSites>>, Visited \subseteq Visited',
           \A a \in Visited : DefinedIn(a)' = DefinedIn(a), NEW r, NEW b, ReachesEnd(r, b)
    PROVE  ReachesEnd(r, b)'
<1>1. \A x : Above(idom, x)' = Above(idom, x)
  BY SameSurroundings
<1>2. IsGiven(r)' = IsGiven(r)
  BY DEF IsGiven
<1>3. CASE IsGiven(r)
  BY <1>2, <1>3 DEF ReachesEnd
<1>4. CASE ~IsGiven(r)
  <2>1. PICK a \in Above(idom, b) : a \in Visited /\ r \in DefinedIn(a)
    BY <1>4 DEF ReachesEnd
  <2>2. a \in Above(idom, b)' /\ a \in Visited' /\ r \in DefinedIn(a)'
    BY <1>1, <2>1
  <2> QED BY <2>2 DEF ReachesEnd
<1> QED BY <1>3, <1>4

\* What is behind its definition stays behind it.
LEMMA BehindStays ==
    ASSUME UNCHANGED <<prog, idom, defSites>>, Visited \subseteq Visited',
           \A a \in Visited : DefinedIn(a)' = DefinedIn(a),
           NEW r, NEW b, DefsIn(r, b)' = DefsIn(r, b), NEW k, Behind(r, b, k)
    PROVE  Behind(r, b, k)'
<1>1. CASE \E d \in DefsIn(r, b) : d[1] < k
  <2>1. \E d \in DefsIn(r, b)' : d[1] < k
    BY <1>1
  <2> QED BY <2>1 DEF Behind
<1>2. CASE DefsIn(r, b) = {} /\ ReachesEnd(r, b)
  <2>1. DefsIn(r, b)' = {} /\ ReachesEnd(r, b)'
    BY <1>2, ReachesEndStays
  <2> QED BY <2>1 DEF Behind
<1> QED BY <1>1, <1>2 DEF Behind

\* The names where renaming begins: none.
LEMMA NamesBegin ==
    ASSUME TreeReady, PlaceInv, StartRenaming PROVE FramesInv' /\ StackInv' /\ NamesInv'
<1>1. /\ UNCHANGED <<prog, idom, defSites, phis, code>> /\ phase = "place" /\ phase' = "rename"
      /\ frames' = <<Frame(Entry)>> /\ stacks' = [v \in Variables |-> <<>>] /\ counters' = [v \in Variables |-> 0]
  BY DEF StartRenaming, dominance
<1>2. FramesInv' /\ Visited' = {}
  BY <1>1, RenamingBegins
<1>3. StackInv'
  BY <1>1, StacksBegin
<1>4. Variables' = Variables /\ Blocks' = Blocks
  BY <1>1, SameSurroundings
<1>5. prog \in Programs /\ code = prog.body
  BY <1>1 DEF PlaceInv
<1>6. DOMAIN code' = Blocks' /\ \A b \in Blocks' : code'[b] = prog'.body[b]
  BY <1>1, <1>4, <1>5, BodiesAre
<1>7. counters' \in [Variables' -> Nat] /\ stacks' \in [Variables' -> Seq(RegisterNames)]
  BY <1>1, <1>4
<1>8. NamesInv'
  BY <1>2, <1>6, <1>7 DEF NamesInv
<1> QED BY <1>2, <1>3, <1>8

\* Going up and down the tree changes no name.
LEMMA SameNames ==
    ASSUME NamesInv, UNCHANGED <<prog, idom, defSites, phis, code, counters>>, Visited' = Visited,
           stacks' \in [Variables -> Seq(RegisterNames)]
    PROVE  NamesInv'
<1>1. /\ Variables' = Variables /\ Blocks' = Blocks
      /\ \A b, s : PredIndex(b, s)' = PredIndex(b, s)
  BY SameSurroundings
<1>2. /\ \A b : DefinedIn(b)' = DefinedIn(b)
      /\ \A r, b : DefsIn(r, b)' = DefsIn(r, b)
  BY DEF DefinedIn, DefsIn
<1>3. counters' \in [Variables' -> Nat] /\ stacks' \in [Variables' -> Seq(RegisterNames)]
  BY <1>1 DEF NamesInv
<1>4. DOMAIN code' = Blocks' /\ \A b \in Blocks' \ Visited' : code'[b] = prog'.body[b]
  BY <1>1 DEF NamesInv
<1>5. \A b \in Visited' : \A r \in DefinedIn(b)' : \E v \in Variables' : \E n \in 1 .. counters'[v] : r = Version(v, n)
  BY <1>1, <1>2 DEF NamesInv
<1>6. \A a, b \in Visited' : DefinedIn(a)' \cap DefinedIn(b)' # {} => a = b
  BY <1>2 DEF NamesInv
<1>7. \A b \in Visited' : \A r \in DefinedIn(b)' : \A c, d \in DefsIn(r, b)' : c = d
  BY <1>2 DEF NamesInv
<1>8. ASSUME NEW b \in Visited', NEW k \in DOMAIN code'[b], NEW r \in Uses(code'[b][k])
      PROVE  Behind(r, b, k)'
  <2>1. Behind(r, b, k)
    BY <1>8 DEF NamesInv
  <2>2. DefsIn(r, b)' = DefsIn(r, b) /\ Visited \subseteq Visited' /\ \A a \in Visited : DefinedIn(a)' = DefinedIn(a)
    BY <1>2
  <2> QED BY <2>1, <2>2, BehindStays
<1>9. ASSUME NEW b \in Visited', NEW s \in prog'.succ[b], NEW j \in DOMAIN phis'[s]
      PROVE  ReachesEnd(phis[s][j].ops[1 + PredIndex(b, s)].regs[1], b)'
  <2>1. PICK r : r = phis[s][j].ops[1 + PredIndex(b, s)].regs[1]
    OBVIOUS
  <2>2. ReachesEnd(r, b)
    BY <1>9, <2>1 DEF NamesInv
  <2>3. ReachesEnd(r, b)'
    BY <1>2, <2>2, ReachesEndStays
  <2>4. r = phis'[s][j].ops[1 + PredIndex(b, s)'].regs[1]
    BY <1>1, <2>1
  <2> QED BY <2>3, <2>4
<1> QED BY <1>3, <1>4, <1>5, <1>6, <1>7, <1>8, <1>9 DEF NamesInv

\* Into a child of the tree.
LEMMA DescendKeepsNames ==
    ASSUME TreeReady, FramesInv, StackInv, NamesInv, Descend PROVE FramesInv' /\ StackInv' /\ NamesInv'
<1>1. UNCHANGED <<prog, idom, defSites, phis, code, counters, stacks>>
  BY DEF Descend, dominance
<1>2. FramesInv' /\ Visited' = Visited
  BY DescendKeepsWalk
<1>3. stacks' \in [Variables -> Seq(RegisterNames)]
  BY <1>1 DEF NamesInv
<1>4. NamesInv'
  BY <1>1, <1>2, <1>3, SameNames
<1> QED BY <1>2, <1>4, DescendKeepsStacks

\* Back to the parent.
LEMMA LeaveKeepsNames ==
    ASSUME TreeReady, PlaceInv, FramesInv, StackInv, NamesInv, Leave PROVE FramesInv' /\ StackInv' /\ NamesInv'
<1>1. UNCHANGED <<prog, idom, defSites, phis, code, counters>>
  BY DEF Leave, dominance
<1>2. FramesInv' /\ Visited' = Visited
  BY LeaveKeepsWalk
<1>3. CountersInv
  BY VariablesAre DEF PlaceInv, NamesInv, CountersInv
<1>4. StackInv' /\ CountersInv'
  BY <1>3, LeaveKeepsStacks
<1>5. stacks' \in [Variables -> Seq(RegisterNames)]
  BY <1>1, <1>4, SameSurroundings DEF CountersInv
<1>6. NamesInv'
  BY <1>1, <1>2, <1>5, SameNames
<1> QED BY <1>2, <1>4, <1>6

\* A name that comes from above is none of the block's own.
LEMMA OldNames ==
    ASSUME TreeReady, NamesInv, NEW b, AtBlock(b), DOMAIN defSites \subseteq Nat, b \in Reached \ Visited, RenameBlock,
           NEW r, ReachesEnd(r, b)
    PROVE  DefsIn(r, b)' = {} /\ r \notin DefinedIn(b)'
<1>1. ASSUME r \in DefinedIn(b)' PROVE FALSE
  <2>1. PICK v \in Variables, n \in Int : n \in counters[v] + 1 .. counters'[v] /\ r = Version(v, n)
    <3>1. PICK v \in Variables : \E n \in counters[v] + 1 .. counters'[v] : r = Version(v, n)
      BY <1>1, NamesAreNew
    <3>2. PICK n \in counters[v] + 1 .. counters'[v] : r = Version(v, n)
      BY <3>1
    <3>3. n \in Int
      OBVIOUS
    <3> QED BY <3>2, <3>3
  <2>2. counters[v] \in Nat /\ n \in Nat \ {0} /\ n > counters[v]
    <3>1. counters[v] \in Nat
      BY DEF NamesInv
    <3> QED BY <2>1, <3>1
  <2>3. ~IsGiven(r)
    BY <2>1, <2>2, VersionIs
  <2>4. PICK a \in Visited : r \in DefinedIn(a)
    BY <2>3 DEF ReachesEnd
  <2>5. PICK w \in Variables : \E k \in 1 .. counters[w] : r = Version(w, k)
    BY <2>4 DEF NamesInv
  <2>6. PICK k \in 1 .. counters[w] : r = Version(w, k)
    BY <2>5
  <2>7. w = v /\ k = n
    BY <2>1, <2>6 DEF Version, V
  <2> QED BY <2>2, <2>6, <2>7
<1>2. ASSUME NEW d \in DefsIn(r, b)' PROVE FALSE
  BY <1>1, <1>2, SitesAre
<1> QED BY <1>1, <1>2

\* Every name a block reads is behind its definition, those that come from above and its own.
LEMMA BlockReads ==
    ASSUME TreeReady, FramesInv, StackInv, NamesInv, NEW b, AtBlock(b), DOMAIN defSites \subseteq Nat,
           b \in Reached \ Visited, RenameBlock, NEW v \in Variables, NEW k \in 1 .. Len(code[b]) + 1,
           NEW r, r = Reaching(b, v, k)
    PROVE  Behind(r, b, k)' /\ ReachesEnd(r, b)'
<1>1. /\ frames # <<>> /\ b = Last(frames).block /\ UNCHANGED <<prog, idom, defSites>>
      /\ CountersInv
  BY DEF RenameBlock, AtBlock, dominance
<1>2. Visited \subseteq Visited' /\ b \in Visited' /\ \A a \in Visited : DefinedIn(a)' = DefinedIn(a)
  BY BlockKeepsWalk, VisitedKeepNames
<1>3. CASE r = OnEntry(b, v)
  <2>1. ReachesEnd(r, b)
    BY <1>1, <1>3, OnEntryIs
  <2>2. ReachesEnd(r, b)'
    BY <1>1, <1>2, <2>1, ReachesEndStays
  <2>3. DefsIn(r, b)' = {}
    BY <2>1, OldNames
  <2> QED BY <2>2, <2>3 DEF Behind
<1>4. CASE \E d \in DefsIn(r, b)' : d[1] < k
  <2>1. r \in DefinedIn(b)'
    BY <1>4, SitesAre
  <2>2. b \in Above(idom, b)'
    BY <1>1, SameSurroundings, TreeIs
  <2>3. ReachesEnd(r, b)'
    BY <1>2, <2>1, <2>2 DEF ReachesEnd
  <2> QED BY <1>4, <2>3 DEF Behind
<1> QED BY <1>3, <1>4, ReachingIsGiven

\* Renaming a block keeps what holds of the names.
LEMMA BlockKeepsNames ==
    ASSUME TreeReady, PhisInv, PlaceInv, FramesInv, StackInv, NamesInv, RenameBlock
    PROVE  PhisInv' /\ FramesInv' /\ StackInv' /\ NamesInv'
<1>1. PICK b : b = Last(frames).block
  OBVIOUS
<1>2. frames # <<>> /\ ~Last(frames).entered /\ UNCHANGED <<prog, idom, defSites>>
  BY DEF RenameBlock, dominance
<1>3. AtBlock(b) /\ DOMAIN defSites \subseteq Nat /\ b \in Reached \ Visited
  BY <1>1, <1>2, BlockIsWaiting
<1>4. /\ GraphInv /\ CountersInv /\ b \in Blocks /\ DOMAIN code = Blocks
      /\ DOMAIN defSites \subseteq Variables /\ Len(code[b]) \in Nat /\ DOMAIN code[b] = 1 .. Len(code[b])
  BY <1>3, NewNames DEF AtBlock
<1>5. /\ PhisInv'
      /\ \A s \in Blocks : DOMAIN phis'[s] = DOMAIN phis[s] /\ \A j \in DOMAIN phis[s] : phis'[s][j] = PhiAfter(b, s, j)
  BY <1>1, <1>4, PhisAfter
<1>6. FramesInv' /\ Visited' = Visited \cup {b}
  BY <1>3, BlockKeepsWalk
<1>7. StackInv' /\ counters' \in [Variables -> Nat] /\ stacks' \in [Variables -> Seq(RegisterNames)]
  BY <1>3, BlockKeepsStacks
<1>8. /\ Variables' = Variables /\ Blocks' = Blocks
      /\ \A x, s : PredIndex(x, s)' = PredIndex(x, s)
  BY <1>2, SameSurroundings
<1>9. \A a \in Visited : /\ DefinedIn(a)' = DefinedIn(a) /\ (\A r : DefsIn(r, a)' = DefsIn(r, a))
                         /\ code'[a] = code[a] /\ a \in Blocks /\ a # b
  BY <1>3, VisitedKeepNames
<1>10. DOMAIN code' = Blocks' /\ \A x \in Blocks' \ Visited' : code'[x] = prog'.body[x]
  <2>1. \A x \in Blocks \ {b} : code'[x] = code[x]
    BY <1>3, OthersKeepNames
  <2>2. DOMAIN code' = DOMAIN code
    BY DEF RenameBlock
  <2> QED BY <1>2, <1>4, <1>6, <1>8, <2>1, <2>2 DEF NamesInv
<1>11. \A v \in Variables : counters[v] \in Nat /\ counters'[v] \in Nat /\ counters[v] <= counters'[v]
  <2> SUFFICES ASSUME NEW v \in Variables
               PROVE  counters[v] \in Nat /\ counters'[v] \in Nat /\ counters[v] <= counters'[v]
    OBVIOUS
  <2>1. AllDefs(b, v) \in Nat /\ counters[v] \in Nat /\ counters'[v] = counters[v] + AllDefs(b, v)
    BY <1>3, StacksAfter
  <2> QED BY <2>1
<1>12. \A r \in DefinedIn(b)' : \E v \in Variables : \E n \in counters[v] + 1 .. counters'[v] : r = Version(v, n)
  BY <1>3, NamesAreNew
<1>13. ASSUME NEW x \in Visited', NEW r \in DefinedIn(x)'
       PROVE  \E v \in Variables' : \E n \in 1 .. counters'[v] : r = Version(v, n)
  <2>1. CASE x = b
    <3>1. PICK v \in Variables : \E n \in counters[v] + 1 .. counters'[v] : r = Version(v, n)
      BY <1>12, <1>13, <2>1
    <3>2. PICK n \in counters[v] + 1 .. counters'[v] : r = Version(v, n)
      BY <3>1
    <3>3. n \in 1 .. counters'[v]
      BY <1>11, <3>2
    <3> QED BY <1>8, <3>2, <3>3
  <2>2. CASE x \in Visited
    <3>1. r \in DefinedIn(x)
      BY <1>9, <1>13, <2>2
    <3>2. PICK v \in Variables : \E n \in 1 .. counters[v] : r = Version(v, n)
      BY <2>2, <3>1 DEF NamesInv
    <3>3. PICK n \in 1 .. counters[v] : r = Version(v, n)
      BY <3>2
    <3>4. n \in 1 .. counters'[v]
      BY <1>11, <3>3
    <3> QED BY <1>8, <3>3, <3>4
  <2> QED BY <1>6, <2>1, <2>2
<1>14. ASSUME NEW r, NEW a \in Visited, r \in DefinedIn(a) PROVE r \notin DefinedIn(b)'
  <2>1. PICK v \in Variables : \E n \in 1 .. counters[v] : r = Version(v, n)
    BY <1>14 DEF NamesInv
  <2>2. PICK n \in 1 .. counters[v] : r = Version(v, n)
    BY <2>1
  <2>3. ASSUME r \in DefinedIn(b)' PROVE FALSE
    <3>1. PICK w \in Variables : \E k \in counters[w] + 1 .. counters'[w] : r = Version(w, k)
      BY <1>12, <2>3
    <3>2. PICK k \in counters[w] + 1 .. counters'[w] : r = Version(w, k)
      BY <3>1
    <3>3. v = w /\ n = k
      BY <2>2, <3>2 DEF Version, V
    <3> QED BY <1>11, <2>2, <3>2, <3>3
  <2> QED BY <2>3
<1>15. \A a, x \in Visited' : DefinedIn(a)' \cap DefinedIn(x)' # {} => a = x
  <2> SUFFICES ASSUME NEW a \in Visited', NEW x \in Visited', NEW r, r \in DefinedIn(a)', r \in DefinedIn(x)', a # x PROVE FALSE
    OBVIOUS
  <2>1. CASE a = b
    <3>1. x \in Visited /\ r \in DefinedIn(x)
      BY <1>6, <1>9, <2>1
    <3> QED BY <1>14, <2>1, <3>1
  <2>2. CASE x = b
    <3>1. a \in Visited /\ r \in DefinedIn(a)
      BY <1>6, <1>9, <2>2
    <3> QED BY <1>14, <2>2, <3>1
  <2>3. CASE a # b /\ x # b
    <3>1. a \in Visited /\ x \in Visited /\ r \in DefinedIn(a) /\ r \in DefinedIn(x)
      BY <1>6, <1>9, <2>3
    <3> QED BY <3>1 DEF NamesInv
  <2> QED BY <2>1, <2>2, <2>3
<1>16. ASSUME NEW x \in Visited', NEW r \in DefinedIn(x)', NEW c \in DefsIn(r, x)', NEW d \in DefsIn(r, x)' PROVE c = d
  <2>1. CASE x = b
    BY <1>3, <1>16, <2>1, NamesAreNew
  <2>2. CASE x \in Visited
    <3>1. r \in DefinedIn(x) /\ c \in DefsIn(r, x) /\ d \in DefsIn(r, x)
      BY <1>9, <1>16, <2>2
    <3> QED BY <2>2, <3>1 DEF NamesInv
  <2> QED BY <1>6, <2>1, <2>2
<1>17. ASSUME NEW x \in Visited', NEW k \in DOMAIN code'[x], NEW r \in Uses(code'[x][k])
       PROVE  Behind(r, x, k)'
  <2>1. CASE x = b
    <3>1. k \in DOMAIN code[b] /\ k \in 1 .. Len(code[b]) + 1
      BY <1>3, <1>4, <1>17, <2>1, NewNames
    <3>2. PICK v \in Variables : r = Reaching(b, v, k)
      <4>1. \A q : q \in Uses(code'[b][k]) <=> \E v \in Variables : Base(v) \in Uses(code[b][k]) /\ q = Reaching(b, v, k)
        BY <1>3, <3>1, NewNames, Zenon
      <4> QED BY <1>17, <2>1, <4>1
    <3> QED BY <1>3, <2>1, <3>1, <3>2, BlockReads
  <2>2. CASE x \in Visited
    <3>1. Behind(r, x, k)
      BY <1>9, <1>17, <2>2 DEF NamesInv
    <3>2. DefsIn(r, x)' = DefsIn(r, x) /\ Visited \subseteq Visited' /\ \A a \in Visited : DefinedIn(a)' = DefinedIn(a)
      BY <1>6, <1>9, <2>2
    <3> QED BY <1>2, <3>1, <3>2, BehindStays
  <2> QED BY <1>6, <2>1, <2>2
<1>18. ASSUME NEW x \in Visited', NEW s \in prog'.succ[x], NEW j \in DOMAIN phis'[s]
       PROVE  ReachesEnd(phis[s][j].ops[1 + PredIndex(x, s)].regs[1], x)'
  <2>1. x \in Blocks /\ s \in prog.succ[x]
    BY <1>2, <1>4, <1>6, <1>9
  <2>2. PICK o : o = 1 + PredIndex(x, s)
    OBVIOUS
  <2>3. /\ s \in Blocks /\ PredIndex(x, s) \in 1 .. Len(Preds(s)) /\ Preds(s)[PredIndex(x, s)] = x
    BY <1>4, <2>1, PredIndexIs
  <2>4. j \in DOMAIN phis[s] /\ phis'[s][j] = PhiAfter(b, s, j)
    BY <1>5, <2>3
  <2>5. DOMAIN phis[s][j].ops = 1 .. 1 + Len(Preds(s)) /\ Len(Preds(s)) \in Nat
    BY <1>4, <2>3, <2>4, PhiIs
  <2>6. o \in DOMAIN phis[s][j].ops /\ o # 1
    BY <2>2, <2>3, <2>5
  <2>7. PICK v : v = PhiBase(phis[s][j])
    OBVIOUS
  <2>8. v \in Variables
    BY <1>4, <2>3, <2>4, <2>7 DEF PhisInv
  <2>9. PICK t : t = phis'[s][j]
    OBVIOUS
  <2>10. /\ DOMAIN t.ops = DOMAIN phis[s][j].ops
         /\ s \in prog.succ[b] => t.ops[1 + PredIndex(b, s)].regs[1] = AtEnd(b, v)
         /\ \A p \in DOMAIN t.ops :
               p # 1 /\ (s \in prog.succ[b] => p # 1 + PredIndex(b, s)) => t.ops[p] = phis[s][j].ops[p]
    BY <1>4, <2>3, <2>4, <2>7, <2>9, PhiRenamed
  <2>11. PICK r : r = t.ops[o].regs[1]
    OBVIOUS
  <2>12. ReachesEnd(r, x)'
    <3>1. CASE x = b
      <4>1. r = AtEnd(b, v)
        BY <2>1, <2>2, <2>10, <2>11, <3>1
      <4>2. r = Reaching(b, v, Len(code[b]) + 1) /\ Len(code[b]) + 1 \in 1 .. Len(code[b]) + 1
        BY <1>4, <4>1 DEF AtEnd
      <4> QED BY <1>3, <2>8, <3>1, <4>2, BlockReads
    <3>2. CASE x \in Visited
      <4>1. ASSUME s \in prog.succ[b] PROVE o # 1 + PredIndex(b, s)
        <5>1. PredIndex(b, s) \in 1 .. Len(Preds(s)) /\ Preds(s)[PredIndex(b, s)] = b
          BY <1>4, <4>1, PredIndexIs
        <5>2. x # b
          BY <1>9, <3>2
        <5> QED BY <2>2, <2>3, <2>5, <5>1, <5>2
      <4>2. r = phis[s][j].ops[1 + PredIndex(x, s)].regs[1]
        BY <2>2, <2>6, <2>10, <2>11, <4>1
      <4>3. ReachesEnd(r, x)
        BY <2>1, <2>4, <3>2, <4>2 DEF NamesInv
      <4>4. Visited \subseteq Visited' /\ \A a \in Visited : DefinedIn(a)' = DefinedIn(a)
        BY <1>6, <1>9
      <4> QED BY <1>2, <4>3, <4>4, ReachesEndStays
    <3> QED BY <1>6, <3>1, <3>2
  <2>13. r = phis'[s][j].ops[1 + PredIndex(x, s)'].regs[1]
    BY <1>8, <2>2, <2>9, <2>11
  <2> QED BY <2>12, <2>13
<1>19. counters' \in [Variables' -> Nat] /\ stacks' \in [Variables' -> Seq(RegisterNames)]
  BY <1>7, <1>8
<1>20. NamesInv'
  BY <1>10, <1>13, <1>15, <1>16, <1>17, <1>18, <1>19 DEF NamesInv
<1> QED BY <1>5, <1>6, <1>7, <1>20

-----------------------------------------------------------------------------
(* The whole pass.                                                          *)

RenameInv == phase \in {"rename", "done"} => FramesInv /\ StackInv /\ NamesInv

\* A step that changes nothing.
LEMMA StutterKeepsNames ==
    ASSUME FramesInv, StackInv, NamesInv, UNCHANGED <<prog, idom, defSites, phis, code, counters, stacks, frames, phase>>
    PROVE  FramesInv' /\ StackInv' /\ NamesInv'
<1>1. /\ Variables' = Variables /\ Reached' = Reached /\ Frames' = Frames /\ Entry' = Entry
      /\ \A x : Above(idom, x)' = Above(idom, x)
      /\ \A b : ChildrenOf(b)' = ChildrenOf(b)
  BY SameSurroundings DEF Entry
<1>2. FramesInv'
  <2>1. \A i \in 1 .. Len(frames) : FrameInv(i)'
    BY <1>1 DEF FramesInv, FrameInv
  <2> QED BY <1>1, <2>1 DEF FramesInv
<1>3. Visited' = Visited
  <2>1. Waiting' = Waiting
    BY DEF Waiting, Pending
  <2> QED BY <1>1, <2>1 DEF Visited
<1>4. StackInv'
  <2>1. ASSUME NEW v \in Variables PROVE \E h \in [0 .. Len(frames') -> Nat] : Segments(v, h)'
    <3>1. PICK h \in [0 .. Len(frames) -> Nat] : Segments(v, h)
      BY DEF StackInv
    <3>2. \A r, a : Holds(r, a)' = Holds(r, a)
      BY <1>3 DEF Holds, IsGiven, DefinedIn
    <3>3. \A i \in 1 .. Len(frames) : \A j \in h[i - 1] + 1 .. h[i] : Holds(stacks[v][j], frames[i].block)'
      <4> SUFFICES ASSUME NEW i \in 1 .. Len(frames), NEW j \in h[i - 1] + 1 .. h[i]
                   PROVE  Holds(stacks[v][j], frames[i].block)'
        OBVIOUS
      <4>1. PICK r, a : r = stacks[v][j] /\ a = frames[i].block
        OBVIOUS
      <4>2. Holds(r, a)
        BY <3>1, <4>1 DEF Segments
      <4> QED BY <3>2, <4>1, <4>2
    <3>4. Segments(v, h)'
      BY <3>1, <3>3 DEF Segments
    <3> QED BY <3>1, <3>4
  <2> QED BY <1>1, <2>1 DEF StackInv
<1>5. NamesInv'
  <2>1. stacks' \in [Variables -> Seq(RegisterNames)]
    BY DEF NamesInv
  <2> QED BY <1>3, <2>1, SameNames
<1> QED BY <1>2, <1>4, <1>5

\* The inductive invariant of the whole pass.
StrictInv == DominanceInv /\ PhisInv /\ PlaceInv /\ RenameInv

\* Every step of the pass keeps it.
LEMMA StepKeepsStrict == StrictInv /\ [SsaNext]_ssaVars => StrictInv'
<1> SUFFICES ASSUME DominanceInv, PhisInv, PlaceInv, RenameInv, [SsaNext]_ssaVars PROVE StrictInv'
  BY DEF StrictInv
<1>1. DominanceInv'
  BY StepKeepsDominance
<1>2. GraphInv /\ (phase \in {"place", "rename"} => TreeReady)
  BY DEF DominanceInv, TreeReady
<1>3. CASE BuildDefSites \/ EnterSuccessor \/ LeaveBlock \/ StartDominators \/ VisitBlock \/ Sweep \/ BuildFrontier
  <2>1. PhisInv' /\ PlaceInv'
    BY <1>3, DefSitesKeepPlaces, DominatorsKeepPlaces
  <2>2. phase' \notin {"rename", "done"}
    BY <1>3 DEF BuildDefSites, EnterSuccessor, LeaveBlock, StartDominators, VisitBlock, Sweep, BuildFrontier
  <2> QED BY <1>1, <2>1, <2>2 DEF StrictInv, RenameInv
<1>4. CASE TakeRegister
  <2>1. phase' \notin {"rename", "done"}
    BY <1>4 DEF TakeRegister
  <2> QED BY <1>1, <1>4, <2>1, TakingKeepsPlaces DEF StrictInv, RenameInv
<1>5. CASE PlacePhis
  <2>1. phase' \notin {"rename", "done"}
    BY <1>5 DEF PlacePhis
  <2> QED BY <1>1, <1>2, <1>5, <2>1, PlacingKeepsPlaces DEF StrictInv, RenameInv
<1>6. CASE StartRenaming
  <2>1. phase = "place"
    BY <1>6 DEF StartRenaming
  <2> QED BY <1>1, <1>2, <1>6, <2>1, TakingKeepsPlaces, NamesBegin DEF StrictInv, RenameInv
<1>7. CASE RenameBlock \/ Descend \/ Leave
  <2>1. phase = "rename" /\ FramesInv /\ StackInv /\ NamesInv /\ TreeReady
    BY <1>2, <1>7 DEF RenameBlock, Descend, Leave, RenameInv
  <2>2. PhisInv' /\ FramesInv' /\ StackInv' /\ NamesInv'
    <3>1. CASE RenameBlock
      BY <2>1, <3>1, BlockKeepsNames
    <3>2. CASE Descend
      BY <2>1, <3>2, DescendKeepsNames, SamePhis DEF Descend
    <3>3. CASE Leave
      BY <2>1, <3>3, LeaveKeepsNames, SamePhis DEF Leave
    <3> QED BY <1>7, <3>1, <3>2, <3>3
  <2>3. PlaceInv'
    <3>1. UNCHANGED <<prog, defSites, todo, worklist, hasPhi>> /\ phase' \in {"rename", "done"}
      BY <1>7, <2>1 DEF RenameBlock, Descend, Leave, placement
    <3>2. todo = {}
      BY <2>1 DEF PlaceInv
    <3> QED BY <3>1, <3>2, <2>1 DEF PlaceInv
  <2> QED BY <1>1, <2>2, <2>3 DEF StrictInv, RenameInv
<1>8. CASE UNCHANGED ssaVars
  <2>1. UNCHANGED <<prog, idom, defSites, phis, code, counters, stacks, frames, phase>>
    BY <1>8 DEF ssaVars, dominance, renaming
  <2>2. ASSUME phase \in {"rename", "done"} PROVE FramesInv' /\ StackInv' /\ NamesInv'
    BY <2>1, <2>2, StutterKeepsNames DEF RenameInv
  <2> QED BY <1>1, <1>8, <2>1, <2>2, TakingKeepsPlaces DEF StrictInv, RenameInv
<1> QED BY <1>3, <1>4, <1>5, <1>6, <1>7, <1>8 DEF SsaNext

\* A register a block has a definition of, and what is available where.
LEMMA SitesNow ==
    ASSUME NEW r, NEW b
    PROVE  /\ \A d \in DefsIn(r, b) : r \in DefinedIn(b)
           /\ r \in DefinedIn(b) => \E d : d \in DefsIn(r, b)
<1>1. ASSUME NEW d \in DefsIn(r, b) PROVE r \in DefinedIn(b)
  BY <1>1 DEF DefsIn, DefinedIn
<1>2. ASSUME r \in DefinedIn(b) PROVE \E d : d \in DefsIn(r, b)
  <2>1. CASE \E j \in DOMAIN phis[b] : r \in Defs(phis[b][j])
    <3>1. PICK j \in DOMAIN phis[b] : r \in Defs(phis[b][j])
      BY <2>1
    <3>2. <<0, j>> \in DefsIn(r, b)
      BY <3>1 DEF DefsIn
    <3> QED BY <3>2
  <2>2. CASE \E k \in DOMAIN code[b] : r \in Defs(code[b][k])
    <3>1. PICK k \in DOMAIN code[b] : r \in Defs(code[b][k])
      BY <2>2
    <3>2. <<k, 1>> \in DefsIn(r, b)
      BY <3>1 DEF DefsIn
    <3> QED BY <3>2
  <2> QED BY <1>2, <2>1, <2>2 DEF DefinedIn
<1> QED BY <1>1, <1>2

\* What the invariant says of a use is what the property asks, as above is dominating.
LEMMA Availability ==
    ASSUME TreeReady, NEW b \in Reached, NEW r
    PROVE  /\ ReachesEnd(r, b) => AvailableAtEnd(Dominated, r, b)
           /\ \A k : Behind(r, b, k) => AvailableAt(Dominated, r, b, k)
<1>1. ASSUME ReachesEnd(r, b) PROVE AvailableAtEnd(Dominated, r, b)
  <2>1. CASE IsGiven(r)
    BY <2>1 DEF AvailableAtEnd
  <2>2. CASE ~IsGiven(r)
    <3>1. PICK a \in Above(idom, b) : a \in Visited /\ r \in DefinedIn(a)
      BY <1>1, <2>2 DEF ReachesEnd
    <3>2. a \in Reached
      BY <3>1 DEF Visited
    <3>3. b \notin ReachedWithout(a)
      BY <3>1, <3>2 DEF TreeReady, TreeExact, Dominates
    <3>4. a \in DOMAIN Dominated /\ b \in Dominated[a]
      BY <3>2, <3>3 DEF Dominated
    <3>5. DefsIn(r, a) # {}
      BY <3>1, SitesNow
    <3> QED BY <3>4, <3>5 DEF AvailableAtEnd
  <2> QED BY <2>1, <2>2
<1>2. ASSUME NEW k, Behind(r, b, k) PROVE AvailableAt(Dominated, r, b, k)
  BY <1>1, <1>2 DEF Behind, AvailableAt
<1> QED BY <1>1, <1>2

\* When the walk is over every block that can be reached has been visited.
LEMMA WalkIsOver == ASSUME TreeReady, FramesInv, phase = "done" PROVE Visited = Reached
<1>1. frames = <<>>
  BY DEF FramesInv
<1>2. Waiting = {}
  BY <1>1 DEF Waiting
<1> QED BY <1>2 DEF Visited

\* Where the pass is done its invariant is the property.
LEMMA DoneIsStrict == ASSUME StrictInv PROVE StrictSsa
<1> SUFFICES ASSUME phase = "done" PROVE StrictSsa
  BY DEF StrictSsa
<1>1. TreeReady /\ FramesInv /\ NamesInv
  BY DEF StrictInv, DominanceInv, RenameInv, TreeReady
<1>2. Visited = Reached /\ DOMAIN Dominated = Reached
  BY <1>1, WalkIsOver DEF Dominated
<1>3. ASSUME NEW r
      PROVE  Cardinality(UNION {{<<b, d>> : d \in DefsIn(r, b)} : b \in Reached}) <= IF IsGiven(r) THEN 0 ELSE 1
  <2>1. PICK S : S = UNION {{<<b, d>> : d \in DefsIn(r, b)} : b \in Reached}
    OBVIOUS
  <2>2. \A x \in S : \E b \in Reached : \E d \in DefsIn(r, b) : x = <<b, d>>
    BY <2>1
  <2>3. \A x, y \in S : x = y
    <3> SUFFICES ASSUME NEW x \in S, NEW y \in S PROVE x = y
      OBVIOUS
    <3>1. PICK a \in Reached : \E d \in DefsIn(r, a) : x = <<a, d>>
      BY <2>2
    <3>2. PICK c \in DefsIn(r, a) : x = <<a, c>>
      BY <3>1
    <3>3. PICK b \in Reached : \E d \in DefsIn(r, b) : y = <<b, d>>
      BY <2>2
    <3>4. PICK d \in DefsIn(r, b) : y = <<b, d>>
      BY <3>3
    <3>5. r \in DefinedIn(a) /\ r \in DefinedIn(b)
      BY <3>2, <3>4, SitesNow
    <3>6. a = b
      BY <1>1, <1>2, <3>5 DEF NamesInv
    <3>7. c = d
      BY <1>1, <1>2, <3>2, <3>4, <3>5, <3>6 DEF NamesInv
    <3> QED BY <3>2, <3>4, <3>6, <3>7
  <2>4. ASSUME IsGiven(r), NEW x \in S PROVE FALSE
    <3>1. PICK b \in Reached : \E d \in DefsIn(r, b) : x = <<b, d>>
      BY <2>2, <2>4
    <3>2. r \in DefinedIn(b)
      BY <3>1, SitesNow
    <3>3. PICK v \in Variables : \E n \in 1 .. counters[v] : r = Version(v, n)
      BY <1>1, <1>2, <3>2 DEF NamesInv
    <3>4. PICK n \in 1 .. counters[v] : r = Version(v, n)
      BY <3>3
    <3>5. n \in Nat \ {0}
      BY <3>4
    <3> QED BY <2>4, <3>4, <3>5, VersionIs
  <2>5. CASE S = {}
    BY <2>1, <2>5, FS_EmptySet
  <2>6. CASE S # {}
    <3>1. PICK x : S = {x}
      BY <2>3, <2>6
    <3>2. Cardinality(S) = 1
      BY <3>1, FS_Singleton
    <3> QED BY <2>1, <2>4, <2>6, <3>2
  <2> QED BY <2>5, <2>6
<1>4. ASSUME NEW b \in Reached, NEW k \in DOMAIN code[b], NEW r \in Uses(code[b][k])
      PROVE  AvailableAt(Dominated, r, b, k)
  <2>1. Behind(r, b, k)
    BY <1>1, <1>2 DEF NamesInv
  <2> QED BY <1>1, <2>1, Availability
<1>5. ASSUME NEW b \in Reached, NEW j \in DOMAIN phis[b], NEW p \in Reached, b \in prog.succ[p]
      PROVE  AvailableAtEnd(Dominated, phis[b][j].ops[1 + PredIndex(p, b)].regs[1], p)
  <2>1. PICK r : r = phis[b][j].ops[1 + PredIndex(p, b)].regs[1]
    OBVIOUS
  <2>2. ReachesEnd(r, p)
    BY <1>1, <1>2, <1>5, <2>1 DEF NamesInv
  <2>3. AvailableAtEnd(Dominated, r, p)
    BY <1>1, <2>2, Availability
  <2> QED BY <2>1, <2>3
<1> QED BY <1>2, <1>3, <1>4, <1>5 DEF StrictSsa

\* NonSsaToSsaPass: the code that the pass leaves, of every function, is in
\* strict SSA form: one definition of every name, and every use, a phi's at the
\* end of its predecessor, in a place that the definition dominates.
THEOREM SsaIsAlwaysStrict == SsaSpec => []StrictSsa
<1>1. SsaInit => StrictInv
  BY InitHasInv, InitPlaces DEF StrictInv, RenameInv, SsaInit
<1>2. StrictInv => StrictSsa
  BY DoneIsStrict
<1> QED BY <1>1, <1>2, StepKeepsStrict, PTL DEF SsaSpec
=============================================================================
