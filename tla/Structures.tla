---------------------------- MODULE Structures ----------------------------
(***************************************************************************)
(* The containers, the memory resources, the calculations and the helpers, *)
(* checked in one run.  They share no state: the initial state says which  *)
(* of them a behaviour is about, and the others stay in the initial state  *)
(* named below.                                                            *)
(***************************************************************************)
EXTENDS Bitset, MutexQueue, MutexBst, QueueObjects,
        MonotonicBuffer, AllocFree, FixedArrayResource, ScalableRingClient,
        Ieee754Binary, RandomEngines, Numbers, FloatMath,
        CsvReader, FunctionReference, Stopwatch

VARIABLE part  \* the component at work

Parts == {"bits", "queue", "map", "objects", "buffer", "alloc", "blocks", "ring",
          "floats", "random", "numbers", "math", "json", "csv",
          "references", "watch"}

structureVars == <<bitVars, queueVars, bstVars, objectVars, bufferVars, allocVars, fixedVars,
                   clientVars>>
utilityVars == <<binaryVars, randomVars, numberVars, mathVars, jsonVars,
                 csvVars, refVars, watchVars>>
vars == <<part, structureVars, utilityVars>>

Init ==
  /\ part \in Parts
  /\ bitInit /\ queueInit /\ bstInit /\ objectInit
  /\ bufferInit /\ allocInit /\ fixedInit /\ clientInit
  /\ binaryInit /\ randomInit /\ numberInit /\ mathInit
  /\ jsonInit /\ csvInit /\ refInit /\ watchInit
  /\ part # "queue" => capacity = 2
  /\ part # "map" => Len(indexStack) = 2
  /\ part # "objects" => queueKind = "mutex" /\ storable
  /\ part # "buffer" => storage = 0 /\ releaser = NoThread
  /\ part # "ring" => ~freeList
  /\ part # "random" => engine = "cmj"
  /\ part # "csv" => columns = CHOOSE types \in ColumnTypes : TRUE

Next ==
  /\ UNCHANGED part
  /\ IF part = "bits" THEN bitNext ELSE UNCHANGED bitVars
  /\ IF part = "queue" THEN queueNext ELSE UNCHANGED queueVars
  /\ IF part = "map" THEN bstNext ELSE UNCHANGED bstVars
  /\ IF part = "objects" THEN objectNext ELSE UNCHANGED objectVars
  /\ IF part = "buffer" THEN bufferNext ELSE UNCHANGED bufferVars
  /\ IF part = "alloc" THEN allocNext ELSE UNCHANGED allocVars
  /\ IF part = "blocks" THEN fixedNext ELSE UNCHANGED fixedVars
  /\ IF part = "ring" THEN clientNext ELSE UNCHANGED clientVars
  /\ IF part = "floats" THEN binaryNext ELSE UNCHANGED binaryVars
  /\ IF part = "random" THEN randomNext ELSE UNCHANGED randomVars
  /\ IF part = "numbers" THEN numberNext ELSE UNCHANGED numberVars
  /\ IF part = "math" THEN mathNext ELSE UNCHANGED mathVars
  /\ IF part = "json" THEN jsonNext ELSE UNCHANGED jsonVars
  /\ IF part = "csv" THEN csvNext ELSE UNCHANGED csvVars
  /\ IF part = "references" THEN refNext ELSE UNCHANGED refVars
  /\ IF part = "watch" THEN watchNext ELSE UNCHANGED watchVars

Spec == Init /\ [][Next]_vars
-----------------------------------------------------------------------------
(* Properties of one component that are asked together                     *)

\* Soft float operations and conversions agree with exact arithmetic, and the
\* classes and limits with the values of the patterns.
ArithmeticAgrees == ConversionsAgree /\ OperationsAgree /\ ClassesAgree

\* The engines of words go through their whole period and never stop at 0, and the
\* samples of a pattern are one in each row, column and cell.
EnginesAreUniform == PeriodIsFull /\ NeverStuck /\ MultiJittered /\ InTheirCells

\* Fractions, quantities, ranges, permutations and integer powers are exact as long
\* as their operands fit; so are rounding, decomposition and powers of limits, and
\* what a sum or a product of floats loses is kept next to it.
MathIsExact ==
  /\ NumbersAreExact /\ RangesAreExact /\ PowerIsExact
  /\ EvaluationIsExact /\ PowersOfLimits /\ LossIsKept

\* A function reference calls what it was given last, and a stopwatch counts the
\* time in which it runs.
HelpersKeepTrack == CallsWhatWasMeant /\ ElapsedIsRun
=============================================================================
