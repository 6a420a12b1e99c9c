-------------------------- MODULE FunctionReference --------------------------
(***************************************************************************)
(* zisc/function_reference-inl.hpp: a reference to something that can be   *)
(* called, two words: memory_, a function pointer or the address of an     *)
(* object, and invoker_, the function that knows which of both it is.      *)
(*                                                                         *)
(* A lambda without captures converts to a function pointer and counts as  *)
(* a function.  initialize() takes the address of f, a variable of type    *)
(* Func: the object itself if it is an lvalue, a local copy if it is not.  *)
(***************************************************************************)
EXTENDS Naturals, FiniteSets

CONSTANTS
  RefNames,   \* the references
  Functions,  \* functions and lambdas without captures
  Functors,   \* objects with operator() and with a state
  NoCallee    \* nothing to call
Gone == "gone"  \* an object whose life has ended

VARIABLES
  refs,      \* [memory, invoker] of each reference
  living,    \* functors that are alive
  intended,  \* what each reference should call
  ran        \* what the last call ran
refVars == <<refs, living, intended, ran>>

NullReference == [memory |-> NoCallee, invoker |-> "null"]
refInit ==
  /\ refs = [r \in RefNames |-> NullReference] /\ living = Functors
  /\ intended = [r \in RefNames |-> NoCallee] /\ ran = <<>>

-----------------------------------------------------------------------------
\* operator bool.
isValid(r) == refs[r].invoker # "null"
Refer(r, memory, invoker, callee) ==
  /\ refs' = [refs EXCEPT ![r] = [memory |-> memory, invoker |-> invoker]]
  /\ intended' = [intended EXCEPT ![r] = callee]
  /\ UNCHANGED <<living, ran>>

\* assign() and initialize(): a function, an lvalue, a temporary, a reference.
AssignFunction(r) == \E f \in Functions : Refer(r, f, "function", f)
AssignObject(r) == \E x \in living : Refer(r, x, "object", x)
AssignTemporary(r) == Refer(r, "local", "object", Gone)
AssignReference(r, s) == Refer(r, refs[s].memory, refs[s].invoker, intended[s])
clearReference(r) == Refer(r, NoCallee, "null", NoCallee)
\* MUTANT: only the addresses are exchanged.
swapMemory(r, s) ==
  /\ refs' = [refs EXCEPT ![r].memory = refs[s].memory, ![s].memory = refs[r].memory]
  /\ intended' = [intended EXCEPT ![r] = intended[s], ![s] = intended[r]]
  /\ UNCHANGED <<living, ran>>
swapReferences(r, s) ==
  /\ refs' = [refs EXCEPT ![r] = refs[s], ![s] = refs[r]]
  /\ intended' = [intended EXCEPT ![r] = intended[s], ![s] = intended[r]]
  /\ UNCHANGED <<living, ran>>

\* invokeFunc<FuncPtr>(memory): the word is taken for what the invoker was made
\* for; another word there is an address of something else.
invokeFunc(ref) ==
  CASE ref.invoker = "function" /\ ref.memory \in Functions -> ref.memory
    [] ref.invoker = "object" /\ ref.memory \in living -> ref.memory
    [] OTHER -> Gone
invoke(r) ==
  /\ isValid(r)  \* or else an assertion fails
  /\ ran' = <<r, invokeFunc(refs[r])>>
  /\ UNCHANGED <<refs, living, intended>>

\* A functor leaves its scope, and every reference to it dangles.
EndOfLife == \E x \in living :
  /\ living' = living \ {x}
  /\ intended' = [r \in RefNames |-> IF intended[r] = x THEN Gone ELSE intended[r]]
  /\ ran' = <<>>
  /\ UNCHANGED refs

refNext ==
  \/ EndOfLife
  \/ \E r \in RefNames :
       \/ AssignFunction(r) \/ AssignObject(r) \/ AssignTemporary(r) \/ clearReference(r)
       \/ invoke(r)
       \/ \E s \in RefNames : AssignReference(r, s) \/ swapReferences(r, s)

-----------------------------------------------------------------------------
\* A reference calls what it was given last, through any number of copies and
\* exchanges, and is valid if it was given something since it was cleared; it
\* reaches an object that is gone only if it was given a temporary, or if the
\* object has left its scope.
CallsWhatWasMeant ==
  /\ \A r \in RefNames : isValid(r) <=> intended[r] # NoCallee
  /\ \A r \in RefNames : isValid(r) => invokeFunc(refs[r]) = intended[r]
=============================================================================
