---------------------------- MODULE NestedCalls ----------------------------
(***************************************************************************)
(* Calls that nest and may fail, as a language with exceptions promises    *)
(* them, whatever carries the errors.  The code of a call computes a       *)
(* result, evaluates other things, which may call again, and ends well or  *)
(* badly.  Its caller gets a value only from a call that ended well and    *)
(* wrote one, and an error goes to the code of the call below, which may   *)
(* go on all the same.                                                     *)
(***************************************************************************)
EXTENDS Naturals

CONSTANT Levels  \* 1 up to the deepest level of nesting

VARIABLES
  depth,    \* the call that runs; those below it wait
  state,    \* state[l]: what the call at level l is at
  wrote,    \* wrote[l]: it has written its result
  careless  \* careless[l]: it went on after an error with its result written

States ==
  {"absent",
   "runs", "told",           \* the code runs; it was told of an error
   "evaluates", "thrown",    \* it evaluates; a call in there ended in an error
   "well", "badly",          \* it has ended
   "value", "error"}         \* what the caller gets

Init ==
  /\ depth = 0
  /\ state = [l \in Levels |-> "absent"]
  /\ wrote = [l \in Levels |-> FALSE]
  /\ careless = [l \in Levels |-> FALSE]

\* The call that runs goes from a state in S to one in T.
Turns(S, T) ==
  /\ depth \in Levels
  /\ state[depth] \in S
  /\ \E t \in T : state' = [state EXCEPT ![depth] = t]
  /\ UNCHANGED depth

Enter ==
  /\ depth + 1 \in Levels
  /\ depth > 0 => state[depth] = "evaluates"
  /\ depth' = depth + 1
  /\ state' = [state EXCEPT ![depth + 1] = "runs"]
  /\ UNCHANGED <<wrote, careless>>

Write ==
  /\ Turns({"runs"}, {"runs"})
  /\ wrote' = [wrote EXCEPT ![depth] = TRUE]
  /\ UNCHANGED careless

\* An evaluation in which a call failed does not return.
Work ==
  /\ \/ Turns({"runs"}, {"evaluates"})
     \/ Turns({"evaluates"}, {"runs"})
     \/ Turns({"runs", "evaluates", "thrown"}, {"told"})
     \/ Turns({"runs"}, {"well"})
     \/ Turns({"runs", "told"}, {"badly"})
  /\ UNCHANGED <<wrote, careless>>

\* It goes on after an error it was told of, or one kept from it.
Recover ==
  /\ Turns({"runs", "told"}, {"runs"})
  /\ careless' = [careless EXCEPT ![depth] = @ \/ wrote[depth]]
  /\ UNCHANGED wrote

Answer ==
  /\ \/ Turns({"badly"}, {"error"})
     \/ wrote[depth] /\ Turns({"well"}, {"value"})
     \/ (wrote[depth] => careless[depth]) /\ Turns({"well"}, {"error"})
  /\ UNCHANGED <<wrote, careless>>

Leave ==
  /\ depth \in Levels
  /\ state[depth] \in {"value", "error"}
  /\ depth' = depth - 1
  /\ state' = [l \in Levels |->
       IF l = depth THEN "absent"
       ELSE IF l = depth - 1 /\ state[depth] = "error" THEN "thrown"
       ELSE state[l]]
  /\ wrote' = [wrote EXCEPT ![depth] = FALSE]
  /\ careless' = [careless EXCEPT ![depth] = FALSE]

Next == Enter \/ Write \/ Work \/ Recover \/ Answer \/ Leave

Spec == Init /\ [][Next]_<<depth, state, wrote, careless>>
=============================================================================
