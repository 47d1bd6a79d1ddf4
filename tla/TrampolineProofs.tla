-------------------------- MODULE TrampolineProofs --------------------------
(***************************************************************************)
(* Proofs about Trampoline, for any depth of nested primop calls and any   *)
(* number of values a closure owns.  FrameInv says what a frame looks like *)
(* below, at and above the top of the stack, and what the error code of    *)
(* its context can be when its closure wrote the slot or has ended.        *)
(***************************************************************************)
EXTENDS Trampoline, TLAPS

\* A level above the stack is ready for the next call.
Fresh(l) ==
  /\ call[l] = "none" /\ ~inner[l] /\ code[l] = "ok" /\ ~slot[l]
  /\ ~written[l] /\ temps[l] = 0 /\ held[l] = NoError /\ ~ignored[l]
  /\ result[l] = "none" /\ ~answered[l]

\* A frame under the top one waits in its evaluating call.
Waiting(l) == call[l] # "none" /\ ~inner[l]

\* A call in progress has room for what it returns; the closure treats one
\* error at a time; ending gives the values back.
Control(l) ==
  /\ call[l] # "none" => result[l] = "none" /\ held[l] = NoError
  /\ call[l] \in {"attr", "elem"} => temps[l] < MaxTemps
  /\ result[l] # "none" => temps[l] = 0
  /\ answered[l] => result[l] # "none"

\* The code of the context, as far as the trampoline depends on it.
Coded(l) ==
  /\ written[l] /\ ~ignored[l] /\ held[l] = NoError /\ ~answered[l]
       => code[l] = "ok"
  /\ answered[l] =>
       IF result[l] = "ok" /\ written[l]
       THEN ~ignored[l] => code[l] = "ok"
       ELSE code[l] = "set"
  /\ result[l] = "ok" => held[l] = NoError

FrameInv ==
  /\ TypeOK
  /\ WrittenMeansSet
  /\ \A l \in Levels : l > depth => Fresh(l)
  /\ \A l \in Levels : l < depth => Waiting(l)
  /\ \A l \in Levels : Control(l) /\ Coded(l)
  /\ InnerFailureTold

LEMMA FrameInvInit == Init => FrameInv
BY TrampolineAssumption
   DEF Init, FrameInv, TypeOK, WrittenMeansSet, Fresh, Waiting, Control,
       Coded, InnerFailureTold, Levels, NoError

LEMMA FrameInvStep == FrameInv /\ [Next]_vars => FrameInv'
<1> SUFFICES ASSUME FrameInv, [Next]_vars
             PROVE  FrameInv'
  OBVIOUS
<1> USE TrampolineAssumption
<1> USE DEF FrameInv, TypeOK, WrittenMeansSet, Fresh, Waiting, Control, Coded,
            InnerFailureTold, Levels, Calls, Park, Hand, Running, InCall,
            Errors, NoError, Error
<1>1. CASE Enter
  BY <1>1 DEF Enter
<1>2. ASSUME NEW l \in Levels, SetOk(l)
       PROVE  FrameInv'
  BY <1>2 DEF SetOk
<1>3. ASSUME NEW l \in Levels, SetFails(l)
       PROVE  FrameInv'
  <2>1. PICK e \in Errors, c \in {"ok", "key", "error", "set"} :
          held' = [held EXCEPT ![l] = e] /\ code' = [code EXCEPT ![l] = c]
    BY <1>3 DEF SetFails
  <2>2. /\ Running(l) /\ e # NoError
        /\ UNCHANGED <<depth, call, inner, slot, written, temps, ignored,
                       result, answered>>
    BY <1>3 DEF SetFails
  <2> QED
    BY <2>1, <2>2
<1>4. ASSUME NEW l \in Levels, Make(l)
       PROVE  FrameInv'
  BY <1>4 DEF Make
<1>5. ASSUME NEW l \in Levels, MakeFails(l)
       PROVE  FrameInv'
  <2>1. PICK e \in Errors, c \in {"ok", "key", "error", "set"} :
          held' = [held EXCEPT ![l] = e] /\ code' = [code EXCEPT ![l] = c]
    BY <1>5 DEF MakeFails
  <2> QED
    BY <1>5, <2>1 DEF MakeFails
<1>6. ASSUME NEW l \in Levels, NEW c \in Calls, StartCall(l, c)
       PROVE  FrameInv'
  BY <1>6 DEF StartCall
<1>7. ASSUME NEW l \in Levels, Forced(l)
       PROVE  FrameInv'
  BY <1>7 DEF Forced
<1>8. ASSUME NEW l \in Levels, ForceThrows(l)
       PROVE  FrameInv'
  BY <1>8 DEF ForceThrows
<1>9. ASSUME NEW l \in Levels, Got(l)
       PROVE  FrameInv'
  BY <1>9 DEF Got
<1>10. ASSUME NEW l \in Levels, GetMissing(l)
       PROVE  FrameInv'
  BY <1>10 DEF GetMissing
<1>11. ASSUME NEW l \in Levels, GetThrows(l)
       PROVE  FrameInv'
  BY <1>11 DEF GetThrows
<1>12. ASSUME NEW l \in Levels, Mismatch(l)
       PROVE  FrameInv'
  BY <1>12 DEF Mismatch
<1>13. ASSUME NEW l \in Levels, DropTemp(l)
       PROVE  FrameInv'
  BY <1>13 DEF DropTemp
<1>14. ASSUME NEW l \in Levels, Ignore(l) \/ Overlook(l)
       PROVE  FrameInv'
  <2>1. CASE Ignore(l)
    BY <2>1 DEF Ignore
  <2>2. CASE Overlook(l)
    BY <2>2 DEF Overlook
  <2> QED
    BY <1>14, <2>1, <2>2
<1>15. ASSUME NEW l \in Levels, NEW r \in {"ok", "err", "panic"}, End(l, r)
       PROVE  FrameInv'
  BY <1>15, SMTT(30) DEF End
<1>16. ASSUME NEW l \in Levels, Answer(l)
       PROVE  FrameInv'
  BY <1>16, SMTT(30) DEF Answer
<1>17. ASSUME NEW l \in Levels, Leave(l)
       PROVE  FrameInv'
  <2> DEFINE Below == [k \in Levels |-> IF k = l THEN FALSE
                        ELSE IF k = l - 1 THEN code[l] # "ok" ELSE inner[k]]
  <2>1. inner' = Below
    BY <1>17 DEF Leave
  <2>2. inner' \in [Levels -> BOOLEAN] /\ ~inner'[l]
    BY <2>1
  <2>3. ASSUME NEW k \in Levels, k # l
        PROVE  /\ k # l - 1 => inner'[k] = inner[k]
               /\ code'[k] = code[k] /\ slot'[k] = slot[k]
               /\ written'[k] = written[k] /\ temps'[k] = temps[k]
               /\ held'[k] = held[k] /\ ignored'[k] = ignored[k]
               /\ result'[k] = result[k] /\ answered'[k] = answered[k]
               /\ call'[k] = call[k]
    BY <1>17, <2>1, <2>3 DEF Leave
  <2>4. TypeOK' /\ depth' = l - 1
    <3>1. depth' = l - 1 /\ depth' \in 0 .. MaxDepth
      BY <1>17 DEF Leave
    <3>2. /\ code' \in [Levels -> {"ok", "key", "error", "set"}]
          /\ slot' \in [Levels -> BOOLEAN] /\ written' \in [Levels -> BOOLEAN]
          /\ ignored' \in [Levels -> BOOLEAN]
          /\ answered' \in [Levels -> BOOLEAN]
      BY <1>17 DEF Leave
    <3>3. /\ held' \in [Levels -> Errors \cup {NoError}]
          /\ result' \in [Levels -> {"none", "ok", "err", "panic"}]
          /\ UNCHANGED <<call, temps>>
      BY <1>17 DEF Leave
    <3> QED
      BY <2>2, <3>1, <3>2, <3>3
  <2>5. Fresh(l)'
    BY <1>17, <2>2 DEF Leave
  <2> HIDE DEF Below
  <2>6. \A k \in Levels : k > depth' => Fresh(k)'
    BY <1>17, <2>3, <2>4, <2>5 DEF Leave
  <2>7. \A k \in Levels : k < depth' => Waiting(k)'
    BY <1>17, <2>3, <2>4 DEF Leave
  <2>8. \A k \in Levels : Control(k)' /\ Coded(k)'
    BY <1>17, <2>3, <2>5 DEF Leave
  <2>9. WrittenMeansSet' /\ InnerFailureTold'
    BY <1>17, <2>3, <2>4, <2>5 DEF Leave
  <2> QED
    BY <2>4, <2>6, <2>7, <2>8, <2>9
<1>18. CASE UNCHANGED vars
  BY <1>18 DEF vars
<1> HIDE DEF FrameInv, Levels, Calls
<1> QED
  BY <1>1, <1>2, <1>3, <1>4, <1>5, <1>6, <1>7, <1>8, <1>9, <1>10, <1>11,
     <1>12, <1>13, <1>14, <1>15, <1>16, <1>17, <1>18
     DEF Next, Setting, Reading, Ending

THEOREM FrameInvariant == Spec => []FrameInv
<1>1. FrameInv /\ [Next]_vars => FrameInv'
  BY FrameInvStep
<1> QED
  BY FrameInvInit, <1>1, PTL DEF Spec

\* Every reachable state of nested primop calls has the types the code gives it.
THEOREM TypesCorrect == Spec => []TypeOK
<1>1. FrameInv => TypeOK
  BY DEF FrameInv
<1> QED
  BY FrameInvariant, <1>1, PTL

\* PrimOpRet.written is true exactly when a set_ method initialised the slot.
THEOREM MarkerIsTrue == Spec => []WrittenMeansSet
<1>1. FrameInv => WrittenMeansSet
  BY DEF FrameInv, WrittenMeansSet
<1> QED
  BY FrameInvariant, <1>1, PTL

\* A closure that failed, panicked or wrote nothing leaves trampoline's own
\* error parked, at every depth.
THEOREM FailuresSurface == Spec => []FailureSurfaces
<1>1. FrameInv => FailureSurfaces
  BY DEF FrameInv, Control, Coded, FailureSurfaces
<1> QED
  BY FrameInvariant, <1>1, PTL

\* trampoline returns without a parked error only if the closure returned
\* Ok(()) and the slot holds a value.
THEOREM ValuesJustified == Spec => []ValueJustified
<1>1. FrameInv => ValueJustified
  BY DEF FrameInv, Coded, WrittenMeansSet, ValueJustified
<1> QED
  BY FrameInvariant, <1>1, PTL

\* A written result is delivered unless the closure went on after an error
\* after the write.
THEOREM ValuesDelivered == Spec => []ValueDelivered
<1>1. FrameInv => ValueDelivered
  BY DEF FrameInv, Coded, ValueDelivered
<1> QED
  BY FrameInvariant, <1>1, PTL

\* The error of a nested primop is an error of the call the outer closure made.
THEOREM InnerFailuresTold == Spec => []InnerFailureTold
<1>1. FrameInv => InnerFailureTold
  BY DEF FrameInv, InnerFailureTold
<1> QED
  BY FrameInvariant, <1>1, PTL

-----------------------------------------------------------------------------
(* The refinement of NestedCalls.  A step of Trampoline is one of the      *)
(* frame that runs, which Moved describes, or a frame comes or goes.       *)

StateMap == [l \in Levels |-> CallState(l)]

AbstractStep == Stack!Next \/ UNCHANGED <<depth, StateMap, slot, ignored>>

\* At level k nothing changes that the state of the call there depends on.
SameFrame(k) ==
  /\ call'[k] = call[k] /\ inner'[k] = inner[k] /\ code'[k] = code[k]
  /\ held'[k] = held[k] /\ result'[k] = result[k]
  /\ answered'[k] = answered[k]

LEMMA Moved ==
  ASSUME NEW l \in Levels, UNCHANGED depth,
         \A k \in Levels \ {l} : SameFrame(k)
  PROVE  StateMap' = [StateMap EXCEPT ![l] = CallState(l)']
<1>1. \A k \in Levels \ {l} : CallState(k)' = CallState(k)
  BY DEF SameFrame, CallState
<1> QED
  BY <1>1 DEF StateMap

\* The moves of the frame that runs that change neither what it wrote nor
\* whether it was careless.
LEMMA WorkMove ==
  ASSUME NEW l \in Levels, depth = l, UNCHANGED <<depth, slot, ignored>>,
         \A k \in Levels \ {l} : SameFrame(k),
         \/ CallState(l) = "runs"
            /\ CallState(l)' \in {"runs", "evaluates", "told", "well", "badly"}
         \/ CallState(l) = "evaluates" /\ CallState(l)' \in {"runs", "told"}
         \/ CallState(l) = "thrown" /\ CallState(l)' = "told"
         \/ CallState(l) = "told" /\ CallState(l)' = "badly"
  PROVE  AbstractStep
<1>1. StateMap' = [StateMap EXCEPT ![l] = CallState(l)']
  BY Moved
<1>2. StateMap[l] = CallState(l) /\ StateMap = [k \in Levels |-> StateMap[k]]
  BY DEF StateMap
<1>3. CASE CallState(l)' = CallState(l)
  BY <1>1, <1>2, <1>3 DEF AbstractStep
<1>4. CASE CallState(l)' # CallState(l)
  <2>1. Stack!Work
    BY <1>1, <1>2, <1>4 DEF Stack!Work, Stack!Turns, StateMap
  <2> QED
    BY <2>1 DEF AbstractStep, Stack!Next
<1> QED
  BY <1>3, <1>4

LEMMA EnterStep == FrameInv /\ Enter => AbstractStep
<1> SUFFICES ASSUME FrameInv, Enter PROVE AbstractStep
  OBVIOUS
<1> USE TrampolineAssumption DEF FrameInv, TypeOK
<1>1. PICK l \in Levels : l = depth + 1
  BY DEF Enter, Levels
<1>2. depth' = l /\ Fresh(l)
  BY <1>1 DEF Enter, Levels
<1>3. CallState(l)' = "runs"
  BY <1>2 DEF Enter, Fresh, CallState, Levels
<1>4. \A k \in Levels \ {l} : CallState(k)' = CallState(k)
  BY <1>1, <1>2 DEF Enter, CallState, Levels
<1>5. StateMap' = [StateMap EXCEPT ![l] = "runs"]
  BY <1>3, <1>4 DEF StateMap
<1>6. depth > 0 => StateMap[depth] = "evaluates"
  BY DEF Enter, Control, CallState, StateMap, Levels
<1>7. Stack!Enter
  BY <1>1, <1>2, <1>5, <1>6 DEF Stack!Enter, Enter, StateMap
<1> QED
  BY <1>7 DEF AbstractStep, Stack!Next

LEMMA LeaveStep == FrameInv /\ (\E l \in Levels : Leave(l)) => AbstractStep
<1> SUFFICES ASSUME FrameInv, NEW l \in Levels, Leave(l) PROVE AbstractStep
  OBVIOUS
<1> USE TrampolineAssumption DEF FrameInv, TypeOK
<1>1. /\ depth = l /\ depth' = l - 1 /\ answered[l]
      /\ code' = [code EXCEPT ![l] = "ok"]
      /\ held' = [held EXCEPT ![l] = NoError]
      /\ result' = [result EXCEPT ![l] = "none"]
      /\ answered' = [answered EXCEPT ![l] = FALSE]
      /\ UNCHANGED call
  BY DEF Leave, Park, Hand
<1>2. StateMap[l] = IF code[l] = "ok" THEN "value" ELSE "error"
  BY <1>1 DEF StateMap, CallState, Levels
<1>3. CallState(l)' = "absent"
  BY <1>1 DEF CallState, Levels
<1>4. \A k \in Levels : k # l => inner'[k] =
        IF k = l - 1 THEN code[l] # "ok" ELSE inner[k]
  BY DEF Leave
<1>5. ASSUME NEW k \in Levels, k # l, k # l - 1
      PROVE  CallState(k)' = CallState(k)
  <2>1. SameFrame(k)
    BY <1>1, <1>4, <1>5 DEF SameFrame
  <2>2. (k > depth') <=> (k > depth)
    BY <1>1, <1>5 DEF Levels
  <2>3. (k <= depth') <=> (k <= depth)
    BY <1>1, <1>5 DEF Levels
  <2> QED
    BY <2>1, <2>2, <2>3 DEF SameFrame, CallState
<1>6. ASSUME l - 1 \in Levels
      PROVE  /\ CallState(l - 1) = "evaluates"
             /\ CallState(l - 1)' =
                  IF code[l] = "ok" THEN "evaluates" ELSE "thrown"
  <2>1. /\ call[l - 1] # "none" /\ ~inner[l - 1] /\ result[l - 1] = "none"
        /\ ~answered[l - 1]
    BY <1>1, <1>6 DEF Waiting, Control, Levels
  <2> QED
    BY <1>1, <1>4, <1>6, <2>1 DEF CallState, Levels
<1>7. StateMap' = [k \in Levels |->
        IF k = l THEN "absent"
        ELSE IF k = l - 1 /\ StateMap[l] = "error" THEN "thrown"
        ELSE StateMap[k]]
  BY <1>2, <1>3, <1>5, <1>6 DEF StateMap
<1>8. Stack!Leave
  BY <1>1, <1>2, <1>7 DEF Stack!Leave, Leave, StateMap
<1> QED
  BY <1>8 DEF AbstractStep, Stack!Next

LEMMA StackStep == FrameInv /\ [Next]_vars => AbstractStep
<1> SUFFICES ASSUME FrameInv, [Next]_vars PROVE AbstractStep
  OBVIOUS
<1> USE TrampolineAssumption
<1> DEFINE Same(l) == \A k \in Levels \ {l} : SameFrame(k)
<1> USE DEF FrameInv, TypeOK, Control, CallState, Levels, Calls, Park, Hand,
            Running, InCall, SameFrame, Errors, NoError, Error,
            InnerFailureTold
<1>1. ASSUME NEW l \in Levels, SetOk(l) PROVE AbstractStep
  <2>1. Same(l) /\ CallState(l) = "runs" /\ CallState(l)' = "runs"
    BY <1>1 DEF SetOk
  <2>2. StateMap' = [StateMap EXCEPT ![l] = "runs"] /\ StateMap[l] = "runs"
    BY <1>1, <2>1, Moved DEF SetOk, StateMap
  <2>3. Stack!Write
    BY <1>1, <2>2 DEF SetOk, Stack!Write, Stack!Turns, StateMap
  <2> QED
    BY <2>3 DEF AbstractStep, Stack!Next
<1>2. ASSUME NEW l \in Levels, SetFails(l) PROVE AbstractStep
  <2>1. Same(l) /\ CallState(l) = "runs" /\ CallState(l)' = "told"
    BY <1>2 DEF SetFails
  <2> QED
    BY <1>2, <2>1, WorkMove DEF SetFails
<1>3. ASSUME NEW l \in Levels, Make(l) \/ DropTemp(l) PROVE AbstractStep
  <2>1. Same(l) /\ CallState(l) = "runs" /\ CallState(l)' = "runs"
    BY <1>3 DEF Make, DropTemp
  <2> QED
    BY <1>3, <2>1, WorkMove DEF Make, DropTemp
<1>4. ASSUME NEW l \in Levels, MakeFails(l) \/ Mismatch(l) PROVE AbstractStep
  <2>1. Same(l) /\ CallState(l) = "runs" /\ CallState(l)' = "told"
    BY <1>4 DEF MakeFails, Mismatch
  <2> QED
    BY <1>4, <2>1, WorkMove DEF MakeFails, Mismatch
<1>5. ASSUME NEW l \in Levels, NEW c \in Calls, StartCall(l, c)
      PROVE  AbstractStep
  <2>1. ~inner[l]
    BY <1>5 DEF StartCall
  <2>2. Same(l) /\ CallState(l) = "runs" /\ CallState(l)' = "evaluates"
    BY <1>5, <2>1 DEF StartCall
  <2> QED
    BY <1>5, <2>2, WorkMove DEF StartCall
<1>6. ASSUME NEW l \in Levels, Forced(l) \/ Got(l) PROVE AbstractStep
  <2>1. Same(l) /\ CallState(l) = "evaluates" /\ CallState(l)' = "runs"
    BY <1>6 DEF Forced, Got
  <2> QED
    BY <1>6, <2>1, WorkMove DEF Forced, Got
<1>7. ASSUME NEW l \in Levels, GetMissing(l) \/ ForceThrows(l) \/ GetThrows(l)
      PROVE  AbstractStep
  <2>1. Same(l) /\ CallState(l) \in {"evaluates", "thrown"}
    BY <1>7 DEF GetMissing, ForceThrows, GetThrows
  <2>2. CallState(l)' = "told"
    BY <1>7 DEF GetMissing, ForceThrows, GetThrows
  <2> QED
    BY <1>7, <2>1, <2>2, WorkMove DEF GetMissing, ForceThrows, GetThrows
<1>8. ASSUME NEW l \in Levels, Ignore(l) \/ Overlook(l)
      PROVE  AbstractStep
  <2>1. /\ Same(l) /\ CallState(l) \in {"runs", "told"}
        /\ CallState(l)' = "runs" /\ UNCHANGED <<depth, slot>>
    BY <1>8 DEF Ignore, Overlook
  <2>2. /\ StateMap' = [StateMap EXCEPT ![l] = "runs"]
        /\ StateMap[l] \in {"runs", "told"}
    BY <2>1, Moved DEF StateMap
  <2>3. ignored' = [ignored EXCEPT ![l] = @ \/ slot[l]]
    BY <1>8 DEF Ignore, Overlook, WrittenMeansSet
  <2>4. depth = l
    BY <1>8 DEF Ignore, Overlook
  <2>5. Stack!Recover
    BY <2>1, <2>2, <2>3, <2>4 DEF Stack!Recover, Stack!Turns, StateMap
  <2> QED
    BY <2>5 DEF AbstractStep, Stack!Next
<1>9. ASSUME NEW l \in Levels, NEW r \in {"ok", "err", "panic"}, End(l, r)
      PROVE  AbstractStep
  <2>1. Same(l) /\ CallState(l) \in {"runs", "told"}
    BY <1>9 DEF End
  <2>2. CallState(l)' = IF r = "ok" THEN "well" ELSE "badly"
    BY <1>9 DEF End
  <2>3. r = "ok" => CallState(l) = "runs"
    BY <1>9 DEF End
  <2> QED
    BY <1>9, <2>1, <2>2, <2>3, WorkMove DEF End
<1>10. ASSUME NEW l \in Levels, Answer(l) PROVE AbstractStep
  <2> DEFINE yields == IF result[l] = "ok" /\ written[l] /\ code[l] = "ok"
                       THEN "value" ELSE "error"
  <2>1. /\ Same(l) /\ UNCHANGED <<depth, slot, ignored>>
        /\ CallState(l) = IF result[l] = "ok" THEN "well" ELSE "badly"
    BY <1>10 DEF Answer
  <2>2. CallState(l)' = yields
    BY <1>10 DEF Answer
  <2>3. result[l] = "ok" /\ written[l] /\ code[l] # "ok" => ignored[l]
    BY <1>10 DEF Answer, Coded
  <2>4. slot[l] <=> written[l]
    BY DEF WrittenMeansSet
  <2>5. /\ StateMap' = [StateMap EXCEPT ![l] = yields]
        /\ StateMap[l] = IF result[l] = "ok" THEN "well" ELSE "badly"
    BY <2>1, <2>2, Moved DEF StateMap
  <2>6. depth = l
    BY <1>10 DEF Answer
  <2>7. Stack!Answer
    BY <2>1, <2>3, <2>4, <2>5, <2>6 DEF Stack!Answer, Stack!Turns, StateMap
  <2> QED
    BY <2>7 DEF AbstractStep, Stack!Next
<1>11. CASE UNCHANGED vars
  BY <1>11 DEF vars, AbstractStep, StateMap
<1> HIDE DEF FrameInv, Levels, Calls
<1> QED
  BY EnterStep, LeaveStep, <1>1, <1>2, <1>3, <1>4, <1>5, <1>6, <1>7, <1>8,
     <1>9, <1>10, <1>11 DEF Next, Setting, Reading, Ending

\* Nested primop calls of any depth come to calls of a language with
\* exceptions: error codes, the written marker and nulls do not show.
THEOREM StackImplemented == Spec => ImplementsStack
<1>1. Init => Stack!Init
  BY DEF Init, Stack!Init, CallState, Levels
<1>2. FrameInv /\ [Next]_vars
        => [Stack!Next]_<<depth, [l \in Levels |-> CallState(l)], slot,
                          ignored>>
  BY StackStep DEF AbstractStep, StateMap
<1> QED
  BY FrameInvariant, <1>1, <1>2, PTL DEF Spec, ImplementsStack, Stack!Spec
=============================================================================
