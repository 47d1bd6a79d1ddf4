----------------------------- MODULE Trampoline -----------------------------
(***************************************************************************)
(* A call of a Rust primop by the evaluator (nix-bindings/src/primop.rs):  *)
(* trampoline runs the closure with wrappers for the arguments and the     *)
(* return slot, catches its panics, and reports everything but a written   *)
(* result by parking an error on the C context of the call.  Forcing an    *)
(* argument evaluates Nix code, which may call a primop again, on a        *)
(* context of its own: the calls form a stack of frames.                   *)
(*                                                                         *)
(* A closure is any sequence of calls on its wrappers: the model keeps     *)
(* what those calls do to the context, the slot and the references, and    *)
(* leaves out the data.                                                    *)
(***************************************************************************)
EXTENDS Naturals

CONSTANTS
  MaxDepth,   \* bound: primop calls on the evaluator's stack
  MaxTemps    \* bound: PrimOpValues a closure owns at a time

ASSUME TrampolineAssumption == MaxDepth \in Nat /\ MaxTemps \in Nat

Levels == 1 .. MaxDepth

\* The C calls that evaluate Nix code: nix_value_force, nix_get_attr_byname
\* and nix_get_list_byidx.
Calls == {"force", "attr", "elem"}

VARIABLES
  depth,      \* frames on the stack; the top one is running
  call,       \* call[l]: the evaluating C call frame l is in, or "none"
  inner,      \* inner[l]: a primop called under that call ended in an error
  code,       \* code[l]: last_err_code of the frame's context
  slot,       \* slot[l]: the return value was initialised
  written,    \* PrimOpRet.written
  temps,      \* temps[l]: PrimOpValues the closure owns
  held,       \* held[l]: the error the closure was handed and has to treat
  ignored,    \* ignored[l]: it went on after one with the slot written
  result,     \* result[l]: how the closure ended
  answered    \* answered[l]: the trampoline has done its part

vars == <<depth, call, inner, code, slot, written, temps, held, ignored,
          result, answered>>

\* An error as the closure sees it, and what caused it.
Errors == [kind : {"KeyNotFound", "EvalError", "NullPointer", "Own"},
           cause : {"absent", "thrown", "own"}]
NoError == [kind |-> "none", cause |-> "none"]
Error(k, c) == [kind |-> k, cause |-> c]

TypeOK ==
  /\ depth \in 0 .. MaxDepth
  /\ call \in [Levels -> {"none"} \cup Calls]
  /\ inner \in [Levels -> BOOLEAN]
  /\ code \in [Levels -> {"ok", "key", "error", "set"}]
  /\ slot \in [Levels -> BOOLEAN]
  /\ written \in [Levels -> BOOLEAN]
  /\ temps \in [Levels -> 0 .. MaxTemps]
  /\ held \in [Levels -> Errors \cup {NoError}]
  /\ ignored \in [Levels -> BOOLEAN]
  /\ result \in [Levels -> {"none", "ok", "err", "panic"}]
  /\ answered \in [Levels -> BOOLEAN]

Init ==
  /\ depth = 0
  /\ call = [l \in Levels |-> "none"]
  /\ inner = [l \in Levels |-> FALSE]
  /\ code = [l \in Levels |-> "ok"]
  /\ slot = [l \in Levels |-> FALSE]
  /\ written = [l \in Levels |-> FALSE]
  /\ temps = [l \in Levels |-> 0]
  /\ held = [l \in Levels |-> NoError]
  /\ ignored = [l \in Levels |-> FALSE]
  /\ result = [l \in Levels |-> "none"]
  /\ answered = [l \in Levels |-> FALSE]

\* The closure of the top frame is running, and free to make its next call.
Running(l) ==
  /\ depth = l /\ l \in Levels
  /\ result[l] = "none" /\ call[l] = "none" /\ held[l] = NoError

Park(l, c) == code' = [code EXCEPT ![l] = c]
Hand(l, e) == held' = [held EXCEPT ![l] = e]

-----------------------------------------------------------------------------
(* The evaluator calls a primop, at top level or while a closure's call    *)
(* evaluates something; the frame gets a fresh context and return value.   *)

Enter ==
  /\ depth < MaxDepth
  /\ depth > 0 => call[depth] # "none" /\ ~inner[depth]
  /\ depth' = depth + 1
  /\ UNCHANGED <<call, inner, code, slot, written, temps, held, ignored,
                 result, answered>>

-----------------------------------------------------------------------------
(* PrimOpRet                                                               *)

\* Mutant: one of the set_ methods forgets to mark the slot.
SetOkUnmarked(l) ==
  /\ Running(l)
  /\ ~slot[l]
  /\ slot' = [slot EXCEPT ![l] = TRUE]
  /\ Park(l, "ok")
  /\ UNCHANGED <<depth, call, inner, written, temps, held, ignored, result,
                 answered>>

\* Any set_ method that succeeds: the C library accepts only a value that was
\* not initialised, and every C call resets the code when it is entered.
SetOk(l) ==
  /\ Running(l)
  /\ ~slot[l]
  /\ slot' = [slot EXCEPT ![l] = TRUE]
  /\ written' = [written EXCEPT ![l] = TRUE]
  /\ Park(l, "ok")
  /\ UNCHANGED <<depth, call, inner, temps, held, ignored, result, answered>>

\* Any set_ method that fails: in C (an error parked; null for the builders of
\* set_attrs and set_list), or on a NUL byte, before the first C call of the
\* method or after those that build an attribute set.
SetFails(l) ==
  /\ Running(l)
  /\ \/ /\ Park(l, "error")
        /\ \E k \in {"EvalError", "NullPointer"} : Hand(l, Error(k, "thrown"))
     \/ /\ Hand(l, Error("Own", "own"))
        /\ \E c \in {code[l], "ok"} : Park(l, c)
  /\ UNCHANGED <<depth, call, inner, slot, written, temps, ignored, result,
                 answered>>

\* make_int, ..., make_store_path: alloc, then init.
Make(l) ==
  /\ Running(l)
  /\ temps[l] < MaxTemps
  /\ temps' = [temps EXCEPT ![l] = @ + 1]
  /\ Park(l, "ok")
  /\ UNCHANGED <<depth, call, inner, slot, written, held, ignored, result,
                 answered>>

\* The allocation fails; or the initialisation or the conversion of the
\* string, and then dropping the allocated value resets the code.
MakeFails(l) ==
  /\ Running(l)
  /\ \/ Park(l, "error") /\ Hand(l, Error("NullPointer", "thrown"))
     \/ Park(l, "ok") /\ Hand(l, Error("EvalError", "thrown"))
     \/ Park(l, "ok") /\ Hand(l, Error("Own", "own"))
  /\ UNCHANGED <<depth, call, inner, slot, written, temps, ignored, result,
                 answered>>

-----------------------------------------------------------------------------
(* PrimOpArg, PrimOpValue, ArgAttrs, ArgList                               *)

\* force and the as_ accessors, ArgAttrs::get, ArgList::get.
StartCall(l, c) ==
  /\ Running(l)
  /\ c # "force" => temps[l] < MaxTemps
  /\ call' = [call EXCEPT ![l] = c]
  /\ Park(l, "ok")
  /\ UNCHANGED <<depth, inner, slot, written, temps, held, ignored, result,
                 answered>>

InCall(l, calls) ==
  /\ depth = l /\ l \in Levels
  /\ call[l] \in calls

Forced(l) ==
  /\ InCall(l, {"force"})
  /\ ~inner[l]
  /\ call' = [call EXCEPT ![l] = "none"]
  /\ UNCHANGED <<depth, inner, code, slot, written, temps, held, ignored,
                 result, answered>>

\* Mutant: force drops the error code of the call.
ForceThrowsUnchecked(l) ==
  /\ InCall(l, {"force"})
  /\ call' = [call EXCEPT ![l] = "none"]
  /\ Park(l, "error")
  /\ UNCHANGED <<depth, inner, slot, written, temps, held, ignored, result,
                 answered>>

\* The evaluation throws, of itself or because a primop in it failed.
ForceThrows(l) ==
  /\ InCall(l, {"force"})
  /\ call' = [call EXCEPT ![l] = "none"]
  /\ Park(l, "error")
  /\ Hand(l, Error("EvalError", "thrown"))
  /\ UNCHANGED <<depth, inner, slot, written, temps, ignored, result,
                 answered>>

\* ArgAttrs::get and ArgList::get return an owned reference.
Got(l) ==
  /\ InCall(l, {"attr", "elem"})
  /\ ~inner[l]
  /\ call' = [call EXCEPT ![l] = "none"]
  /\ temps' = [temps EXCEPT ![l] = @ + 1]
  /\ UNCHANGED <<depth, inner, code, slot, written, held, ignored, result,
                 answered>>

\* The key is absent: the call returns null, with or without a parked code.
GetMissing(l) ==
  /\ InCall(l, {"attr"})
  /\ ~inner[l]
  /\ call' = [call EXCEPT ![l] = "none"]
  /\ \E c \in {"ok", "key"} : Park(l, c)
  /\ Hand(l, Error("KeyNotFound", "absent"))
  /\ UNCHANGED <<depth, inner, slot, written, temps, ignored, result,
                 answered>>

\* The evaluation throws: null again.  ArgAttrs::get makes it KeyNotFound,
\* ArgList::get NullPointer.
GetThrows(l) ==
  /\ InCall(l, {"attr", "elem"})
  /\ call' = [call EXCEPT ![l] = "none"]
  /\ Park(l, "error")
  /\ Hand(l, Error(IF call[l] = "attr" THEN "KeyNotFound" ELSE "NullPointer",
                   "thrown"))
  /\ UNCHANGED <<depth, inner, slot, written, temps, ignored, result,
                 answered>>

\* A type that does not fit, an index out of bounds: the last C call was
\* nix_get_type or nix_get_list_size.
Mismatch(l) ==
  /\ Running(l)
  /\ Park(l, "ok")
  /\ Hand(l, Error("Own", "own"))
  /\ UNCHANGED <<depth, call, inner, slot, written, temps, ignored, result,
                 answered>>

\* ArgAttrs::has and ArgAttrs::keys take false and null for an answer: a call
\* that failed parks its error, and the closure goes on without knowing.
Overlook(l) ==
  /\ Running(l)
  /\ Park(l, "error")
  /\ ignored' = [ignored EXCEPT ![l] = @ \/ written[l]]
  /\ UNCHANGED <<depth, call, inner, slot, written, temps, held, result,
                 answered>>

\* Mutant: a value that is gone is dropped again.
DropTempTwice(l) ==
  /\ Running(l)
  /\ temps' = [temps EXCEPT ![l] = @ - 1]
  /\ Park(l, "ok")
  /\ UNCHANGED <<depth, call, inner, slot, written, held, ignored, result,
                 answered>>

\* PrimOpValue::drop; nix_value_decref is a C call like any other.
DropTemp(l) ==
  /\ Running(l)
  /\ temps[l] > 0
  /\ temps' = [temps EXCEPT ![l] = @ - 1]
  /\ Park(l, "ok")
  /\ UNCHANGED <<depth, call, inner, slot, written, held, ignored, result,
                 answered>>

-----------------------------------------------------------------------------
(* The closure ends; unwinding or returning drops the values it owns.      *)

\* The closure treats the error it was handed and goes on.
Ignore(l) ==
  /\ depth = l /\ l \in Levels
  /\ result[l] = "none" /\ held[l] # NoError
  /\ Hand(l, NoError)
  /\ inner' = [inner EXCEPT ![l] = FALSE]
  /\ ignored' = [ignored EXCEPT ![l] = @ \/ written[l]]
  /\ UNCHANGED <<depth, call, code, slot, written, temps, result, answered>>

\* Ok(()), an error (handed to it or its own), or a panic, which
\* catch_unwind stops.
End(l, r) ==
  /\ depth = l /\ l \in Levels
  /\ result[l] = "none" /\ call[l] = "none"
  /\ r = "ok" => held[l] = NoError
  /\ result' = [result EXCEPT ![l] = r]
  /\ temps' = [temps EXCEPT ![l] = 0]
  /\ IF temps[l] > 0 THEN Park(l, "ok") ELSE UNCHANGED code
  /\ UNCHANGED <<depth, call, inner, slot, written, held, ignored, answered>>

\* Mutant: Ok(()) is believed, whether or not the slot was written.
AnswerUnwritten(l) ==
  /\ depth = l /\ l \in Levels
  /\ result[l] # "none" /\ ~answered[l]
  /\ answered' = [answered EXCEPT ![l] = TRUE]
  /\ IF result[l] = "ok" THEN UNCHANGED code ELSE Park(l, "set")
  /\ UNCHANGED <<depth, call, inner, slot, written, temps, held, ignored,
                 result>>

\* The end of trampoline: return early on a written result, or
\* nix_set_err_msg on the context of the call.
Answer(l) ==
  /\ depth = l /\ l \in Levels
  /\ result[l] # "none" /\ ~answered[l]
  /\ answered' = [answered EXCEPT ![l] = TRUE]
  /\ IF result[l] = "ok" /\ written[l] THEN UNCHANGED code ELSE Park(l, "set")
  /\ UNCHANGED <<depth, call, inner, slot, written, temps, held, ignored,
                 result>>

\* The evaluator looks at the context and takes the value or throws; the
\* frame is gone.  An error passes through the call of the frame below.
Leave(l) ==
  /\ depth = l /\ l \in Levels
  /\ answered[l]
  /\ depth' = l - 1
  /\ inner' = [k \in Levels |->
                 IF k = l THEN FALSE
                 ELSE IF k = l - 1 THEN code[l] # "ok" ELSE inner[k]]
  /\ Park(l, "ok")
  /\ slot' = [slot EXCEPT ![l] = FALSE]
  /\ written' = [written EXCEPT ![l] = FALSE]
  /\ Hand(l, NoError)
  /\ ignored' = [ignored EXCEPT ![l] = FALSE]
  /\ result' = [result EXCEPT ![l] = "none"]
  /\ answered' = [answered EXCEPT ![l] = FALSE]
  /\ UNCHANGED <<call, temps>>

-----------------------------------------------------------------------------
Setting(l) == SetOk(l) \/ SetFails(l) \/ Make(l) \/ MakeFails(l)

Reading(l) ==
  \/ \E c \in Calls : StartCall(l, c)
  \/ Forced(l)
  \/ ForceThrows(l)
  \/ Got(l)
  \/ GetMissing(l)
  \/ GetThrows(l)
  \/ Mismatch(l)
  \/ Overlook(l)
  \/ DropTemp(l)

Ending(l) ==
  \/ Ignore(l)
  \/ \E r \in {"ok", "err", "panic"} : End(l, r)
  \/ Answer(l)
  \/ Leave(l)

Next ==
  \/ Enter
  \/ \E l \in Levels : Setting(l) \/ Reading(l) \/ Ending(l)

Spec == Init /\ [][Next]_vars

-----------------------------------------------------------------------------
\* The marker the trampoline trusts says what the C value is: set exactly when
\* some set_ method initialised the slot, whatever failed before or after.
WrittenMeansSet == \A l \in Levels : written[l] <=> slot[l]

\* A closure that failed, panicked or wrote nothing never yields a value, and
\* the error is the trampoline's own: neither dropping the closure's values
\* nor a call it ignored replaces it.
FailureSurfaces ==
  \A l \in Levels :
    answered[l] /\ ~(result[l] = "ok" /\ written[l]) => code[l] = "set"

\* The evaluator takes a value only from a closure that ended well, and then
\* there is a value to take.
ValueJustified ==
  \A l \in Levels :
    answered[l] /\ code[l] = "ok" => result[l] = "ok" /\ slot[l]

\* A closure that wrote its result and ended well is believed, unless it
\* went on after an error after the write, knowingly or not (that error may
\* still be parked): errors before the write do not come back.
ValueDelivered ==
  \A l \in Levels :
    answered[l] /\ result[l] = "ok" /\ written[l] /\ ~ignored[l]
      => code[l] = "ok"

\* An error that a primop called in the evaluation ended with reaches the
\* closure above as an error of the call it made.
InnerFailureTold ==
  \A l \in Levels : inner[l] /\ call[l] = "none" => held[l].cause = "thrown"

\* What the call at level l is at.
CallState(l) ==
  IF l > depth THEN "absent"
  ELSE IF answered[l] THEN IF code[l] = "ok" THEN "value" ELSE "error"
  ELSE IF result[l] # "none" THEN IF result[l] = "ok" THEN "well" ELSE "badly"
  ELSE IF call[l] # "none" THEN IF inner[l] THEN "thrown" ELSE "evaluates"
  ELSE IF held[l] = NoError THEN "runs" ELSE "told"

\* Through last_err_code, a marker and the return values of C, nested primop
\* calls come to calls of a language with exceptions: what a call yields is
\* decided by how its closure ended and what it wrote, and by nothing that ran
\* meanwhile, and an error goes to the closure of the call below.
Stack == INSTANCE NestedCalls
  WITH state <- [l \in Levels |-> CallState(l)],
       wrote <- slot,
       careless <- ignored
ImplementsStack == Stack!Spec
=============================================================================
