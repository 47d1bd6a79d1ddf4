---------------------------- MODULE ErrorBuffer ----------------------------
(***************************************************************************)
(* How the bindings turn a failed C call into a Rust error.  Every C entry *)
(* point resets the last_err_code of the nix_c_context it is given, and    *)
(* parks a code and a message there when it fails; the wrapper then reads  *)
(* that buffer back, in one of several conventions (nix-bindings/src/      *)
(* error.rs, store.rs, attrs.rs, eval.rs, primop.rs).                      *)
(*                                                                         *)
(* The contract of lib.rs (one thread at a time calls into a context)      *)
(* leaves one way to write the buffer between a call and the reading of    *)
(* its error: a C call that evaluates Nix code may run a primop, whose     *)
(* closure may own a Store or StorePath that holds the very same context.  *)
(* And PrimOp::new drops its closure, with what it owns, before it reads.  *)
(* Calls nest; the innermost one runs.                                     *)
(***************************************************************************)
EXTENDS Naturals

CONSTANTS
  Contexts,   \* nix_c_contexts
  None,       \* no context
  MaxDepth,   \* bound: nested calls
  MaxCalls    \* bound: calls in a behaviour

ASSUME ErrorBufferAssumption ==
  /\ MaxDepth \in Nat /\ MaxCalls \in Nat
  /\ None \notin Contexts

Levels == 1 .. MaxDepth

\* Ways to find the error of a call:
\*   code      the call returns a nix_err, given to check_err
\*   pointer   null means failure: check_ptr
\*   message   null means failure or absence: null_or_context_err, get_attr
\*   optional  null means absence unless a code is parked: get_derivation
\*   lossy     null is NullPointer, the buffer is not read
\*   alloc     like pointer, but PrimOp::new drops the closure in between
\*   register  like code, but PrimOp::register reads the primop's own context
\*   swallow   null or false is the answer "no", the buffer is not read:
\*             is_valid_path, query_path_from_hash_part, has_attr,
\*             ArgAttrs::has; a name in attr_keys or ArgAttrs::keys is left out
Conventions ==
  {"code", "pointer", "message", "optional", "lossy", "alloc", "register",
   "swallow"}

\* The wrappers in which a call that failed can look like one that found
\* nothing.
Swallowing == {"swallow"}

\* What the C function did.  Null or false without an error is "empty".
Outcomes == {"done", "failed", "empty"}

VARIABLES
  depth,      \* calls in progress
  conv,       \* conv[l]: the convention of call l
  ctx,        \* ctx[l]: the context it was given
  source,     \* source[l]: the context its error is read from
  id,         \* id[l]: identifies the call, and the message it parks
  out,        \* out[l]: its outcome, or "running"
  touched,    \* touched[l]: a nested call failed on its source meanwhile
  code,       \* code[c]: whether last_err_code is an error
  msg,        \* msg[c]: the call that wrote last_err
  calls,      \* calls started so far
  last        \* the last call that returned to Rust and what it became

frameVars == <<conv, ctx, source, id, out, touched>>
bufferVars == <<code, msg>>
vars == <<depth, frameVars, bufferVars, calls, last>>

Ids == 0 .. MaxCalls    \* 0: no call, no message

\* What the wrapper returned: Ok, Ok(None) (or false, or no name), or Err with
\* the message of a call.
Reports == [conv : Conventions \cup {"none"},
            out : Outcomes \cup {"none"},
            id : Ids,
            touched : BOOLEAN,
            result : {"ok", "none", "err"},
            msg : Ids]

TypeOK ==
  /\ depth \in 0 .. MaxDepth
  /\ conv \in [Levels -> Conventions \cup {"none"}]
  /\ ctx \in [Levels -> Contexts \cup {None}]
  /\ source \in [Levels -> Contexts \cup {None}]
  /\ id \in [Levels -> Ids]
  /\ out \in [Levels -> Outcomes \cup {"running"}]
  /\ touched \in [Levels -> BOOLEAN]
  /\ code \in [Contexts -> {"ok", "error"}]
  /\ msg \in [Contexts -> Ids]
  /\ calls \in Ids
  /\ last \in Reports

Init ==
  /\ depth = 0
  /\ conv = [l \in Levels |-> "none"]
  /\ ctx = [l \in Levels |-> None]
  /\ source = [l \in Levels |-> None]
  /\ id = [l \in Levels |-> 0]
  /\ out = [l \in Levels |-> "running"]
  /\ touched = [l \in Levels |-> FALSE]
  /\ code = [c \in Contexts |-> "ok"]
  /\ msg = [c \in Contexts |-> 0]
  /\ calls = 0
  /\ last = [conv |-> "none", out |-> "none", id |-> 0, touched |-> FALSE,
             result |-> "ok", msg |-> 0]

-----------------------------------------------------------------------------
\* Rust code runs: the program, or a closure called by the evaluation that
\* the call in progress does; nix_register_primop and nix_alloc_primop
\* evaluate nothing.  Or the destructors of a closure that got no primop.
RustRuns ==
  depth > 0 =>
    \/ out[depth] = "running" /\ conv[depth] \notin {"alloc", "register"}
    \/ out[depth] \in {"failed", "empty"} /\ conv[depth] = "alloc"

\* It makes a C call.
Starts(l, k, c, s) ==
  /\ l = depth + 1
  /\ RustRuns
  /\ calls < MaxCalls
  /\ k # "register" => s = c
  /\ depth' = l
  /\ calls' = calls + 1
  /\ conv' = [conv EXCEPT ![l] = k]
  /\ ctx' = [ctx EXCEPT ![l] = c]
  /\ source' = [source EXCEPT ![l] = s]
  /\ id' = [id EXCEPT ![l] = calls + 1]
  /\ out' = [out EXCEPT ![l] = "running"]
  /\ touched' = [touched EXCEPT ![l] = FALSE]
  /\ UNCHANGED <<msg, last>>

\* Mutant: an entry point that leaves the old code in place.
CallUnreset(l, k, c, s) == Starts(l, k, c, s) /\ UNCHANGED code

\* Entering C resets the code of the context, not the message.
Call(l, k, c, s) ==
  Starts(l, k, c, s) /\ code' = [code EXCEPT ![c] = "ok"]

\* The C function throws: NIXC_CATCH_ERRS parks the error.
Fail(l) ==
  /\ depth = l /\ out[l] = "running"
  /\ out' = [out EXCEPT ![l] = "failed"]
  /\ code' = [code EXCEPT ![ctx[l]] = "error"]
  /\ msg' = [msg EXCEPT ![ctx[l]] = id[l]]
  /\ touched' = [k \in Levels |->
                   touched[k] \/ (k < l /\ source[k] = ctx[l])]
  /\ UNCHANGED <<depth, conv, ctx, source, id, calls, last>>

\* It returns a result, or null or false for what is not there.  The code
\* is not written again.
Return(l, o) ==
  /\ depth = l /\ out[l] = "running"
  /\ o = "empty" => conv[l] \notin {"code", "register"}
  /\ out' = [out EXCEPT ![l] = o]
  /\ UNCHANGED <<depth, conv, ctx, source, id, touched, bufferVars, calls,
                 last>>

-----------------------------------------------------------------------------
(* Reading the buffer.                                                     *)

\* nix_err_msg: the message if an error code is parked, else null.
ErrMsg(c) == IF code[c] = "ok" THEN 0 ELSE msg[c]

Parked(c) == code[c] # "ok"

Err(m) == [result |-> "err", msg |-> m]
Ok     == [result |-> "ok", msg |-> 0]
Absent == [result |-> "none", msg |-> 0]

\* Mutant: check_err asks the context instead of trusting the call's code.
CheckErrByBuffer(err, c) == IF Parked(c) THEN Err(ErrMsg(c)) ELSE Ok

\* check_err: the code decides, the buffer of the context explains.
CheckErr(err, c) == IF err THEN Err(ErrMsg(c)) ELSE Ok

\* Mutants: null is NullPointer, whatever is parked; null is not looked for.
CheckPtrLossy(null, c) == IF null THEN Err(0) ELSE Ok
CheckPtrUnchecked(null, c) ==
  IF null THEN [Ok EXCEPT !.result = "null"] ELSE Ok

\* check_ptr: a null with no code parked is NullPointer.
CheckPtr(null, c) ==
  IF ~null THEN Ok
  ELSE IF Parked(c) THEN CheckErr(TRUE, c) ELSE Err(0)

\* null_or_context_err and Value::get_attr: the fallback (NullPointer,
\* KeyNotFound) if there is no message.
NullOrContextErr(null, c) == IF null THEN Err(ErrMsg(c)) ELSE Ok

\* EvalState::get_derivation
Optional(null, c) ==
  IF ~null THEN Ok
  ELSE IF Parked(c) THEN CheckErr(TRUE, c) ELSE Absent

\* has_attr and the others: the result is taken as it is.
Swallow(null) == IF null THEN Absent ELSE Ok

\* What the wrapper of call l makes of its outcome.
Wrap(l) ==
  LET null == out[l] # "done"
      c    == source[l]
  IN  CASE conv[l] \in {"code", "register"} -> CheckErr(null, c)
        [] conv[l] \in {"pointer", "alloc"} -> CheckPtr(null, c)
        [] conv[l] = "message"  -> NullOrContextErr(null, c)
        [] conv[l] = "optional" -> Optional(null, c)
        [] conv[l] = "lossy"    -> IF null THEN Err(0) ELSE Ok
        [] conv[l] \in Swallowing -> Swallow(null)

\* The wrapper returns to the program or to the closure that called it.
Report(l) ==
  /\ depth = l /\ out[l] # "running"
  /\ last' = [conv |-> conv[l], out |-> out[l], id |-> id[l],
              touched |-> touched[l],
              result |-> Wrap(l).result, msg |-> Wrap(l).msg]
  /\ depth' = l - 1
  /\ conv' = [conv EXCEPT ![l] = "none"]
  /\ ctx' = [ctx EXCEPT ![l] = None]
  /\ source' = [source EXCEPT ![l] = None]
  /\ id' = [id EXCEPT ![l] = 0]
  /\ out' = [out EXCEPT ![l] = "running"]
  /\ touched' = [touched EXCEPT ![l] = FALSE]
  /\ UNCHANGED <<bufferVars, calls>>

\* Context::clear_error
ClearError(c) ==
  /\ RustRuns
  /\ code' = [code EXCEPT ![c] = "ok"]
  /\ UNCHANGED <<depth, frameVars, msg, calls, last>>

Next ==
  \/ \E l \in Levels :
       \/ \E k \in Conventions, c, s \in Contexts : Call(l, k, c, s)
       \/ Fail(l)
       \/ \E o \in {"done", "empty"} : Return(l, o)
       \/ Report(l)
  \/ \E c \in Contexts : ClearError(c)

Spec == Init /\ [][Next]_vars

-----------------------------------------------------------------------------
\* A call that failed in C is an Err in Rust, whatever the closures it ran did
\* to its context, if its wrapper looks for failures.  The wrappers that do not
\* look say "no" to it: none says "yes", or gives a path or a name, for a call
\* that failed.  And a call that produced its result is never an Err.
OutcomeReported ==
  /\ last.out = "failed" =>
       last.result = IF last.conv \in Swallowing THEN "none" ELSE "err"
  /\ last.out = "done" => last.result = "ok"

\* The message of an Err is the one the failed call parked: no nested call
\* and no earlier failure is blamed instead.  What a closure owned may reset
\* the code PrimOp::new will read, so its message may be missing; it is that of
\* another call only if one failed on the same context meanwhile.
OwnMessage ==
  /\ last.out = "failed"
  /\ last.conv \notin {"lossy", "register"} \cup Swallowing
  => \/ last.msg = last.id
     \/ last.conv = "alloc" /\ (last.msg = 0 \/ last.touched)

\* A null that means "not there" is not reported with the message of some
\* earlier failure, one that was swallowed included: entering C cleared it.
\* Only a call that failed on the same context before this one was reported
\* can be mistaken for its error.
AbsentUnlessTouched ==
  last.out = "empty" /\ ~last.touched =>
    /\ last.msg = 0
    /\ last.result = IF last.conv \in {"optional"} \cup Swallowing THEN "none"
                     ELSE "err"

\* What get_derivation relies on (eval.rs:570-571): a plain null, with no
\* exception, leaves last_err_code at NIX_OK, so it is reported as Ok(None).
PlainNullIsNone ==
  last.out = "empty" /\ last.conv = "optional" => last.result = "none"

\* What check_err promises (error.rs:135-136): the real error message of the
\* call, extracted from the context; here for PrimOp::register.
RegisterSaysWhy ==
  last.out = "failed" /\ last.conv = "register" => last.msg = last.id
=============================================================================
