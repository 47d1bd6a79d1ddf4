------------------------------ MODULE LibInit ------------------------------
(***************************************************************************)
(* Context creation and the one-shot library initialisation behind it      *)
(* (nix-bindings/src/context.rs).  Threads call Context::new or            *)
(* Context::new_no_load_config concurrently.  Each call allocates its own  *)
(* nix_c_context, then goes through the process-wide `static INIT: Once`;  *)
(* the thread that finds the gate unused runs the closure that initialises *)
(* libutil, libstore and libexpr in that order, stopping at the first      *)
(* failure; threads that arrive meanwhile block until the closure is done. *)
(* The error of the closure is kept in a local variable of the call that   *)
(* ran it.                                                                 *)
(***************************************************************************)
EXTENDS Naturals

CONSTANTS
  Threads,    \* threads of the process
  Contexts,   \* addresses nix_c_context_create can return
  NoContext,  \* the null pointer / no context in this call
  NoThread    \* nobody has entered the gate's closure yet

ASSUME ConstantsAssumption ==
  /\ NoContext \notin Contexts
  /\ NoThread \notin Threads

VARIABLES
  pc,         \* pc[t]: where thread t is inside new_inner
  mode,       \* mode[t]: the no_load_config argument of t's call
  ctx,        \* ctx[t]: the context the call of t has allocated
  initErr,    \* initErr[t]: the local init_err of t's call is an error
  ran,        \* ran[t]: t's call is the one that executed the closure
  result,     \* result[t]: what the last call of t returned
  once,       \* state of the static Once
  runner,     \* the thread that entered the closure
  attempts,   \* attempts[l]: how often nix_lib<l>_init was called
  libs,       \* libs[l]: outcome of the initialisation of library l
  storeMode,  \* the mode libstore was initialised in
  allocated,  \* contexts the C library has allocated and not freed
  owned       \* contexts held by the program in a Rust Context

callVars == <<pc, mode, ctx, initErr, ran, result>>
gateVars == <<once, runner>>
libVars  == <<attempts, libs, storeMode>>
heapVars == <<allocated, owned>>
vars     == <<callVars, gateVars, libVars, heapVars>>

Modes     == {"config", "no_config"}
Libraries == {"util", "store", "expr"}

InClosure == {"util", "store", "expr", "leave"}
Pcs       == InClosure \cup {"idle", "gate", "return"}

Outcomes  == {"untouched", "ok", "failed"}

TypeOK ==
  /\ pc \in [Threads -> Pcs]
  /\ mode \in [Threads -> Modes]
  /\ ctx \in [Threads -> Contexts \cup {NoContext}]
  /\ initErr \in [Threads -> BOOLEAN]
  /\ ran \in [Threads -> BOOLEAN]
  /\ result \in [Threads -> {"none", "ok", "err"}]
  /\ once \in {"incomplete", "running", "complete"}
  /\ runner \in Threads \cup {NoThread}
  /\ attempts \in [Libraries -> Nat]
  /\ libs \in [Libraries -> Outcomes]
  /\ storeMode \in Modes \cup {"unset"}
  /\ allocated \subseteq Contexts
  /\ owned \subseteq Contexts

Init ==
  /\ pc = [t \in Threads |-> "idle"]
  /\ mode = [t \in Threads |-> "config"]
  /\ ctx = [t \in Threads |-> NoContext]
  /\ initErr = [t \in Threads |-> FALSE]
  /\ ran = [t \in Threads |-> FALSE]
  /\ result = [t \in Threads |-> "none"]
  /\ once = "incomplete"
  /\ runner = NoThread
  /\ attempts = [l \in Libraries |-> 0]
  /\ libs = [l \in Libraries |-> "untouched"]
  /\ storeMode = "unset"
  /\ allocated = {}
  /\ owned = {}

Goto(t, label) == pc' = [pc EXCEPT ![t] = label]

-----------------------------------------------------------------------------
(* The call up to the gate.                                                *)

\* Mutant: the pointer nix_c_context_create returned is not checked for null.
CreateUnchecked(t, m, c) ==
  /\ pc[t] = "idle"
  /\ c \notin allocated
  /\ Goto(t, "gate")
  /\ mode' = [mode EXCEPT ![t] = m]
  /\ ctx' \in {[ctx EXCEPT ![t] = p] : p \in {c, NoContext}}
  /\ initErr' = [initErr EXCEPT ![t] = FALSE]
  /\ ran' = [ran EXCEPT ![t] = FALSE]
  /\ result' = [result EXCEPT ![t] = "none"]
  /\ allocated' = allocated \cup {ctx'[t]}
  /\ UNCHANGED <<gateVars, libVars, owned>>

\* nix_c_context_create returned a fresh context.
Create(t, m, c) ==
  /\ pc[t] = "idle"
  /\ c \notin allocated
  /\ Goto(t, "gate")
  /\ mode' = [mode EXCEPT ![t] = m]
  /\ ctx' = [ctx EXCEPT ![t] = c]
  /\ initErr' = [initErr EXCEPT ![t] = FALSE]
  /\ ran' = [ran EXCEPT ![t] = FALSE]
  /\ result' = [result EXCEPT ![t] = "none"]
  /\ allocated' = allocated \cup {c}
  /\ UNCHANGED <<gateVars, libVars, owned>>

\* nix_c_context_create returned null: Error::NullPointer, before the gate.
CreateFails(t) ==
  /\ pc[t] = "idle"
  /\ result' = [result EXCEPT ![t] = "err"]
  /\ UNCHANGED <<pc, mode, ctx, initErr, ran, gateVars, libVars, heapVars>>

\* Mutant: an unguarded gate, every call initialises the libraries.
GateRunUnguarded(t) ==
  /\ pc[t] = "gate"
  /\ once' = "running"
  /\ runner' = t
  /\ ran' = [ran EXCEPT ![t] = TRUE]
  /\ Goto(t, "util")
  /\ UNCHANGED <<mode, ctx, initErr, result, libVars, heapVars>>

\* Once::call_once finds the gate unused and runs the closure.
GateRun(t) ==
  /\ pc[t] = "gate"
  /\ once = "incomplete"
  /\ once' = "running"
  /\ runner' = t
  /\ ran' = [ran EXCEPT ![t] = TRUE]
  /\ Goto(t, "util")
  /\ UNCHANGED <<mode, ctx, initErr, result, libVars, heapVars>>

\* Mutant: the gate only marks the initialisation as started (an atomic flag
\* in place of Once), so a late caller does not wait for it.
GatePassEarly(t) ==
  /\ pc[t] = "gate"
  /\ once \in {"running", "complete"}
  /\ Goto(t, "return")
  /\ UNCHANGED <<mode, ctx, initErr, ran, result, gateVars, libVars, heapVars>>

\* Once::call_once returns without running anything: while another thread is
\* in the closure it blocks, so the gate has to be complete.
GatePass(t) ==
  /\ pc[t] = "gate"
  /\ once = "complete"
  /\ Goto(t, "return")
  /\ UNCHANGED <<mode, ctx, initErr, ran, result, gateVars, libVars, heapVars>>

-----------------------------------------------------------------------------
(* The closure.  A nix_lib*_init that fails is turned into an error by     *)
(* check_err and `?` skips the ones after it.                              *)

InitCall(t, l, ok) ==
  /\ pc[t] = l
  /\ attempts' = [attempts EXCEPT ![l] = @ + 1]
  /\ libs' = [libs EXCEPT ![l] = IF ok THEN "ok" ELSE "failed"]

\* Mutant: a failure of nix_libutil_init does not stop the closure.
InitUtilNoStop(t, ok) ==
  /\ InitCall(t, "util", ok)
  /\ Goto(t, "store")
  /\ initErr' = [initErr EXCEPT ![t] = ~ok]
  /\ UNCHANGED <<mode, ctx, ran, result, gateVars, storeMode, heapVars>>

InitUtil(t, ok) ==
  /\ InitCall(t, "util", ok)
  /\ Goto(t, IF ok THEN "store" ELSE "leave")
  /\ initErr' = [initErr EXCEPT ![t] = ~ok]
  /\ UNCHANGED <<mode, ctx, ran, result, gateVars, storeMode, heapVars>>

\* Mutant: the result of nix_libstore_init is dropped.
InitStoreSwallow(t, ok) ==
  /\ InitCall(t, "store", ok)
  /\ Goto(t, IF ok THEN "expr" ELSE "leave")
  /\ initErr' = [initErr EXCEPT ![t] = FALSE]
  /\ storeMode' = mode[t]
  /\ UNCHANGED <<mode, ctx, ran, result, gateVars, heapVars>>

\* nix_libstore_init or nix_libstore_init_no_load_config, by the argument.
InitStore(t, ok) ==
  /\ InitCall(t, "store", ok)
  /\ Goto(t, IF ok THEN "expr" ELSE "leave")
  /\ initErr' = [initErr EXCEPT ![t] = ~ok]
  /\ storeMode' = mode[t]
  /\ UNCHANGED <<mode, ctx, ran, result, gateVars, heapVars>>

InitExpr(t, ok) ==
  /\ InitCall(t, "expr", ok)
  /\ Goto(t, "leave")
  /\ initErr' = [initErr EXCEPT ![t] = ~ok]
  /\ UNCHANGED <<mode, ctx, ran, result, gateVars, storeMode, heapVars>>

\* Mutant: a closure that failed leaves the gate locked.
LeaveLocked(t) ==
  /\ pc[t] = "leave"
  /\ once' = IF initErr[t] THEN once ELSE "complete"
  /\ Goto(t, "return")
  /\ UNCHANGED <<mode, ctx, initErr, ran, result, runner, libVars, heapVars>>

\* The closure returns, with an error or without: the gate is complete and
\* wakes every thread that waits at it.
Leave(t) ==
  /\ pc[t] = "leave"
  /\ once' = "complete"
  /\ Goto(t, "return")
  /\ UNCHANGED <<mode, ctx, initErr, ran, result, runner, libVars, heapVars>>

-----------------------------------------------------------------------------
(* `init_err?; Ok(ctx)`: an error drops the local context.                 *)

ReturnOk(t) ==
  /\ pc[t] = "return"
  /\ ~initErr[t]
  /\ Goto(t, "idle")
  /\ ctx' = [ctx EXCEPT ![t] = NoContext]
  /\ result' = [result EXCEPT ![t] = "ok"]
  /\ owned' = owned \cup {ctx[t]}
  /\ UNCHANGED <<mode, initErr, ran, gateVars, libVars, allocated>>

\* Mutant: the raw pointer is not wrapped before the gate, so the error path
\* forgets it.
ReturnErrLeaks(t) ==
  /\ pc[t] = "return"
  /\ initErr[t]
  /\ Goto(t, "idle")
  /\ ctx' = [ctx EXCEPT ![t] = NoContext]
  /\ result' = [result EXCEPT ![t] = "err"]
  /\ UNCHANGED <<mode, initErr, ran, gateVars, libVars, heapVars>>

ReturnErr(t) ==
  /\ pc[t] = "return"
  /\ initErr[t]
  /\ Goto(t, "idle")
  /\ ctx' = [ctx EXCEPT ![t] = NoContext]
  /\ result' = [result EXCEPT ![t] = "err"]
  /\ allocated' = allocated \ {ctx[t]}
  /\ UNCHANGED <<mode, initErr, ran, gateVars, libVars, owned>>

\* The last owner of a Context drops it.
DropContext(c) ==
  /\ c \in owned
  /\ owned' = owned \ {c}
  /\ allocated' = allocated \ {c}
  /\ UNCHANGED <<callVars, gateVars, libVars>>

-----------------------------------------------------------------------------
InitStep(t) ==
  \E ok \in BOOLEAN : InitUtil(t, ok) \/ InitStore(t, ok) \/ InitExpr(t, ok)

\* What a thread does on its own once it is inside a call.
Progress(t) ==
  \/ GateRun(t)
  \/ GatePass(t)
  \/ InitStep(t)
  \/ Leave(t)
  \/ ReturnOk(t)
  \/ ReturnErr(t)

Next ==
  \/ \E t \in Threads :
       \/ \E m \in Modes, c \in Contexts : Create(t, m, c)
       \/ CreateFails(t)
       \/ Progress(t)
  \/ \E c \in Contexts : DropContext(c)

Spec == Init /\ [][Next]_vars

\* Every C call returns and the operating system runs every thread that is
\* not blocked; nothing obliges a thread to start a call or drop a context.
FairSpec == Spec /\ \A t \in Threads : WF_vars(Progress(t))

-----------------------------------------------------------------------------
Initialised == \A l \in Libraries : libs[l] = "ok"

\* Each nix_lib*_init runs at most once in the process, however many threads
\* race into Context::new, whether or not an earlier initialisation failed.
InitOnce == \A l \in Libraries : attempts[l] <= 1

\* A library is touched only after the ones it builds on came up.
InitOrder ==
  /\ attempts["store"] > 0 => libs["util"] = "ok"
  /\ attempts["expr"] > 0 => libs["store"] = "ok"

\* No call gets past the gate, and no Context reaches the program, while a
\* thread is still initialising: what a caller can use is never half done.
GateBlocks ==
  /\ owned # {} => once = "complete"
  /\ \A t \in Threads : pc[t] = "return" => once = "complete"

\* The C contexts alive are exactly the ones in a call and the ones the
\* program owns, each held once: no error path leaks one or frees one twice.
ContextLedger ==
  /\ allocated = owned \cup {ctx[t] : t \in {u \in Threads : pc[u] # "idle"}}
  /\ \A t \in Threads : pc[t] # "idle" => ctx[t] \notin owned
  /\ \A t, u \in Threads :
       t # u /\ pc[t] # "idle" /\ pc[u] # "idle" => ctx[t] # ctx[u]

\* The mode libstore runs in is chosen once: a later call with the other
\* constructor does not change it.
ModeFixed == [][storeMode # "unset" => storeMode' = storeMode]_vars

Returns(t) == pc[t] = "return" /\ pc'[t] = "idle"

\* The call that ran the closure reports its outcome: Ok exactly when all
\* three libraries are up.
RunnerReports ==
  [][\A t \in Threads :
       Returns(t) /\ ran[t] => (result'[t] = "ok" <=> Initialised)]_vars

\* Whatever calls are under way, one of them is not waiting: it is in the
\* closure or past the gate, or it finds the gate unused or complete.  The
\* thread the others wait for is never itself one that waits.
SomeoneRuns ==
  (\E t \in Threads : pc[t] # "idle") =>
    \E t \in Threads : pc[t] # "idle" /\ (pc[t] = "gate" => once # "running")

\* Every call of Context::new ends, whichever thread runs the closure and
\* whether or not it fails: nobody waits at the gate for ever.
CallReturns == \A t \in Threads : pc[t] # "idle" ~> pc[t] = "idle"

\* What the documentation of Context::new promises (context.rs:107-109): a
\* call that returns Ok leaves the caller with initialised libraries.  The
\* code does not keep it: init_err is local to the call that ran the closure.
OkMeansInitialised == owned # {} => Initialised
=============================================================================
