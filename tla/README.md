# TLA+ models of nix-bindings

`nix-bindings` wraps the C API of Nix (libutil, libstore, libexpr) for Rust.
Nothing in it is a distributed protocol; what is hard is that every wrapper
straddles two worlds.  C owns a garbage-collected heap, reference counts, a
process-wide registry and an error buffer per context; Rust owns boxes, `Arc`s,
`Drop`, `?`, panics and threads.  The bugs live where a step on one side may be
followed by something the other side did not expect: an error return between
two C calls, a collection between two C calls, a closure called back by an
evaluation, a second thread at the same gate.  These modules model that
boundary, one component at a time.

- [Inventory](#inventory)
- [Modules](#modules)
- [Runs](#runs)
- [Fairness](#fairness)
- [Assumptions about the C side](#assumptions-about-the-c-side)
- [Proofs](#proofs)
- [Disagreements found](#disagreements-found)
- [Not modelled](#not-modelled)
- [Plan](#plan)

To check: `tlc -workers 2 -config X.cfg M` for each run below, `tlapm M.tla` for
each `*Proofs` module.

## Inventory

Paths are relative to `src/`; `nb` is `nix-bindings/src`, `sys` is
`nix-bindings-sys/src`.

| Component | State | Operations | What makes it correct |
|---|---|---|---|
| Context and library initialisation (`nb/context.rs`) | `static INIT: Once`, the C libraries' global state, one `nix_c_context` per `Context` | `new`, `new_no_load_config`, `Drop`, `clear_error`, settings, plugins | each library initialised once, in order; nobody past the gate early; no context leaked on an error path; every call ends |
| Error translation (`nb/error.rs`; `null_or_context_err` in `nb/store.rs`) | `last_err_code` and `last_err` of a context | `check_err`, `check_ptr`, the conventions for null | a failed call is an `Err` with its own message where the wrapper looks for it, and never a "yes" where it does not; a successful one is never an `Err`; absence is not failure |
| Primop life cycle (`nb/primop.rs`) | boxed closure, GC object and its references, finalizer, `REGISTERED_PRIMOPS`, global builtins | `new`, `register`, `into_value`, `Drop`, finalizer | a callable closure is alive; each is freed once; none is orphaned; builtin names are unique |
| Primop calls (`nb/primop.rs`, `nb/value_ops.rs`) | return slot, `PrimOpRet.written`, the call's context, `PrimOpValue`s | `trampoline`, `set_*`, `make_*`, `ArgAttrs`, `ArgList`, `force` | the evaluator gets a value or an error that agrees with how the closure ended; no reference survives the call |
| Evaluation state (`nb/eval.rs`) | `nix_eval_state`, builder, the values it allocates | `build`, `eval_from_string`, `make_*`, `auto_call_function`, `get_derivation` | every allocation is returned or given back |
| Values (`nb/value.rs`, `nb/value_ops.rs`) | a counted reference per `Value`, realised strings | `clone`, `drop`, `force`, `call`, `copy`, `make_thunk`, `as_*` | counts equal wrappers; what a `Value` reaches is allocated; strings are freed |
| Attribute sets and lists (`nb/attrs.rs`, `nb/lists.rs`) | iterator positions, element references | `get_attr`, `list_get`, `attrs`, iterators | elements own their reference; `get_attr` tells absence from failure; each element visited once |
| External values (`nb/external.rs`) | boxed payload, callback table | `make_external`, callbacks, `as_external` | data read only while its box is there and only as its own type, whatever values the evaluator compares |
| Store (`nb/store.rs`) | `Store`, `StorePath`, `Derivation` handles, callback buffers | open, `realize`, `get_fs_closure`, `copy_closure`, `add_to_store` | a C object is freed once, after everything that uses it; paths collected before a failure are freed |
| Flakes (`nb/flake.rs`) | settings, parse flags, lock flags, locked flake | lock, export, import, output attributes | in any order of drops, what a C object relies on outlives it; an export can be imported and says the same |
| C++ wrappers (`sys/wrappers/*.cc`) | none of their own | derivation lookup, `add_to_store`, source paths, lock-file walk | the same error protocol as the C API; the walk ends and misses no node |
| Build script, generated bindings (`sys/build.rs`, `sys/lib.rs`) | none at run time | | |
| Crate root (`nb/lib.rs`) | none | re-exports, version, the documented thread contract | |

Interactions.  Every wrapper holds an `Arc<Context>` and calls C through it, so
all of them meet in that context's error buffer.  `Value` borrows `EvalState`.
`PrimOp::register` writes to two process-wide tables that every later
`EvalState` copies.  An evaluation (`force`, `call`, `get_attr`, `list_get`,
`get_derivation`) can run a primop, which runs a Rust closure, which may call
back into any wrapper it has captured.  Wrappers keep each other through
`Arc`s: a state its store, lock flags their settings, everything its context;
the last `Arc` to go starts the next drop.

Hard behaviours.  Threads racing in `Context::new` and in `register`; the
collector between any two C calls; nested evaluation; error returns in the
middle of an operation; panics in closures; drops in any order and on several
threads; values that come back from the evaluator after their handle is gone;
recursion over graphs with cycles; results read from a buffer another
call may have written.  They are listed at their lines under `hazards` in
`PROJECT.json`.

## Modules

Every module abstracts data to what the properties tell apart: an expression is
left out, a value is the set of heap cells it holds, a message is the number of
the call that wrote it.  Definitions named `...Unguarded`, `...Leaks` and the
like, introduced by a comment `Mutant:`, are not part of the model: each is a
plausible bug of the definition that follows it, used to see that a property
notices.

### LibInit (`context.rs`)

One record of local variables per thread (`pc`, `mode`, `ctx`, `initErr`,
`ran`) stands for a call of `new_inner`; `once`, `runner` for the static
`Once`; `libs`, `attempts`, `storeMode` for the C libraries; `allocated`,
`owned` for contexts.  `Create`/`CreateFails` is `nix_c_context_create`;
`GateRun`, `GatePass` are the two ways through `call_once` (a thread that comes
while the closure runs is blocked: neither is enabled); `InitUtil`, `InitStore`,
`InitExpr` are the closure with its `?`; `Leave` ends it, with an error or
without; `ReturnOk`/`ReturnErr` is `init_err?; Ok(ctx)`; `DropContext` is `Drop`.
Each `nix_lib*_init` may fail.

### PrimOps, ClosureMemory (`primop.rs`, life cycle)

A `PrimOp` is consumed by the call it is passed to, so concurrent calls are told
apart by the primop and `phase[p]` is the program counter.  `names` is
`REGISTERED_PRIMOPS`; `registry` the C library's global list; `object`,
`gcref`, `finalizer` the GC side; `vref`, `vprim` the values a primop was
embedded in; `builtins[s]` what `EvalState` `s` was built with.  The mutex in
`register` is released before `nix_register_primop`, so `ClaimName` and
`RegisterPrimOp` are separate steps and another thread may come between.
`Collect` and `Finalize` may happen at any point.

`ClosureMemory` is the abstract specification: closures are created wanted, may
be discarded, released, and freed only when unwanted.  `PrimOps` implements it
(`ImplementsMemory`) with `wanted` mapped to "in hand, registered or callable"
and a box that is freed twice to a state the abstract memory does not have.

### Trampoline, NestedCalls (`primop.rs`, calls; `value_ops.rs`)

A stack of at most `MaxDepth` frames.  A closure is any sequence of the calls
its wrappers allow: `SetOk`/`SetFails` (all `PrimOpRet::set_*`), `Make`,
`StartCall` … `Forced`/`Got`/`GetMissing`/`GetThrows` (reads that evaluate, under
which `Enter` can push another primop call), `Mismatch`, `DropTemp`, `Ignore`
(the closure treats an error and goes on), `Overlook` (`ArgAttrs::has` and `keys`
do not tell it of one), then `End` with `Ok`, `Err` or a
panic.  `Answer` is the tail of `trampoline`: return early on a written result,
otherwise park an error.  `Leave` is the evaluator reading slot and context.
`code` tracks `last_err_code` of the context the evaluator made for the call,
which every C call resets on entry and every destructor therefore too.

`NestedCalls` is the abstract specification: calls as a language with exceptions
has them.  A call runs, evaluates, is told of errors and may recover from them,
ends well or badly, and yields a value only if it ended well and wrote one; an
error it yields goes to the code of the call below.  `Trampoline` implements it
(`ImplementsStack`): `CallState` reads the state of a call off `call`, `inner`,
`held`, `result`, `answered` and `code`; `wrote` is the C slot, not the marker
`written` the trampoline goes by; error codes, nulls and temporaries do not
show.  The one thing the abstraction had to allow that nobody would ask for is
that a call which went on after an error, with its result already written, may
yield an error (`careless`): the code parked by the failed call is still there.
It need not know: `has` returns `Ok(false)` for a lookup that failed.

What a closure owns when it ends is dropped by Rust, and `End` says so; there is
no property about it, only about what the drops do to the parked code
(`FailureSurfaces`).

### ErrorBuffer (`error.rs`, and where errors are read)

A stack of C calls, each with the convention the wrapper uses to tell success
from failure: `code` (`check_err`), `pointer` (`check_ptr`), `message`
(`null_or_context_err`, `get_attr`), `optional` (`get_derivation`), `lossy`
(`ok_or(NullPointer)`), `register` (reads another context than it called with),
`alloc` (`PrimOp::new`, which drops the closure before it reads the error),
`swallow` (false or null is the answer, the context is not read: `is_valid_path`,
`query_path_from_hash_part`, `has_attr`, `attr_keys`, `ArgAttrs::has` and `keys`).
`OutcomeReported` is "a failed call is an `Err`" for all of them but the last,
where it is only "a failed call is never taken for a yes".  Numbers and type tags
(`nix_get_int`, `nix_get_list_size`, `nix_get_type`) are not calls of the model:
they are read unchecked too, of values whose type was looked at before.
While a call evaluates, a closure can make further calls on the same or another
context (`Call` at `depth + 1`), and so can the destructors of a closure that got no
primop; `touched` remembers that one of them failed on
the context the outer call will read.  `Report` is the return to Rust; `last`
is what the caller was told.

### ValueRefs, ValueGraph (`eval.rs`, `value.rs`, `attrs.rs`, `lists.rs`)

Heap cells with libexpr's count (`refs`), what they hold (`holds`), whether they
are unevaluated (`lazy`), and the number of live `Value`s (`wrappers`).  One
operation runs at a time; `kind` and `step` say which and where it is.

- Makers: `Begin`, then for lists and attribute sets `Insert` into a builder,
  `Alloc`, and `InitOk` or `InitFails`.  The evaluation of a string has its own
  failure, `EvalFails`, because it holds a raw pointer.
- Readers: `Fetch` an element with a reference of its own, then `Wrap` it, or
  `Reject` it (the iterator cannot read the name); `Realise` a string, then
  `FreeString` or, for `as_string`, `InvalidUtf8`.
- `Evaluate` is one step of an evaluation: an unevaluated cell is overwritten in
  place.  It can happen between any two operations and during `call`.
- `CloneValue`, `DropValue`, and `Collect`, at any point of any operation.

`Reach` is stated as a least closed set rather than a recursion, which is also
the form the proofs use.

`ValueGraph` is the abstract specification: a graph of values in which the
program makes a new value, shares one, discards one, or a value is evaluated
once, and nothing else happens.  There are no counts, builders or collector in
it; what no `Value` leads to is simply gone.  `ValueRefs` implements it
(`ImplementsGraph`): the graph is the part of the heap that the program's
`Value`s lead to (`Visible`), so a cell that is collected too early, handed out
again, or written to while a `Value` leads to it would be a step the graph does
not have.

### Handles, Ownership (`store.rs`, `flake.rs`, builder and state of `eval.rs`)

Composes the wrappers of the store, evaluation-state and flake modules.  An
element of `Objects` is a wrapper together with the C object it owns.  `phase`
is its life (`"dropping"`: `Drop` has freed the C object, fields are still
there), `context` and `keeps` are its fields (`_context`; `store`, `_settings`,
or the `&EvalState` of a `Value`), `madeFrom` the C objects the C library made
its object from.  `user` is what the program holds, `call` and `inHand` a
running `realize` or `get_fs_closure` and the paths its callback has cloned.

There is an action per constructor (`Returns` in each: a constructor that fails
changes nothing), an action for the failure of each method that takes its
wrapper by value (`Consumes`), one for all that only read (`Read`, `UseStore`),
and `EnterStore`, `ReportPath`, `ForgetPath`, `LeaveStore`, `FailStore` for the
two calls with a callback.  `Drop` frees the C object once nothing owns the
wrapper; `Release` drops one field after it.  Drops may begin between any two
steps, and several may be under way.  Each step adds to `misused` what it passes
to C, or what that relies on, if it is not live.

`ReliesOn` says what a C object needs while it exists.  It is `madeFrom`, except
for settings: only `LockFlags` has a field for them.  Parse flags and builders
are made from settings too but do not keep them; the model takes the structs at
their word and does not claim that libflake needs nothing more.

`Ownership` is the abstract specification, in three actions: an object is made
from objects that are there, the program gives objects up, and an object is
disposed of when the program does not hold it and no other one needs it.
`Handles` implements it (`ImplementsOwnership`): `alive` is the C objects not
freed yet, `needs` is `ReliesOn`, `held` is what the program or a running call
has.  A step that freed an object somebody needs, handed out one that is there
already, or gave the program back what it had dropped would have no counterpart.

### LockGraph (`sys/wrappers/flake.cc`)

`Export` is `nix_locked_flake_export_json` on a graph of nodes with source
paths; `Receive` a JSON graph from elsewhere.  `Parse` lets Nix make new nodes
and calls `collect_lock_file_nodes`, whose recursion is `stack`, one frame per
call with the inputs still to look at: `Visit` is the entry of a call, `Look(i)`
one turn of its loop, `Return` its end.  `ReadPaths` puts the paths at the nodes
found and refuses an unknown key or a missing root path; `PathsAccounted` says
what that comes to for JSON from elsewhere, in terms of the lock file and the
nodes Nix parsed, and `RoundTrip` for JSON this code wrote.  The lock-file parser
and writer are Nix's and modelled from how the wrapper uses them: `Written`,
`ParserAccepts`, `Parsed`.  What else can be malformed in JSON from elsewhere
(version, references) is `Reject`; a JSON this code wrote is taken not to be.

### ExternalValues (`external.rs`)

`box[p]` is the payload `make_external` boxed, `content[x]` the `void*` Nix keeps
for an external value, `ext_ptr[h]` a handle, `held` what Nix values beside the
handles lead to, `refs` the references `as_external` has given out.
`make_external` is `Box`, `AllocValue`, `Create` or `CreateFails`,
`InitExternal`, each with its failure.  `Callback` and `Equal` are calls from the
evaluator on any value it can reach, of this library or another.  `misread`
collects data that is read when it is gone or as another type.

It implements `Ownership` too: the objects are boxes and external values, an
external value needs the box its `void*` leads to, and what is held is what a
handle or a Nix value reaches, and the box `make_external` is working on.

## Runs

| Run | Module, cfg | Bounds | Shows |
|---|---|---|---|
| `lib_init` | `LibInit` | 3 threads, 3 contexts | `InitOnce`, `InitOrder`, `GateBlocks`, `ContextLedger`, `ModeFixed`, `RunnerReports`, `CallReturns` |
| `lib_init_doc` | `LibInit`, `LibInitDoc.cfg` | 2 threads | `OkMeansInitialised` fails |
| `primops` | `MCPrimOps` | 3 primops, 2 names, 2 values, 2 states, 2 wrappers | `NoUseAfterFree`, `NoOrphanClosure`, `UniqueBuiltins`, `ImplementsMemory` |
| `trampoline` | `Trampoline` | 3 frames, 2 values | `WrittenMeansSet`, `FailureSurfaces`, `ImplementsStack` |
| `error_buffer` | `MCErrorBuffer` | 2 contexts, 2 levels, 4 calls | `OutcomeReported`, `OwnMessage`, `AbsentUnlessTouched` |
| `error_buffer_plain` | `ErrorBuffer`, `ErrorBufferPlain.cfg` | 3 calls | `PlainNullIsNone` fails |
| `error_buffer_register` | `ErrorBuffer`, `ErrorBufferRegister.cfg` | 3 calls | `RegisterSaysWhy` fails |
| `value_refs` | `MCValueRefs` | 3 cells, 2 wrappers per cell, 1 string | `LedgerBalanced`, `NothingDangling`, `StringsFreed`, `ImplementsGraph` |
| `value_refs_leaks` | `ValueRefs`, `ValueRefsLeaks.cfg` | 3 cells | `NoLeaks` fails |
| `handles` | `MCHandles` | 3 store paths, 1 wrapper of each other type, 8 alive at once | `NoUseAfterFree`, `NothingLeft`, `ImplementsOwnership` |
| `lock_graph` | `MCLockGraph` | 3 nodes, 2 inputs each, all graphs | `WalkAgrees`, `RoundTrip`, `PathsAccounted`, `DepthBounded`, `WalkDescends`, `Ends` |
| `external_values` | `MCExternalValues` | 3 payloads of 2 types, 3 external values, 2 handles | `PayloadSound`, `ImplementsOwnership` |

Why the bounds are enough.  *LibInit*: the gate distinguishes the thread that
runs, one that waits and one that comes after; contexts are as many as threads,
so a leaked one is missed at once.  *PrimOps*: a clash of names needs two
primops of one name, and the third is one that lives through it; two states
tell a registration before `build` from one after.  *Trampoline*: a frame
interacts only with the one above and the one below.  *ErrorBuffer*: one nested
call is enough to overwrite a buffer, four calls allow an earlier failure, a
nested one and a later read; deeper nesting only repeats the pattern.
*ValueRefs*: a container, its element and a cell to be handed out again are
what a dangling reference needs; realised strings are only counted, one at a
time, so one lost string is enough.  *Handles*: `MaxAlive = 8` is the longest chain
of wrappers that depend on each other (context, store, state, settings,
fetchers, lock flags, reference, locked flake); `MaxDropping = 1` lets one drop
of the program's be under way among all other operations, with the drops it
starts itself through fields; several independent drops at once, on different
threads, are covered by the proofs only (`HandlesProofs`, for any number).
*LockGraph*: with two inputs three nodes have shared nodes, cycles, self-loops and
nodes no input leads to; `MaxDepth = 4` is more than the walk can need on three
keys, so a walk that goes round fills it; `StackSuffices` says that a bound of
one call per key never stops a call for a key still to be found.  The keys an export writes and the
nodes a parser makes are one fixed assignment each, and source paths one of
three assignments (root only, all, all but the root), because the code treats
keys alike and paths one at a time.  JSON from elsewhere has one of two: with
and without a path for the root, each with a path whose key may be one that no
input leads to.  *ExternalValues*: two payloads of one type
and one of another make `equal` true, false by data and false by type, and the
third external value may be another library's.  All the properties of the passing runs except
liveness are also proved without these bounds.

Some invariants are stated and proved but are in no run, because a property of
the run says more:

| Invariant | Follows from | What is added there |
|---|---|---|
| `FreedOnce` | `ImplementsMemory` | freed only when nothing wants it |
| `ValueJustified`, `ValueDelivered`, `InnerFailureTold` | `ImplementsStack` | the steps between, and recovery |
| `ContentsStable` | `ImplementsGraph` | all values a `Value` leads to, and new ones are new |
| `Anchored` | `ImplementsOwnership` | objects are made from live ones, and nothing given up comes back |
| `SomeoneRuns` | `CallReturns` | the call that runs gets to its end |

Symmetry is used in `MCPrimOps` (primops, names, values, states), `MCErrorBuffer`
(contexts), `MCValueRefs` (cells), `MCHandles` (store paths) and
`MCExternalValues` (external values, handles); none of these runs checks
liveness.  The
only temporal formulas checked under symmetry are refinements
(`ImplementsMemory`, `ImplementsGraph`, `ImplementsOwnership`), safety
properties whose right-hand sides are themselves symmetric in the closures,
cells and objects.

Deadlock is checked except in the three `ErrorBuffer` runs, whose calls are
counted and run out.

## Fairness

`LibInit` and `LockGraph` state liveness.  In `LockGraph` the import is a single
call of C++ code that waits for nothing: `WF(Importing)` says that it goes on
running once it is entered (`Ends`).  The program's own steps, `Export`,
`Receive` and `Again`, have no fairness.

In `LibInit`, `FairSpec` assumes `WF(Progress(t))`: each
`nix_lib*_init` returns, and the operating system runs a thread that is not
blocked.  `Progress(t)` is exactly what a thread does once it is inside a call;
no thread is obliged to start a call and no context to be dropped.  That a
waiting thread is eventually let through follows from `Once` waking its
waiters, which is `GatePass` being enabled for good once the gate is complete:
weak fairness suffices and none stronger is assumed.

## Assumptions about the C side

The C library is not in this repository; what the models take from the way the
bindings use it:

- Every C entry point that takes a context resets its code before it does
  anything; the message stays, and is returned only while a code is parked.
- A C call either does all of its work or fails, and evaluation may run primops.
- `nix_alloc_value` and the `get` functions return a pointer with one reference;
  `nix_value_decref` of a cell without a count is an error, which `Drop` ignores.
- The collector keeps counted cells and live builders and what they hold; it may
  run during any C call.
- The copies of a primop in the global registry are not traced by the collector:
  the code keeps the reference of a registered primop for ever for that reason.
- A finalizer runs at most once, after its object became unreachable.
- An evaluator calls a primop only through a builtin of a live state or through
  a reachable value.
- A constructor that fails leaves no C object behind, and a C object that was
  copied into another one (a reference into lock flags) is not needed again.
- The lock-file parser makes one node per key that inputs lead to from the root
  and refuses an input that names a missing node or the root; the writer gives a
  key to every node it can reach.
- Nix never frees the `void*` of an external value, and passes `print`,
  `showType` and `coerceToString` only the values they belong to, but `equal`
  any other external value of the C API.

Two assumptions are contracts the crate documents for its users (`nb/lib.rs`,
lines 60-86): one thread at a time uses a context and what was made from it.
`ErrorBuffer` and `ValueRefs` rely on it.  `ValueRefs` lets a program drop any
`Value` when no operation runs, which includes every order the borrow checker
allows, and more: an element got from a container borrows it and cannot outlive
it, while a container does outlive the `Value`s it was made of.

## Proofs

| Module | Theorems | Argument |
|---|---|---|
| `LibInitProofs` | all safety properties and both action properties of `LibInit` | invariants that tie `pc`, `once` and `runner`: at most one thread is in the closure, `attempts` is 0 for libraries behind it, `once = "complete"` implies the closure is over.  `SomeoneAlwaysRuns`: while the gate is taken its runner is in the closure, so not every call waits |
| `PrimOpsProofs` | all invariants, and `MemoryImplemented`: `Spec => Memory!Spec` | `PrimInvariant` ties a primop's phase to its box, references, object and finalizer, and says whose value a call is filling; then every step is one of the four abstract ones or a stutter |
| `TrampolineProofs` | all invariants, and `StackImplemented`: `Spec => Stack!Spec` | `FrameInvariant`, one frame at a time; frames above `depth` are blank, those below it wait in a call.  For the refinement a step moves one frame only (`Moved`), and the invariant says that a result written by a closure that was not careless leaves the code clear |
| `ErrorBufferProofs` | all invariants of the passing run | `ReportsInvariant`: a call that failed has its message in the buffer it reads, because nothing but the destructors of `PrimOp::new` runs between its failure and its report |
| `ValueRefsProofs` | all invariants, `ContentsStable`, and `GraphImplemented`: `Spec => Graph!Spec` | `RefsInv` adds that every marked cell is allocated; a step marks nothing beyond any closed set containing the new roots (`MarkedIsLeast`), so for each action it is enough to name such a set.  `GraphImplemented` needs one invariant more, `SeenInv`, which says what a running operation has in hand: a new cell that no `Value` leads to, or an element of what one leads to.  Lemmas about `ReachIn` say how what is seen changes with a cell, a root or its contents |
| `HandlesProofs` | all invariants, and `OwnershipImplemented`: `Spec => Ownership!Spec` | `HandlesInv`: which types the fields of a wrapper have, that they are live while it is there, and that what its C object relies on is among them.  That nothing is left follows from the order of the types: a context has no field, a store only a context, and so on.  For the refinement, an object whose drop begins has no owner, and an object that needs another owns it |
| `LockGraphProofs` | all invariants, `WalkDescends`, and `StackSuffices` | `WalkInv` ties the keys found to the graph and the inputs still to look at on the stack to the inputs already followed, so that an empty stack means a closed set; `TripInv` ties the JSON to the exported graph, `PathsInv` the paths of any JSON to the keys found.  `ReachLeast` and `ParsedInputs` are the lemmas about the graph.  A call that stays on the stack has found a key, so there are never more of them than keys found (`RecursionBounded`); `WalkMakesProgress` is the descent by which the walk ends |
| `ExternalValuesProofs` | all invariants, and `OwnershipImplemented`: `Spec => Ownership!Spec` | `BoxInv`: a box is dropped only while no external value has been made from it, and none leads to the box `make_external` has before it creates its own |

None of the properties is inductive by itself.  `NoUseAfterFree`, for example,
says nothing of the time between `nix_alloc_value` and `nix_init_primop`, when
only `self` holds the primop; the invariant has to say that it does.

The five refinements are proved in the usual way: the initial states map to
initial states, and a step from a state with the invariant is an abstract step
or leaves the mapped variables alone.

The assumptions are the named `ASSUME`s: the null values are not elements of the
sets they extend, payloads are not external values, the bounds are natural
numbers, and a JSON has finitely many keys.  Sets of threads, primops, cells and
contexts may be of any size.

Model-checked only: `CallReturns` and `Ends`, since liveness under fairness is
out of the prover's reach.  What can be proved of them is their safety half:
someone is always able to go on (`SomeoneAlwaysRuns`), and each step of the
walk brings its end nearer (`WalkMakesProgress`) with a recursion that stays
within one call per key (`RecursionBounded`).  The step from the descent to
termination is an induction over a well-founded order, which the prover's
library states with an operator parameter that its backends cannot instantiate.
The modules contain no recursive operators.

## Disagreements found

1. `Context::new` documents that it returns an error if the initialisation
   fails.  Only the call that ran the closure does; the next one returns `Ok`
   (`lib_init_doc`).
2. `get_derivation` assumes that a plain null leaves `last_err_code` clear; a
   closure run by the evaluation can park an error on the same context and turn
   `Ok(None)` into `Err` (`error_buffer_plain`).
3. `PrimOp::register` calls C with its argument's context and reads the error
   from the primop's own (`error_buffer_register`).
4. `eval_from_string` does not release the value it allocated when the
   evaluation fails (`value_refs_leaks`).  `LedgerBalanced` and `StringsFreed`
   show that this and the invalid UTF-8 path of `as_string` are the only losses
   among the modelled operations.  (`NixValueOps::as_string`, for the arguments
   of primops, is the same code and has the same loss, `value_ops.rs:168-170`.)

Other things a reader of the models meets, which have no run of their own:

- A name is recorded in `REGISTERED_PRIMOPS` before the C library accepts the
  primop and stays there if it does not, so a retry is told it "is already
  registered globally" (`RegisterPrimOpFails` in `PrimOps`).
- `ArgAttrs::get` returns `KeyNotFound` for an attribute that exists and throws
  (`GetThrows` in `Trampoline`), though its documentation says "if the key does
  not exist".
- The comment on `FlakeReferenceParseFlags` (`flake.rs:221-223`) says an
  `Arc<FlakeSettings>` keeps it alive; the struct (`flake.rs:154-157`) has none.
- `make_external` loses the payload when the value cannot be allocated or
  `nix_init_external` fails, and for good once it succeeds (`AllocValue`,
  `InitExternal` and `Collect` in `ExternalValues`): Nix has no finalizer for it.
- A panic or a null clone in the callbacks of `realize` and `get_fs_closure` is
  swallowed; the call returns `Ok` without that path.
- An exported locked flake without a source path for its root cannot be imported
  again, and one whose path belongs to a node no input leads to cannot be
  exported (`RoundTrip`, `Export`).
- When `nix_alloc_primop` fails, what the closure owned may call into the same
  context from its `Drop` before `PrimOp::new` reads the error, which is then
  without its message (`OwnMessage` says that nothing worse happens).
- A failure is taken for a "no" by `is_valid_path` (`store.rs:621-630`, false),
  `query_path_from_hash_part` (`store.rs:928-930`, `Ok(None)`), `has_attr`
  (`attrs.rs:143-152`, `Ok(false)`), `ArgAttrs::has` (`primop.rs:900-907`,
  `Ok(false)`), and the name is left out by `attr_keys` (`attrs.rs:108-110`) and
  `ArgAttrs::keys` (`primop.rs:924-926`): `swallow` in `ErrorBuffer`.  The
  documentation of `ArgAttrs::has` says "Returns an error if the lookup itself
  fails (not if the key is absent)" (`primop.rs:898-899`), that of `keys` "Returns
  an error if iteration fails" (`primop.rs:913`).

## Not modelled

- Scalars, type tags, formatting, paths: data without control.
- Settings, verbosity, log format, plugins: a C call each, without state on the
  Rust side.
- `allow_store_path` and the allow-listing of `make_path`: the allow list and the
  pure-evaluation setting are libexpr's; the wrapper reads one and adds to the
  other in a single call.
- Positions of the list and attribute iterators: one counter against a fixed
  length.
- The build script and the generated declarations: no state at run time.
- Data races on a context used from two threads against the documented contract.
- Whether libexpr's global builtin list may be appended to from two threads at
  once; the model makes that call one step.
- Whether libflake needs settings for longer than the Rust structs keep them.

## Plan

Done: `LibInit`, `PrimOps` with `ClosureMemory`, `Trampoline` with
`NestedCalls`, `ErrorBuffer`, `ValueRefs` with `ValueGraph`, `Handles` and
`ExternalValues` with `Ownership`, `LockGraph`, and their proofs.  What could
follow:

1. `Iteration`: positions of the list and attribute iterators while an element
   is forced.
2. An abstract specification of what a caller of the C API is told, which
   `ErrorBuffer` implements for every convention but `lossy` and `swallow`.
3. `Export` followed by `Import` as one abstract step, of which `RoundTrip` is
   the outcome.
