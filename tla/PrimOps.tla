------------------------------ MODULE PrimOps ------------------------------
(***************************************************************************)
(* Custom primops (nix-bindings/src/primop.rs): PrimOp::new boxes a Rust   *)
(* closure and ties it to a garbage-collected nix PrimOp object; register  *)
(* makes it a global builtin under a process-wide unique name; into_value  *)
(* embeds it in a Nix value; Drop gives back the reference it holds.  The  *)
(* collector of the Nix library frees what no reference reaches and runs   *)
(* the finalizer that frees the closure.                                   *)
(*                                                                         *)
(* A PrimOp is consumed by the call it is passed to, so the calls that run *)
(* concurrently are told apart by the primop they work on.                 *)
(***************************************************************************)
EXTENDS Naturals

CONSTANTS
  Prims,      \* primops the program creates
  Names,      \* builtin names
  Values,     \* Nix values made by into_value
  States,     \* EvalStates
  None,       \* no name, value, primop or state
  MaxRefs     \* bound: Value wrappers (clones) of one Nix value

ASSUME PrimOpsAssumption ==
  /\ None \notin Prims \cup Names \cup Values \cup States
  /\ MaxRefs \in Nat \ {0}

VARIABLES
  phase,      \* phase[p]: how far p has come
  name,       \* name[p]: the name given to PrimOp::new
  registered, \* registered[p]: the flag that Drop tests
  target,     \* target[p]: the value an into_value call is filling
  boxed,      \* boxed[p]: the ClosureData box was allocated
  frees,      \* frees[p]: how often that box was freed
  object,     \* object[p]: state of the GC-managed PrimOp object
  gcref,      \* gcref[p]: explicit GC references to that object
  finalizer,  \* finalizer[p]: drop_closure_finalizer is attached to it
  names,      \* REGISTERED_PRIMOPS
  registry,   \* primops accepted by nix_register_primop
  builtins,   \* builtins[s]: registered primops EvalState s was built with
  built,      \* EvalStates that exist
  vref,       \* vref[v]: GC references to v, one per Rust wrapper
  vprim,      \* vprim[v]: the primop v was initialised with
  vstate      \* vstate[v]: the EvalState v borrows

handleVars  == <<phase, name, registered, target>>
closureVars == <<boxed, frees>>
objectVars  == <<object, gcref, finalizer>>
globalVars  == <<names, registry>>
stateVars   == <<builtins, built>>
valueVars   == <<vref, vprim, vstate>>
vars == <<handleVars, closureVars, objectVars, globalVars, stateVars,
          valueVars>>

Phases ==
  {"none", "boxed", "allocated", "handle", "named", "embedding", "dropping",
   "gone"}

TypeOK ==
  /\ phase \in [Prims -> Phases]
  /\ name \in [Prims -> Names \cup {None}]
  /\ registered \in [Prims -> BOOLEAN]
  /\ target \in [Prims -> Values \cup {None}]
  /\ boxed \in [Prims -> BOOLEAN]
  /\ frees \in [Prims -> Nat]
  /\ object \in [Prims -> {"none", "alive", "finalizing", "collected"}]
  /\ gcref \in [Prims -> Nat]
  /\ finalizer \in [Prims -> BOOLEAN]
  /\ names \subseteq Names
  /\ registry \subseteq Prims
  /\ builtins \in [States -> SUBSET Prims]
  /\ built \subseteq States
  /\ vref \in [Values -> Nat]
  /\ vprim \in [Values -> Prims \cup {None}]
  /\ vstate \in [Values -> States \cup {None}]

Init ==
  /\ phase = [p \in Prims |-> "none"]
  /\ name = [p \in Prims |-> None]
  /\ registered = [p \in Prims |-> FALSE]
  /\ target = [p \in Prims |-> None]
  /\ boxed = [p \in Prims |-> FALSE]
  /\ frees = [p \in Prims |-> 0]
  /\ object = [p \in Prims |-> "none"]
  /\ gcref = [p \in Prims |-> 0]
  /\ finalizer = [p \in Prims |-> FALSE]
  /\ names = {}
  /\ registry = {}
  /\ builtins = [s \in States |-> {}]
  /\ built = {}
  /\ vref = [v \in Values |-> 0]
  /\ vprim = [v \in Values |-> None]
  /\ vstate = [v \in Values |-> None]

Goto(p, ph) == phase' = [phase EXCEPT ![p] = ph]

-----------------------------------------------------------------------------
(* PrimOp::new                                                             *)

\* The closure is boxed and turned into a raw pointer.
BoxClosure(p, n) ==
  /\ phase[p] = "none"
  /\ Goto(p, "boxed")
  /\ name' = [name EXCEPT ![p] = n]
  /\ boxed' = [boxed EXCEPT ![p] = TRUE]
  /\ UNCHANGED <<registered, target, frees, objectVars, globalVars, stateVars,
                 valueVars>>

\* nix_alloc_primop returns an object with one reference for the handle.
AllocPrimOp(p) ==
  /\ phase[p] = "boxed"
  /\ Goto(p, "allocated")
  /\ object' = [object EXCEPT ![p] = "alive"]
  /\ gcref' = [gcref EXCEPT ![p] = 1]
  /\ UNCHANGED <<name, registered, target, closureVars, finalizer, globalVars,
                 stateVars, valueVars>>

\* nix_alloc_primop returns null: the box is taken back and dropped.
AllocPrimOpFails(p) ==
  /\ phase[p] = "boxed"
  /\ Goto(p, "gone")
  /\ frees' = [frees EXCEPT ![p] = @ + 1]
  /\ UNCHANGED <<name, registered, target, boxed, objectVars, globalVars,
                 stateVars, valueVars>>

RegisterFinalizer(p) ==
  /\ phase[p] = "allocated"
  /\ Goto(p, "handle")
  /\ finalizer' = [finalizer EXCEPT ![p] = TRUE]
  /\ UNCHANGED <<name, registered, target, closureVars, object, gcref,
                 globalVars, stateVars, valueVars>>

-----------------------------------------------------------------------------
(* PrimOp::register                                                        *)

\* Mutant: the name is looked up under the mutex but not reserved there.
ClaimNameUnreserved(p) ==
  /\ phase[p] = "handle"
  /\ name[p] \notin names
  /\ Goto(p, "named")
  /\ UNCHANGED <<name, registered, target, closureVars, objectVars,
                 globalVars, stateVars, valueVars>>

\* Under the mutex: the name was free and is reserved.  The mutex is released
\* before the C library is called.
ClaimName(p) ==
  /\ phase[p] = "handle"
  /\ name[p] \notin names
  /\ names' = names \cup {name[p]}
  /\ Goto(p, "named")
  /\ UNCHANGED <<name, registered, target, closureVars, objectVars, registry,
                 stateVars, valueVars>>

\* Mutant: the refusing path releases the primop by hand, and Drop again.
RefuseDuplicateReleases(p) ==
  /\ phase[p] = "handle"
  /\ name[p] \in names
  /\ Goto(p, "dropping")
  /\ gcref' = [gcref EXCEPT ![p] = @ - 1]
  /\ UNCHANGED <<name, registered, target, closureVars, object, finalizer,
                 globalVars, stateVars, valueVars>>

\* Under the mutex: the name is taken, the call returns an error and drops
\* the primop it consumed.
RefuseDuplicate(p) ==
  /\ phase[p] = "handle"
  /\ name[p] \in names
  /\ Goto(p, "dropping")
  /\ UNCHANGED <<name, registered, target, closureVars, objectVars,
                 globalVars, stateVars, valueVars>>

\* nix_register_primop copies the primop, its user data included, into the
\* library's global list; the flag keeps Drop from releasing the original.
RegisterPrimOp(p) ==
  /\ phase[p] = "named"
  /\ registry' = registry \cup {p}
  /\ registered' = [registered EXCEPT ![p] = TRUE]
  /\ Goto(p, "dropping")
  /\ UNCHANGED <<name, target, closureVars, objectVars, names, stateVars,
                 valueVars>>

\* Mutant: the flag is set before the call is known to have succeeded.
RegisterPrimOpFailsFlagged(p) ==
  /\ phase[p] = "named"
  /\ registered' = [registered EXCEPT ![p] = TRUE]
  /\ Goto(p, "dropping")
  /\ UNCHANGED <<name, target, closureVars, objectVars, globalVars, stateVars,
                 valueVars>>

\* The library refuses: the call returns the error.  The name stays reserved.
RegisterPrimOpFails(p) ==
  /\ phase[p] = "named"
  /\ Goto(p, "dropping")
  /\ UNCHANGED <<name, registered, target, closureVars, objectVars,
                 globalVars, stateVars, valueVars>>

-----------------------------------------------------------------------------
(* PrimOp::into_value                                                      *)

\* A value nobody refers to is what nix_alloc_value can hand out.
Unused(v) == vref[v] = 0

\* Mutant: self gives its reference back before the value holds the primop.
AllocValueReleases(p, s, v) ==
  /\ phase[p] = "handle"
  /\ s \in built
  /\ Unused(v)
  /\ Goto(p, "embedding")
  /\ target' = [target EXCEPT ![p] = v]
  /\ gcref' = [gcref EXCEPT ![p] = 0]
  /\ vref' = [vref EXCEPT ![v] = 1]
  /\ vprim' = [vprim EXCEPT ![v] = None]
  /\ vstate' = [vstate EXCEPT ![v] = s]
  /\ UNCHANGED <<name, registered, closureVars, object, finalizer, globalVars,
                 stateVars>>

\* state.alloc_value() returned a fresh value with one reference.
AllocValue(p, s, v) ==
  /\ phase[p] = "handle"
  /\ s \in built
  /\ Unused(v)
  /\ Goto(p, "embedding")
  /\ target' = [target EXCEPT ![p] = v]
  /\ vref' = [vref EXCEPT ![v] = 1]
  /\ vprim' = [vprim EXCEPT ![v] = None]
  /\ vstate' = [vstate EXCEPT ![v] = s]
  /\ UNCHANGED <<name, registered, closureVars, objectVars, globalVars,
                 stateVars>>

AllocValueFails(p) ==
  /\ phase[p] = "handle"
  /\ built # {}
  /\ Goto(p, "dropping")
  /\ UNCHANGED <<name, registered, target, closureVars, objectVars,
                 globalVars, stateVars, valueVars>>

\* nix_init_primop stores the primop in the value, which from then on keeps
\* it alive; the call returns the value and drops self.
InitPrimOp(p) ==
  /\ phase[p] = "embedding"
  /\ vprim' = [vprim EXCEPT ![target[p]] = p]
  /\ target' = [target EXCEPT ![p] = None]
  /\ Goto(p, "dropping")
  /\ UNCHANGED <<name, registered, closureVars, objectVars, globalVars,
                 stateVars, vref, vstate>>

\* nix_init_primop fails: `?` drops the value and self.
InitPrimOpFails(p) ==
  /\ phase[p] = "embedding"
  /\ vref' = [vref EXCEPT ![target[p]] = 0]
  /\ vstate' = [vstate EXCEPT ![target[p]] = None]
  /\ target' = [target EXCEPT ![p] = None]
  /\ Goto(p, "dropping")
  /\ UNCHANGED <<name, registered, closureVars, objectVars, globalVars,
                 stateVars, vprim>>

-----------------------------------------------------------------------------
(* Drop for PrimOp                                                         *)

\* Mutant: Drop ignores the registered flag.
DropPrimOpAlways(p) ==
  /\ phase[p] \in {"handle", "dropping"}
  /\ Goto(p, "gone")
  /\ gcref' = [gcref EXCEPT ![p] = @ - 1]
  /\ UNCHANGED <<name, registered, target, closureVars, object, finalizer,
                 globalVars, stateVars, valueVars>>

\* The program drops a handle, or a consuming call ends.
DropPrimOp(p) ==
  /\ phase[p] \in {"handle", "dropping"}
  /\ Goto(p, "gone")
  /\ gcref' = IF registered[p] THEN gcref ELSE [gcref EXCEPT ![p] = @ - 1]
  /\ UNCHANGED <<name, registered, target, closureVars, object, finalizer,
                 globalVars, stateVars, valueVars>>

-----------------------------------------------------------------------------
(* The evaluator's side: states, values and the collector.                 *)

\* EvalStateBuilder::build: the new state's builtins are the primops
\* registered so far.
BuildState(s) ==
  /\ s \notin built
  /\ built' = built \cup {s}
  /\ builtins' = [builtins EXCEPT ![s] = registry]
  /\ UNCHANGED <<handleVars, closureVars, objectVars, globalVars, valueVars>>

\* A state is dropped once no Value borrows it.
DropState(s) ==
  /\ s \in built
  /\ \A v \in Values : vstate[v] # s
  /\ built' = built \ {s}
  /\ builtins' = [builtins EXCEPT ![s] = {}]
  /\ UNCHANGED <<handleVars, closureVars, objectVars, globalVars, valueVars>>

\* A wrapper that into_value returned: the value is not being filled.
Wrapped(v) == vref[v] > 0 /\ \A p \in Prims : target[p] # v

CloneValue(v) ==
  /\ Wrapped(v)
  /\ vref[v] < MaxRefs
  /\ vref' = [vref EXCEPT ![v] = @ + 1]
  /\ UNCHANGED <<handleVars, closureVars, objectVars, globalVars, stateVars,
                 vprim, vstate>>

DropValue(v) ==
  /\ Wrapped(v)
  /\ vref' = [vref EXCEPT ![v] = @ - 1]
  /\ vstate' = IF vref[v] = 1 THEN [vstate EXCEPT ![v] = None] ELSE vstate
  /\ UNCHANGED <<handleVars, closureVars, objectVars, globalVars, stateVars,
                 vprim>>

\* What the collector sees: explicit references, and referenced values that
\* hold the primop.  The registry's copies are not traced.
Reachable(p) ==
  \/ gcref[p] > 0
  \/ \E v \in Values : vref[v] > 0 /\ vprim[v] = p

\* The collector finds the object unreachable.
Collect(p) ==
  /\ object[p] = "alive"
  /\ ~Reachable(p)
  /\ object' = [object EXCEPT ![p] = IF finalizer[p] THEN "finalizing"
                                                    ELSE "collected"]
  /\ UNCHANGED <<handleVars, closureVars, gcref, finalizer, globalVars,
                 stateVars, valueVars>>

\* drop_closure_finalizer
Finalize(p) ==
  /\ object[p] = "finalizing"
  /\ object' = [object EXCEPT ![p] = "collected"]
  /\ frees' = [frees EXCEPT ![p] = @ + 1]
  /\ UNCHANGED <<handleVars, boxed, gcref, finalizer, globalVars, stateVars,
                 valueVars>>

-----------------------------------------------------------------------------
New(p) ==
  \/ \E n \in Names : BoxClosure(p, n)
  \/ AllocPrimOp(p)
  \/ AllocPrimOpFails(p)
  \/ RegisterFinalizer(p)

Register(p) ==
  \/ ClaimName(p)
  \/ RefuseDuplicate(p)
  \/ RegisterPrimOp(p)
  \/ RegisterPrimOpFails(p)

IntoValue(p) ==
  \/ \E s \in States, v \in Values : AllocValue(p, s, v)
  \/ AllocValueFails(p)
  \/ InitPrimOp(p)
  \/ InitPrimOpFails(p)

Next ==
  \/ \E p \in Prims :
       New(p) \/ Register(p) \/ IntoValue(p) \/ DropPrimOp(p) \/ Collect(p)
       \/ Finalize(p)
  \/ \E s \in States : BuildState(s) \/ DropState(s)
  \/ \E v \in Values : CloneValue(v) \/ DropValue(v)

Spec == Init /\ [][Next]_vars

-----------------------------------------------------------------------------
\* The evaluator can enter the trampoline with p's closure as user data,
\* through a builtin of a state or through a value.
Callable(p) ==
  \/ \E s \in built : p \in builtins[s]
  \/ \E v \in Values : vref[v] > 0 /\ vprim[v] = p

\* Some call of register, into_value or new, or a handle, still holds p.
InHand(p) == phase[p] \notin {"none", "gone"}

\* Nothing can come to call p any more: no handle, no builtin of a present or
\* future state, no value.
Wanted(p) == InHand(p) \/ p \in registry \/ Callable(p)

\* The evaluator never runs a closure whose memory was freed, at whatever
\* point the collector runs between the steps of the calls.
NoUseAfterFree ==
  \A p \in Prims : Callable(p) \/ p \in registry => boxed[p] /\ frees[p] = 0

\* Each box is freed at most once, and only after it was allocated: the null
\* path of new and the finalizer never both free it.
FreedOnce == \A p \in Prims : frees[p] <= 1 /\ (frees[p] = 1 => boxed[p])

\* What nothing wants is garbage to the collector, with a finalizer that
\* frees the closure: no path of register, into_value or Drop leaks it.
NoOrphanClosure ==
  \A p \in Prims :
    /\ boxed[p] /\ frees[p] = 0 /\ ~Wanted(p)
    => /\ ~Reachable(p)
       /\ finalizer[p]
       /\ object[p] \in {"alive", "finalizing"}

\* Two builtins never carry the same name, even when two threads register
\* them at the same time.
UniqueBuiltins ==
  \A p, q \in registry : p # q => name[p] # name[q]

\* The closure memory the bindings implement with references and finalizers.
MemoryOf(p) ==
  IF ~boxed[p] THEN "none"
  ELSE IF frees[p] = 0 THEN "live"
  ELSE IF frees[p] = 1 THEN "freed" ELSE "freed again"

Memory == INSTANCE ClosureMemory WITH
  Closures <- Prims,
  mem <- [p \in Prims |-> MemoryOf(p)],
  wanted <- {p \in Prims : Wanted(p)}

ImplementsMemory == Memory!Spec
=============================================================================
