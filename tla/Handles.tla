------------------------------ MODULE Handles ------------------------------
(***************************************************************************)
(* Which C object each Rust wrapper owns, and what its Arcs keep alive     *)
(* (nix-bindings/src/store.rs, flake.rs, eval.rs, context.rs).             *)
(*                                                                         *)
(* A wrapper owns one C object, frees it in Drop and only then releases    *)
(* its fields: an Arc<Context>, and for some an Arc<Store> or an           *)
(* Arc<FlakeSettings>.  The last release of an Arc starts the drop of what *)
(* it held.  Wrappers are Send: several may be in the middle of their drop *)
(* at once, and a drop may fall between any two steps of an operation.     *)
(*                                                                         *)
(* An operation passes the C objects of its arguments, and of what it      *)
(* reaches through their fields, to the C library.  A constructor that     *)
(* fails leaves everything as it was, so only the operations that consume  *)
(* their wrapper have a failing action.                                    *)
(***************************************************************************)
EXTENDS Naturals, FiniteSets

CONSTANTS
  \* wrappers of each type, with their C object; an id is used again
  Contexts, Stores, StorePaths, Derivations, Builders, States, Settings,
  Fetchers, ParseFlags, LockFlags, References, LockedFlakes, Values,
  None,        \* no object
  MaxAlive,    \* bound: wrappers at once
  MaxDropping  \* bound: drops begun at once

Sorts == <<Contexts, Stores, StorePaths, Derivations, Builders, States,
           Settings, Fetchers, ParseFlags, LockFlags, References,
           LockedFlakes, Values>>

Objects ==
  Contexts \cup Stores \cup StorePaths \cup Derivations \cup Builders
  \cup States \cup Settings \cup Fetchers \cup ParseFlags \cup LockFlags
  \cup References \cup LockedFlakes \cup Values

ASSUME HandlesAssumption ==
  /\ \A i, j \in 1 .. 13 : i # j => Sorts[i] \cap Sorts[j] = {}
  /\ None \notin Objects
  /\ MaxAlive \in Nat /\ MaxDropping \in Nat

VARIABLES
  phase,     \* "none", "live", or "dropping": the C object is freed already
  context,   \* the wrapper's Arc<Context>
  keeps,     \* its Arc<Store> or Arc<FlakeSettings>; a Value's &EvalState
  madeFrom,  \* the C objects its C object was made from
  user,      \* wrappers and Arcs the program holds
  call,      \* store and path of a running realize or get_fs_closure
  inHand,    \* store paths that call has cloned
  misused    \* objects a C function was given after they were freed

wrapperVars == <<phase, context, keeps, madeFrom>>
callVars == <<call, inHand>>
vars == <<wrapperVars, user, callVars, misused>>

Idle == [store |-> None, path |-> None]

TypeOK ==
  /\ phase \in [Objects -> {"none", "live", "dropping"}]
  /\ context \in [Objects -> Objects \cup {None}]
  /\ keeps \in [Objects -> Objects \cup {None}]
  /\ madeFrom \in [Objects -> SUBSET Objects]
  /\ user \subseteq Objects
  /\ call \in [store : Objects \cup {None}, path : Objects \cup {None}]
  /\ inHand \subseteq Objects
  /\ misused \subseteq Objects

Init ==
  /\ phase = [o \in Objects |-> "none"]
  /\ context = [o \in Objects |-> None]
  /\ keeps = [o \in Objects |-> None]
  /\ madeFrom = [o \in Objects |-> {}]
  /\ user = {}
  /\ call = Idle /\ inHand = {}
  /\ misused = {}

Mine(S) == user \cap S
Live == {o \in Objects : phase[o] = "live"}

Fields(o) == {context[o], keeps[o]} \ {None}
Owners(o) == {x \in Objects : o \in Fields(x)}
Owned(o) == o \in user \cup inHand \/ Owners(o) # {}

\* Wrappers whose drop has begun, or is due because nothing owns them.
Leaving ==
  {o \in Objects : phase[o] = "dropping" \/ (phase[o] = "live" /\ ~Owned(o))}
MayDrop == Cardinality(Leaving) < MaxDropping

\* The running call and Values borrow: what they use cannot be moved or
\* dropped.
Borrowed(o) ==
  \/ o \in {call.store, call.path}
  \/ \E v \in Values : phase[v] # "none" /\ keeps[v] = o

\* What the C object of o relies on, as far as the structs are there to keep
\* it (eval.rs:162, flake.rs:241): the context, a state's and a builder's
\* store, the settings of LockFlags, a Value's state.  Parse flags and
\* builders are made from settings too, but have no field for them.
ReliesOn(o) == madeFrom[o] \ IF o \in LockFlags THEN {} ELSE Settings

\* The C objects a step hands to the C library, with what those rely on.
Passes(S) ==
  misused' =
    misused \cup (((S \ {None}) \cup UNION {ReliesOn(o) : o \in S \ {None}})
                   \ Live)

\* A constructor got a C object for o and wraps it.
Wrap(o, c, k, from) ==
  /\ phase[o] = "none"
  /\ Cardinality(Live) < MaxAlive
  /\ phase' = [phase EXCEPT ![o] = "live"]
  /\ context' = [context EXCEPT ![o] = c]
  /\ keeps' = [keeps EXCEPT ![o] = k]
  /\ madeFrom' = [madeFrom EXCEPT ![o] = from]

\* A constructor that passes S to C and returns o to the program.
Returns(o, c, k, from, S) ==
  /\ Wrap(o, c, k, from)
  /\ Passes(S)
  /\ user' = user \cup {o}
  /\ UNCHANGED callVars

\* A method that consumes o and fails: o is dropped with the Err.
Consumes(o, S) ==
  /\ ~Borrowed(o) /\ MayDrop
  /\ Passes(S)
  /\ user' = user \ {o}
  /\ UNCHANGED <<wrapperVars, callVars>>

----------------------------------------------------------------------------
(* context.rs, store.rs                                                    *)

NewContext(c) ==
  /\ c \in Contexts
  /\ Returns(c, None, None, {}, {})

OpenStore(c, s) ==
  /\ c \in Mine(Contexts) /\ s \in Stores
  /\ Returns(s, c, None, {c}, {c})

\* StorePath::parse with any context, Store::store_path with the store's.
ParsePath(c, s, p) ==
  /\ s \in Mine(Stores) /\ p \in StorePaths
  /\ c \in Mine(Contexts) \cup {context[s]}
  /\ Returns(p, c, None, {c}, {c, s})

\* query_path_from_hash_part, add_bytes_to_store, add_text_to_store
FindOrAddPath(s, p) ==
  /\ s \in Mine(Stores) /\ p \in StorePaths
  /\ Returns(p, context[s], None, {context[s]}, {context[s], s})

FromParts(c, p) ==
  /\ c \in Mine(Contexts) /\ p \in StorePaths
  /\ Returns(p, c, None, {c}, {c})

\* Clone for StorePath and for Derivation: a C object of its own.
CloneHandle(S, o, q) ==
  /\ S \in {StorePaths, Derivations}
  /\ o \in Mine(S) /\ q \in S
  /\ Returns(q, context[o], None, {context[o]}, {o})

DerivationFromJson(c, s, d) ==
  /\ c \in Mine(Contexts) /\ s \in Mine(Stores) /\ d \in Derivations
  /\ Returns(d, c, None, {c}, {c, s})

\* Derivation::from_store_path, and read_derivation with the store's context
ReadDerivation(c, s, p, d) ==
  /\ s \in Mine(Stores) /\ p \in Mine(StorePaths) /\ d \in Derivations
  /\ c \in Mine(Contexts) \cup {context[s]}
  /\ Returns(d, c, None, {c}, {c, s, p})

AddToStore(d, s, p) ==
  /\ d \in Mine(Derivations) /\ s \in Mine(Stores) /\ p \in StorePaths
  /\ Returns(p, context[d], None, {context[d]}, {context[d], s, d})

\* is_valid_path, real_path, uri, store_dir and version, where t is s;
\* copy_closure and copy_path to another store.  Nothing is made.
UseStore(s, t, p) ==
  /\ {s, t} \subseteq Mine(Stores) /\ p \in Mine(StorePaths) \cup {None}
  /\ Passes({context[s], s, t, p})
  /\ UNCHANGED <<wrapperVars, user, callVars>>

\* What only reads: name, hash_part, to_json, export_json.
Read(o) ==
  /\ o \in Mine(StorePaths \cup Derivations \cup LockedFlakes)
  /\ Passes({context[o], o})
  /\ UNCHANGED <<wrapperVars, user, callVars>>

\* realize, get_fs_closure and collect_fs_closure enter the C library.
EnterStore(s, p) ==
  /\ call = Idle
  /\ s \in Mine(Stores) /\ p \in Mine(StorePaths)
  /\ call' = [store |-> s, path |-> p]
  /\ Passes({context[s], s, p})
  /\ UNCHANGED <<wrapperVars, user, inHand>>

\* The C library reports a path to the callback, which clones it; the
\* closure of collect_fs_closure clones that clone (q is p then, or p's
\* wrapper).  A null path or clone makes nothing.
ReportPath(q) ==
  /\ call # Idle
  /\ q \in StorePaths
  /\ Wrap(q, context[call.store], None, {context[call.store]})
  /\ inHand' = inHand \cup {q}
  /\ Passes({})
  /\ UNCHANGED <<user, call>>

\* Mutant: the collected clone shares its C object with the dropped one.
ForgetPathShared(q) ==
  /\ q \in inHand /\ MayDrop
  /\ phase' = [phase EXCEPT ![q] = "dropping"]
  /\ madeFrom' = [madeFrom EXCEPT ![q] = {}]
  /\ UNCHANGED <<context, keeps, user, callVars, misused>>

\* get_fs_closure drops its clone when the callback is through, or panicked.
ForgetPath(q) ==
  /\ q \in inHand /\ MayDrop
  /\ inHand' = inHand \ {q}
  /\ UNCHANGED <<wrapperVars, user, call, misused>>

\* The call returns what it has collected.
LeaveStore ==
  /\ call # Idle
  /\ user' = user \cup inHand
  /\ call' = Idle /\ inHand' = {}
  /\ UNCHANGED <<wrapperVars, misused>>

\* Mutant: the paths collected so far are forgotten.
FailStoreForgets ==
  /\ call # Idle
  /\ call' = Idle
  /\ Passes({context[call.store]})
  /\ UNCHANGED <<wrapperVars, user, inHand>>

\* The call failed: check_err returns, and the collected paths are dropped.
FailStore ==
  /\ call # Idle
  /\ call' = Idle /\ inHand' = {}
  /\ Passes({context[call.store]})
  /\ UNCHANGED <<wrapperVars, user>>

----------------------------------------------------------------------------
(* eval.rs                                                                 *)

NewBuilder(s, b) ==
  /\ s \in Mine(Stores) /\ b \in Builders
  /\ Returns(b, context[s], s, {context[s], s}, {context[s], s})

\* set_lookup_path; with_flake_settings, with S the settings.
ConfigureFails(b, S) ==
  /\ b \in Mine(Builders)
  /\ S \subseteq Mine(Settings) /\ Cardinality(S) <= 1
  /\ Consumes(b, {context[b], b} \cup S)

\* with_flake_settings: the builder's C object learns of the settings.
AddSettings(b, f) ==
  /\ b \in Mine(Builders) /\ f \in Mine(Settings)
  /\ madeFrom' = [madeFrom EXCEPT ![b] = @ \cup {f}]
  /\ Passes({context[b], b, f})
  /\ UNCHANGED <<phase, context, keeps, user, callVars>>

\* The state takes over the builder's Arcs; the builder is dropped.
Build(b, e) ==
  /\ b \in Mine(Builders) /\ e \in States /\ MayDrop
  /\ Wrap(e, context[b], keeps[b], madeFrom[b])
  /\ Passes({context[b], b})
  /\ user' = (user \ {b}) \cup {e}
  /\ UNCHANGED callVars

\* nix_eval_state_builder_load or nix_eval_state_build fails.
BuildFails(b) == b \in Mine(Builders) /\ Consumes(b, {context[b], b})

----------------------------------------------------------------------------
(* flake.rs                                                                *)

NewSettings(c, f) ==
  /\ c \in Mine(Contexts) /\ f \in Settings
  /\ Returns(f, c, None, {c}, {c})

NewFetchers(c, f) ==
  /\ c \in Mine(Contexts) /\ f \in Fetchers
  /\ Returns(f, c, None, {c}, {c})

\* The wrapper has no field for the settings.
NewParseFlags(c, f, g) ==
  /\ c \in Mine(Contexts) /\ f \in Mine(Settings)
  /\ g \in ParseFlags
  /\ Returns(g, c, None, {c, f}, {c, f})

SetBaseDirectoryFails(g) ==
  g \in Mine(ParseFlags) /\ Consumes(g, {context[g], g})

NewLockFlags(c, f, g) ==
  /\ c \in Mine(Contexts) /\ f \in Mine(Settings)
  /\ g \in LockFlags
  /\ Returns(g, c, f, {c, f}, {c, f})

SetModeFails(g) ==
  g \in Mine(LockFlags) /\ Consumes(g, {context[g], g})

\* The reference is copied into the flags; on failure they are dropped.
AddInputOverride(g, r) ==
  /\ g \in Mine(LockFlags) /\ r \in Mine(References)
  /\ MayDrop
  /\ Passes({context[g], g, r})
  /\ user' \in {user, user \ {g}}
  /\ UNCHANGED <<wrapperVars, callVars>>

ParseReference(c, t, f, g, r) ==
  /\ c \in Mine(Contexts) /\ t \in Mine(Fetchers)
  /\ f \in Mine(Settings) /\ g \in Mine(ParseFlags)
  /\ r \in References
  /\ Returns(r, c, None, {c}, {c, t, f, g})

Lock(c, t, f, e, g, r, l) ==
  /\ c \in Mine(Contexts) /\ t \in Mine(Fetchers)
  /\ f \in Mine(Settings) /\ e \in Mine(States)
  /\ g \in Mine(LockFlags) /\ r \in Mine(References)
  /\ l \in LockedFlakes
  /\ Returns(l, c, None, {c}, {c, t, f, e, g, r})

ImportJson(c, t, l) ==
  /\ c \in Mine(Contexts) /\ t \in Mine(Fetchers) /\ l \in LockedFlakes
  /\ Returns(l, c, None, {c}, {c, t})

\* Mutant: the Value's lifetime is that of the locked flake.
OutputAttrsOfFlake(l, f, e, v) ==
  /\ l \in Mine(LockedFlakes) /\ f \in Mine(Settings)
  /\ e \in Mine(States) /\ v \in Values
  /\ Returns(v, None, l, {keeps[l]}, {context[l], f, e, l})

\* LockedFlake and ImportedLockedFlake: the Value borrows the state.
OutputAttrs(l, f, e, v) ==
  /\ l \in Mine(LockedFlakes) /\ f \in Mine(Settings)
  /\ e \in Mine(States) /\ v \in Values
  /\ Returns(v, None, e, {e}, {context[l], f, e, l})

----------------------------------------------------------------------------
(* Dropping                                                                *)

\* The program drops a wrapper, or its last clone of an Arc.
LetGo(o) ==
  /\ o \in user /\ ~Borrowed(o) /\ MayDrop
  /\ user' = user \ {o}
  /\ UNCHANGED <<wrapperVars, callVars, misused>>

\* Mutant: the C object is freed after the fields were released.
DropLate(o) ==
  /\ phase[o] = "live" /\ ~Owned(o)
  /\ context' = [context EXCEPT ![o] = None]
  /\ keeps' = [keeps EXCEPT ![o] = None]
  /\ phase' = [phase EXCEPT ![o] = IF Fields(o) = {} THEN "none" ELSE @]
  /\ madeFrom' = [madeFrom EXCEPT ![o] = IF Fields(o) = {} THEN {} ELSE @]
  /\ Passes({o})
  /\ UNCHANGED <<user, callVars>>

\* Nothing owns o any more: its Drop frees the C object.  A Value gives its
\* reference back through the context of its state.
Drop(o) ==
  /\ phase[o] = "live" /\ ~Owned(o)
  /\ phase' = [phase EXCEPT ![o] = IF Fields(o) = {} THEN "none"
                                   ELSE "dropping"]
  /\ madeFrom' = [madeFrom EXCEPT ![o] = {}]
  /\ Passes({o} \cup IF o \in Values THEN {context[keeps[o]]} ELSE {})
  /\ UNCHANGED <<context, keeps, user, callVars>>

\* After the body of Drop the fields go one by one.
Release(o, f) ==
  /\ phase[o] = "dropping" /\ f \in Fields(o)
  /\ context' = [context EXCEPT ![o] = IF @ = f THEN None ELSE @]
  /\ keeps' = [keeps EXCEPT ![o] = IF @ = f THEN None ELSE @]
  /\ phase' = [phase EXCEPT ![o] = IF Fields(o) = {f} THEN "none" ELSE @]
  /\ UNCHANGED <<madeFrom, user, callVars, misused>>

StoreStep ==
  \/ \E c \in Contexts : \/ NewContext(c)
                       \/ \E s \in Stores : OpenStore(c, s)
                       \/ \E p \in StorePaths : FromParts(c, p)
  \/ \E S \in {StorePaths, Derivations} : \E o, q \in S : CloneHandle(S, o, q)
  \/ \E c \in Contexts, s \in Stores :
       \/ \E p \in StorePaths : ParsePath(c, s, p)
       \/ \E d \in Derivations : DerivationFromJson(c, s, d)
       \/ \E p \in StorePaths, d \in Derivations : ReadDerivation(c, s, p, d)
  \/ \E s \in Stores, p \in StorePaths :
       \/ \E d \in Derivations : AddToStore(d, s, p)
       \/ FindOrAddPath(s, p)
       \/ EnterStore(s, p)
  \/ \E s, t \in Stores, p \in StorePaths \cup {None} : UseStore(s, t, p)
  \/ \E o \in Objects : Read(o)
  \/ \E q \in StorePaths : ReportPath(q) \/ ForgetPath(q)
  \/ LeaveStore
  \/ FailStore

EvalStep ==
  \E b \in Builders :
    \/ \E s \in Stores : NewBuilder(s, b)
    \/ ConfigureFails(b, {})
    \/ \E f \in Settings : AddSettings(b, f) \/ ConfigureFails(b, {f})
    \/ \E e \in States : Build(b, e)
    \/ BuildFails(b)

FlakeStep ==
  \/ \E c \in Contexts, f \in Settings :
       \/ NewSettings(c, f)
       \/ \E g \in ParseFlags : NewParseFlags(c, f, g)
       \/ \E g \in LockFlags : NewLockFlags(c, f, g)
       \/ \E t \in Fetchers, r \in References :
            \/ \E g \in ParseFlags : ParseReference(c, t, f, g, r)
            \/ \E e \in States, g \in LockFlags, l \in LockedFlakes :
                 Lock(c, t, f, e, g, r, l)
  \/ \E c \in Contexts, t \in Fetchers :
       NewFetchers(c, t) \/ \E l \in LockedFlakes : ImportJson(c, t, l)
  \/ \E g \in ParseFlags : SetBaseDirectoryFails(g)
  \/ \E g \in LockFlags :
       SetModeFails(g) \/ \E r \in References : AddInputOverride(g, r)
  \/ \E l \in LockedFlakes, f \in Settings, e \in States, v \in Values :
       OutputAttrs(l, f, e, v)

DropStep ==
  \E o \in Objects : LetGo(o) \/ Drop(o) \/ \E f \in Fields(o) : Release(o, f)

Next == StoreStep \/ EvalStep \/ FlakeStep \/ DropStep

Spec == Init /\ [][Next]_vars

----------------------------------------------------------------------------
(* Properties                                                              *)

\* No C function is ever handed an object that was freed: not by an
\* operation that reaches a context or settings through another wrapper's
\* fields, not by a drop that runs while other drops are under way.
NoUseAfterFree == misused = {}

\* A C object outlives every C object that relies on it, in whatever order
\* the program drops wrappers and Arcs, also halfway through those drops.
Anchored == \A o \in Live : ReliesOn(o) \subseteq Live

\* When the program holds nothing and no drop is under way, every C object
\* was freed: no Arc cycle, no builder, flags or collected path was lost on
\* an error path.
NothingLeft ==
  user = {} /\ call = Idle /\ Leaving = {} =>
    \A o \in Objects : phase[o] = "none"

\* The wrappers, their Arcs and the order of their drops do what Ownership
\* promises: a C object is made from live ones only, is freed only when the
\* program can no longer reach it and no other live C object relies on it,
\* and is never handed out again.
Ownership == INSTANCE Ownership
  WITH alive <- Live,
       needs <- [o \in Objects |-> ReliesOn(o)],
       held <- user \cup inHand
ImplementsOwnership == Ownership!Spec
=============================================================================
