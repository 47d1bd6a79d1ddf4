----------------------------- MODULE ValueRefs -----------------------------
(***************************************************************************)
(* Who owns what between the Rust wrappers and the Nix heap                *)
(* (nix-bindings/src/eval.rs, value.rs, attrs.rs, lists.rs).               *)
(*                                                                         *)
(* A `Value` owns one reference on a heap cell; the collector keeps what   *)
(* is referenced and what referenced cells hold.  An operation of the      *)
(* crate is a few C calls with Rust's cleanup between them: it asks for a  *)
(* cell, fills it, and either returns it as a `Value` or fails and gives   *)
(* back what it took.  The collector may run during any of those calls.    *)
(*                                                                         *)
(* One thread uses an EvalState, so one operation runs at a time.  What a  *)
(* value is made of is reduced to the cells it holds.                      *)
(***************************************************************************)
EXTENDS Naturals, FiniteSets

CONSTANTS
  Cells,        \* addresses of the Nix heap
  None,         \* no address
  MaxWrappers,  \* bound: Values of one cell the program keeps
  MaxStrings    \* bound: realised strings alive

ASSUME RefsAssumption ==
  None \notin Cells /\ MaxWrappers \in Nat \ {0} /\ MaxStrings \in Nat

\* Operations that return a new value: eval_from_string; make_int .. make_path;
\* make_thunk; call, call_multi, copy and auto_call_function; make_list and
\* make_attrs, which collect their items in a builder first.
Makers == {"eval", "init", "thunk", "call", "build"}
\* list_get, get_attr and ListIterator; AttrIterator; as_string;
\* as_string_with_context
Readers == {"get", "entry", "string", "stringContext"}

VARIABLES
  allocated,    \* cells in use
  refs,         \* references libexpr counts on a cell
  holds,        \* cells a cell's value holds
  lazy,         \* cells that hold an unevaluated expression
  wrappers,     \* live Values of a cell
  kind,         \* the running operation, or "idle"
  step,         \* what it does next
  items,        \* values it was given
  builder,      \* items it has put in its builder
  result,       \* the cell it is about to return
  strings,      \* nix_realised_strings not yet freed
  lost,         \* cells whose reference a failed operation dropped unreleased
  lostStrings   \* realised strings dropped unreleased

opVars == <<kind, step, items, builder, result>>
heapVars == <<allocated, refs, holds, lazy>>
stringVars == <<strings, lostStrings>>
vars == <<heapVars, wrappers, opVars, stringVars, lost>>

TypeOK ==
  /\ allocated \subseteq Cells
  /\ refs \in [Cells -> Nat]
  /\ holds \in [Cells -> SUBSET Cells]
  /\ lazy \subseteq Cells
  /\ wrappers \in [Cells -> 0 .. MaxWrappers]
  /\ kind \in {"idle"} \cup Makers \cup Readers
  /\ step \in {"none", "fill", "alloc", "init", "owned", "string"}
  /\ items \subseteq Cells
  /\ builder \subseteq items
  /\ result \in Cells \cup {None}
  /\ strings \in 0 .. MaxStrings
  /\ lost \subseteq Cells
  /\ lostStrings \in 0 .. strings

Init ==
  /\ allocated = {}
  /\ refs = [c \in Cells |-> 0]
  /\ holds = [c \in Cells |-> {}]
  /\ lazy = {}
  /\ wrappers = [c \in Cells |-> 0]
  /\ kind = "idle" /\ step = "none"
  /\ items = {} /\ builder = {} /\ result = None
  /\ strings = 0
  /\ lost = {} /\ lostStrings = 0

Wrapped == {c \in Cells : wrappers[c] > 0}

\* Cells that no path of holds from S misses.
Reach(S) ==
  {c \in Cells : \A T \in SUBSET Cells :
     S \subseteq T /\ (\A d \in T : holds[d] \subseteq T) => c \in T}

Idle == kind = "idle"

\* nix_value_incref, and nix_value_decref: of a cell that is not counted it
\* is an error, which Drop ignores.
Incref(c) == refs' = [refs EXCEPT ![c] = @ + 1]
Decref(c) == refs' = [refs EXCEPT ![c] = IF @ = 0 THEN 0 ELSE @ - 1]

Finish ==
  /\ kind' = "idle" /\ step' = "none"
  /\ items' = {} /\ builder' = {} /\ result' = None

----------------------------------------------------------------------------
(* Operations that return a new value                                      *)

\* The operation is called on values the caller has.
Begin(k, S) ==
  /\ Idle
  /\ S \subseteq Wrapped
  /\ CASE k \in {"eval", "init"} -> S = {}
       [] k \in {"thunk", "call"} -> S # {}
       [] k = "build" -> TRUE
  /\ kind' = k
  /\ step' = IF k = "build" THEN "fill" ELSE "alloc"
  /\ items' = S
  /\ UNCHANGED <<builder, result, heapVars, wrappers, stringVars, lost>>

\* nix_list_builder_insert, nix_bindings_builder_insert
Insert(c) ==
  /\ step = "fill"
  /\ c \in items \ builder
  /\ builder' = builder \cup {c}
  /\ UNCHANGED <<kind, step, items, result, heapVars, wrappers, stringVars,
                 lost>>

\* nix_alloc_value hands out a cell with one reference.
Alloc(c) ==
  /\ step = "alloc" \/ (step = "fill" /\ builder = items)
  /\ c \notin allocated
  /\ allocated' = allocated \cup {c}
  /\ refs' = [refs EXCEPT ![c] = 1]
  /\ result' = c
  /\ step' = "init"
  /\ UNCHANGED <<holds, lazy, kind, items, builder, wrappers, stringVars,
                 lost>>

\* Mutant: nothing guards the builder.
GiveUpUnguarded ==
  /\ step \in {"fill", "alloc"}
  /\ kind' = "idle" /\ step' = "none"
  /\ items' = {} /\ result' = None
  /\ UNCHANGED <<builder, heapVars, wrappers, stringVars, lost>>

\* No builder, a refused insert, a key with a NUL, no cell: the guard frees
\* the builder and the operation returns an error.
GiveUp ==
  /\ step \in {"fill", "alloc"}
  /\ Finish
  /\ UNCHANGED <<heapVars, wrappers, stringVars, lost>>

\* What the C call may leave in the result: what it was given, and for an
\* evaluation anything it finds there or makes.
Contents(New) ==
  CASE kind = "init"  -> {{}}
    [] kind = "thunk" -> {items}
    [] kind = "build" -> {builder}
    [] kind \in {"eval", "call"} ->
         {New \cup S : S \in SUBSET Reach(items)}

\* Whether the result is left unevaluated: make_thunk; copy of such a value.
Unevaluated ==
  CASE kind = "thunk" -> {{result}}
    [] kind = "call"  -> {{}, {result}}
    [] OTHER          -> {{}}

\* The C call that sets the result succeeds and the Value is returned.
InitOk(New) ==
  /\ step = "init"
  /\ New \subseteq Cells \ allocated /\ Cardinality(New) <= 1
  /\ New # {} => kind \in {"eval", "call"}
  /\ \E H \in Contents(New) : holds' = [holds EXCEPT ![result] = H]
  /\ \E U \in Unevaluated, N \in SUBSET New : lazy' = lazy \cup U \cup N
  /\ allocated' = allocated \cup New
  /\ wrappers' = [wrappers EXCEPT ![result] = @ + 1]
  /\ Finish
  /\ UNCHANGED <<refs, stringVars, lost>>

\* Mutant: the result is still a raw pointer when the call fails.
InitFailsRaw ==
  /\ step = "init" /\ kind # "eval"
  /\ Finish
  /\ UNCHANGED <<heapVars, wrappers, stringVars, lost>>

\* The operation had its result in a Value, whose drop gives the cell back.
InitFails ==
  /\ step = "init" /\ kind # "eval"
  /\ Decref(result)
  /\ Finish
  /\ UNCHANGED <<allocated, holds, lazy, wrappers, stringVars, lost>>

\* eval_from_string returns on a failed evaluation with the raw pointer.
EvalFails ==
  /\ step = "init" /\ kind = "eval"
  /\ lost' = lost \cup {result}
  /\ Finish
  /\ UNCHANGED <<heapVars, wrappers, stringVars>>

----------------------------------------------------------------------------
(* Operations that read a value                                            *)

\* nix_get_list_byidx, nix_get_attr_byname, nix_get_attr_byidx_lazy: the
\* pointer to the element comes with a reference of its own.
Fetch(k, c, d) ==
  /\ Idle
  /\ c \in Wrapped /\ d \in holds[c]
  /\ wrappers[d] < MaxWrappers
  /\ Incref(d)
  /\ kind' = k
  /\ step' = "owned"
  /\ result' = d
  /\ UNCHANGED <<items, builder, allocated, holds, lazy, wrappers, stringVars,
                 lost>>

\* The element is returned as a Value.
Wrap ==
  /\ step = "owned"
  /\ wrappers' = [wrappers EXCEPT ![result] = @ + 1]
  /\ Finish
  /\ UNCHANGED <<heapVars, stringVars, lost>>

\* Mutant: the element's Value is dropped, and its pointer released as well.
RejectTwice ==
  /\ step = "owned" /\ kind = "entry"
  /\ refs' = [refs EXCEPT ![result] = IF @ < 2 THEN 0 ELSE @ - 2]
  /\ Finish
  /\ UNCHANGED <<allocated, holds, lazy, wrappers, stringVars, lost>>

\* AttrIterator cannot read the element's name.
Reject ==
  /\ step = "owned" /\ kind = "entry"
  /\ Decref(result)
  /\ Finish
  /\ UNCHANGED <<allocated, holds, lazy, wrappers, stringVars, lost>>

\* nix_string_realise
Realise(k) ==
  /\ Idle
  /\ Wrapped # {}
  /\ strings < MaxStrings
  /\ strings' = strings + 1
  /\ kind' = k
  /\ step' = "string"
  /\ UNCHANGED <<items, builder, result, heapVars, wrappers, lost,
                 lostStrings>>

\* Mutant: as_string_with_context returns before the free, too.
FreeStringPlainOnly ==
  /\ step = "string"
  /\ strings' = IF kind = "string" THEN strings - 1 ELSE strings
  /\ Finish
  /\ UNCHANGED <<heapVars, wrappers, lost, lostStrings>>

\* The text was copied, the buffer was null, or as_string_with_context found
\* that it is not UTF-8.
FreeString ==
  /\ step = "string"
  /\ strings' = strings - 1
  /\ Finish
  /\ UNCHANGED <<heapVars, wrappers, lost, lostStrings>>

\* as_string returns on text that is not UTF-8.
InvalidUtf8 ==
  /\ step = "string" /\ kind = "string"
  /\ lostStrings' = lostStrings + 1
  /\ Finish
  /\ UNCHANGED <<heapVars, wrappers, strings, lost>>

\* One step of an evaluation that the program has asked for, with force,
\* force_deep, an accessor, get_attr or list_get, or that a call does on its
\* arguments: an unevaluated cell is overwritten in place by its value.
Evaluate(c, New) ==
  /\ Idle \/ (step = "init" /\ kind = "call")
  /\ c \in Reach(Wrapped) \cap lazy
  /\ New \subseteq Cells \ allocated /\ Cardinality(New) <= 1
  /\ \E S \in SUBSET Reach({c}) : holds' = [holds EXCEPT ![c] = New \cup S]
  /\ \E N \in SUBSET New : lazy' = (lazy \ {c}) \cup N
  /\ allocated' = allocated \cup New
  /\ UNCHANGED <<refs, wrappers, opVars, stringVars, lost>>

----------------------------------------------------------------------------
(* The wrappers and the collector                                          *)

\* Mutant: the copy shares the original's reference.
CloneValueShared(c) ==
  /\ Idle
  /\ c \in Wrapped /\ wrappers[c] < MaxWrappers
  /\ wrappers' = [wrappers EXCEPT ![c] = @ + 1]
  /\ UNCHANGED <<heapVars, opVars, stringVars, lost>>

\* Value::clone
CloneValue(c) ==
  /\ Idle
  /\ c \in Wrapped /\ wrappers[c] < MaxWrappers
  /\ Incref(c)
  /\ wrappers' = [wrappers EXCEPT ![c] = @ + 1]
  /\ UNCHANGED <<allocated, holds, lazy, opVars, stringVars, lost>>

\* Value::drop
DropValue(c) ==
  /\ Idle
  /\ c \in Wrapped
  /\ Decref(c)
  /\ wrappers' = [wrappers EXCEPT ![c] = @ - 1]
  /\ UNCHANGED <<allocated, holds, lazy, opVars, stringVars, lost>>

\* What the collector marks: referenced cells, the contents of a live
\* builder, and what those hold.
Rooted == Reach({c \in Cells : refs[c] > 0} \cup builder)

\* The collector frees a cell it has not marked.
Collect(c) ==
  /\ c \in allocated \ Rooted
  /\ allocated' = allocated \ {c}
  /\ holds' = [holds EXCEPT ![c] = {}]
  /\ lazy' = lazy \ {c}
  /\ UNCHANGED <<refs, wrappers, opVars, stringVars, lost>>

Next ==
  \/ \E k \in Makers, S \in SUBSET Cells : Begin(k, S)
  \/ \E c \in Cells : Insert(c) \/ Alloc(c)
  \/ GiveUp
  \/ \E New \in SUBSET Cells :
       InitOk(New) \/ \E c \in Cells : Evaluate(c, New)
  \/ InitFails
  \/ EvalFails
  \/ \E k \in {"get", "entry"}, c, d \in Cells : Fetch(k, c, d)
  \/ Wrap
  \/ Reject
  \/ \E k \in {"string", "stringContext"} : Realise(k)
  \/ FreeString
  \/ InvalidUtf8
  \/ \E c \in Cells : CloneValue(c) \/ DropValue(c) \/ Collect(c)

Spec == Init /\ [][Next]_vars

----------------------------------------------------------------------------
(* Properties                                                              *)

\* The reference an operation has in hand and has not returned yet.
InHand(c) == step \in {"init", "owned"} /\ result = c

One(b) == IF b THEN 1 ELSE 0

\* libexpr counts on every cell one reference per Value, one for the
\* operation that is about to return it, and one that a failed
\* eval_from_string has lost: no other path loses or over-releases one.
LedgerBalanced ==
  \A c \in Cells :
    refs[c] = wrappers[c] + One(InHand(c)) + One(c \in lost)

\* Whatever a Value, a running operation or a builder can reach is still
\* allocated, whenever the collector ran.
NothingDangling ==
  /\ Reach(Wrapped \cup items \cup builder) \subseteq allocated
  /\ step \in {"init", "owned"} => Reach({result}) \subseteq allocated

\* While a Value exists, its cell is not reused and no operation writes to
\* it, but for the one evaluation of what make_thunk or laziness left there:
\* what was read from an evaluated value stays true.
ContentsStable ==
  [][\A c \in Cells \ lazy :
       wrappers[c] > 0 /\ wrappers'[c] > 0 =>
         holds'[c] = holds[c] /\ c \notin lazy']_vars

\* A realised string is freed on every path, but for the ones as_string
\* refuses.
StringsFreed == strings = lostStrings + One(step = "string")

\* What the program's Values lead to.
Visible ==
  LET seen == Reach(Wrapped)
  IN [c \in Cells |-> IF c \in seen THEN holds[c] ELSE {}]
VisiblyLazy == lazy \cap Reach(Wrapped)

\* The reference counts, builders, operations that fail half way and the
\* collector come to what ValueGraph promises: to the program, values are
\* there for good, do not change once evaluated and are never mixed up with
\* new ones.
Graph == INSTANCE ValueGraph WITH
  kept <- wrappers,
  contents <- Visible,
  unevaluated <- VisiblyLazy

ImplementsGraph == Graph!Spec

\* nix-bindings/README.md:136 lists "Resource cleanup (ensuring no leaks
\* across repeated create/drop cycles)" among what the tests cover: between
\* operations every reference belongs to a Value.
NoLeaks == Idle => \A c \in Cells : refs[c] = wrappers[c]
=============================================================================
