--------------------------- MODULE ExternalValues ---------------------------
(***************************************************************************)
(* External values: Rust data inside Nix values                            *)
(* (nix-bindings/src/external.rs).                                         *)
(*                                                                         *)
(* make_external boxes the data with its TypeId and hands Nix the raw      *)
(* pointer.  Nix has no way to give it back: once an external value was    *)
(* created, the box stays.  Nix values that hold the external value are    *)
(* passed around by the evaluator, outlive the handle make_external        *)
(* returned, and come back to the callbacks of the vtable, `equal` even    *)
(* with external values other libraries have made.                         *)
(***************************************************************************)
EXTENDS Naturals, FiniteSets

CONSTANTS
  Payloads,  \* data handed to make_external
  Types,     \* Rust types that implement NixExternal
  TypeId,    \* the type of each payload
  Externals, \* Nix's external values; an id is used again once collected
  Handles,   \* ExternalValueHandles
  Null,      \* contents of other libraries' external values: a null pointer
  Stranger,  \*   or memory without our sentinel
  None

ASSUME ExternalValuesAssumption ==
  /\ TypeId \in [Payloads -> Types]
  /\ {Null, Stranger, None} \cap (Payloads \cup Externals) = {}
  /\ Payloads \cap Externals = {}
  /\ Null # Stranger /\ Null # None /\ Stranger # None

VARIABLES
  box,      \* "none", "boxed" or "dropped", per payload
  content,  \* the void* of an external value
  ext_ptr,  \* of a handle; None when there is no such handle
  held,     \* external values that Nix values beside the handles hold
  refs,     \* what as_external has returned and is still used
  make,     \* the running make_external
  misread   \* data read when dropped, or as what it is not

vars == <<box, content, ext_ptr, held, refs, make, misread>>

Refs == [handle : Handles, payload : Payloads, type : Types]
Idle == [stage |-> "idle", payload |-> None, ext |-> None]

TypeOK ==
  /\ box \in [Payloads -> {"none", "boxed", "dropped"}]
  /\ content \in [Externals -> Payloads \cup {Null, Stranger, None}]
  /\ ext_ptr \in [Handles -> Externals \cup {None}]
  /\ held \subseteq Externals
  /\ refs \subseteq Refs
  /\ make \in [stage : {"idle", "boxed", "allocated", "created"},
               payload : Payloads \cup {None},
               ext : Externals \cup {None}]
  /\ misread \subseteq Payloads \cup {Null, Stranger}

Init ==
  /\ box = [p \in Payloads |-> "none"]
  /\ content = [x \in Externals |-> None]
  /\ ext_ptr = [h \in Handles |-> None]
  /\ held = {} /\ refs = {} /\ misread = {}
  /\ make = Idle

\* A value that Nix values, a handle or make_external lead to.
Reached == {x \in Externals : content[x] # None}
             \cap (held \cup {ext_ptr[h] : h \in Handles} \cup {make.ext})

\* Code for type t reads the data behind c.
Reads(c, t) ==
  misread' = misread \cup
    IF c \in Payloads /\ box[c] = "boxed" /\ TypeId[c] = t THEN {} ELSE {c}

----------------------------------------------------------------------------
(* make_external                                                           *)

\* ErasedPayload::new
Box(p) ==
  /\ make = Idle /\ box[p] = "none"
  /\ box' = [box EXCEPT ![p] = "boxed"]
  /\ make' = [make EXCEPT !.stage = "boxed", !.payload = p]
  /\ UNCHANGED <<content, ext_ptr, held, refs, misread>>

\* The ? behind alloc_value returns without the box.
AllocValue ==
  /\ make.stage = "boxed"
  /\ make' \in {[make EXCEPT !.stage = "allocated"], Idle}
  /\ UNCHANGED <<box, content, ext_ptr, held, refs, misread>>

Create(x) ==
  /\ make.stage = "allocated" /\ content[x] = None
  /\ content' = [content EXCEPT ![x] = make.payload]
  /\ make' = [make EXCEPT !.stage = "created", !.ext = x]
  /\ UNCHANGED <<box, ext_ptr, held, refs, misread>>

\* nix_create_external_value returns null: the box is taken back.
CreateFails ==
  /\ make.stage = "allocated"
  /\ box' = [box EXCEPT ![make.payload] = "dropped"]
  /\ make' = Idle
  /\ UNCHANGED <<content, ext_ptr, held, refs, misread>>

\* Mutant: the handle keeps payload_ptr as its ext_ptr.
InitKeepsPayload(h) ==
  /\ make.stage = "created" /\ ext_ptr[h] = None
  /\ make' = Idle
  /\ \/ ext_ptr' = [ext_ptr EXCEPT ![h] = make.payload]
     \/ UNCHANGED ext_ptr
  /\ UNCHANGED <<box, content, held, refs, misread>>

\* Mutant: the failure takes the box back, though the external value has it.
InitExternalTakesBack(h) ==
  /\ make.stage = "created" /\ ext_ptr[h] = None
  /\ make' = Idle
  /\ \/ ext_ptr' = [ext_ptr EXCEPT ![h] = make.ext] /\ UNCHANGED box
     \/ box' = [box EXCEPT ![make.payload] = "dropped"] /\ UNCHANGED ext_ptr
  /\ UNCHANGED <<content, held, refs, misread>>

\* nix_init_external; when it fails the value is dropped, the box is not.
InitExternal(h) ==
  /\ make.stage = "created" /\ ext_ptr[h] = None
  /\ make' = Idle
  /\ \/ ext_ptr' = [ext_ptr EXCEPT ![h] = make.ext]
     \/ UNCHANGED ext_ptr
  /\ UNCHANGED <<box, content, held, refs, misread>>

----------------------------------------------------------------------------
(* Handles                                                                 *)

\* try_from_void: what the sentinel lets pass.
Ours(c) == c \in Payloads

\* as_external::<T>; another type is refused.
AsExternal(h, t) ==
  /\ ext_ptr[h] # None
  /\ LET c == content[ext_ptr[h]]
     IN /\ Ours(c) /\ TypeId[c] = t
        /\ Reads(c, t)
        /\ refs' = refs \cup {[handle |-> h, payload |-> c, type |-> t]}
  /\ UNCHANGED <<box, content, ext_ptr, held, make>>

DropRef(r) ==
  /\ r \in refs
  /\ refs' = refs \ {r}
  /\ UNCHANGED <<box, content, ext_ptr, held, make, misread>>

\* Mutant: the handle takes its payload along, to mend the leak.
DropHandleWithBox(h) ==
  /\ ext_ptr[h] # None
  /\ \A r \in refs : r.handle # h
  /\ ext_ptr' = [ext_ptr EXCEPT ![h] = None]
  /\ box' = [box EXCEPT ![content[ext_ptr[h]]] = "dropped"]
  /\ UNCHANGED <<content, held, refs, make, misread>>

\* A reference borrows its handle.
DropHandle(h) ==
  /\ ext_ptr[h] # None
  /\ \A r \in refs : r.handle # h
  /\ ext_ptr' = [ext_ptr EXCEPT ![h] = None]
  /\ UNCHANGED <<box, content, held, refs, make, misread>>

----------------------------------------------------------------------------
(* The evaluator                                                           *)

\* The value of a handle was put into a list, passed to a function, ...
Hold(x) ==
  /\ x \in {ext_ptr[h] : h \in Handles} \ {None}
  /\ held' = held \cup {x}
  /\ UNCHANGED <<box, content, ext_ptr, refs, make, misread>>

\* An external value of another library.
OtherExternal(x, c) ==
  /\ content[x] = None /\ c \in {Null, Stranger}
  /\ content' = [content EXCEPT ![x] = c]
  /\ held' = held \cup {x}
  /\ UNCHANGED <<box, ext_ptr, refs, make, misread>>

LetGo(x) ==
  /\ x \in held
  /\ held' = held \ {x}
  /\ UNCHANGED <<box, content, ext_ptr, refs, make, misread>>

\* The collector frees the external value, not what its void* points to.
Collect(x) ==
  /\ content[x] # None /\ x \notin Reached
  /\ content' = [content EXCEPT ![x] = None]
  /\ UNCHANGED <<box, ext_ptr, held, refs, make, misread>>

\* print, show_type and coerce_to_string of one of our values, by the
\* functions kept in the box; a panic ends in the callback.
Callback(x) ==
  /\ x \in Reached /\ Ours(content[x])
  /\ Reads(content[x], TypeId[content[x]])
  /\ UNCHANGED <<box, content, ext_ptr, held, refs, make>>

\* Nix calls equal of one of our values with any value of the C API.  The
\* other one is read only if the sentinel is there and the types agree.
Equal(x, y) ==
  /\ {x, y} \subseteq Reached
  /\ Ours(content[x]) /\ Ours(content[y])
  /\ TypeId[content[x]] = TypeId[content[y]]
  /\ Reads(content[y], TypeId[content[x]])
  /\ UNCHANGED <<box, content, ext_ptr, held, refs, make>>

Next ==
  \/ \E p \in Payloads : Box(p)
  \/ AllocValue
  \/ \E x \in Externals : Create(x)
  \/ CreateFails
  \/ \E h \in Handles :
       \/ InitExternal(h) \/ DropHandle(h)
       \/ \E t \in Types : AsExternal(h, t)
  \/ \E r \in refs : DropRef(r)
  \/ \E x \in Externals :
       \/ Hold(x) \/ LetGo(x) \/ Collect(x) \/ Callback(x)
       \/ \E c \in {Null, Stranger} : OtherExternal(x, c)
       \/ \E y \in Externals : Equal(x, y)

Spec == Init /\ [][Next]_vars

----------------------------------------------------------------------------
(* Properties                                                              *)

\* Rust data is never read after it was dropped nor as another type: not by
\* a callback on a Nix value that outlived its handle, not by equal on the
\* value of another library or type, not through a reference a program
\* still has after the collector ran.
PayloadSound ==
  /\ misread = {}
  /\ \A r \in refs :
       /\ box[r.payload] = "boxed" /\ TypeId[r.payload] = r.type
       /\ content[ext_ptr[r.handle]] = r.payload
  /\ \A x \in Reached : Ours(content[x]) => box[content[x]] = "boxed"

\* Boxes and external values do what Ownership promises: a box is freed only
\* while make_external has it and no external value leads to it, an external
\* value only when nothing leads to it, and neither is used after that.
Ownership == INSTANCE Ownership
  WITH Objects <- Payloads \cup Externals,
       alive <- {p \in Payloads : box[p] = "boxed"}
                  \cup {x \in Externals : content[x] # None},
       needs <- [o \in Payloads \cup Externals |->
                   IF o \in Externals THEN {content[o]} \cap Payloads ELSE {}],
       held <- Reached \cup ({make.payload} \cap Payloads)
ImplementsOwnership == Ownership!Spec
=============================================================================
