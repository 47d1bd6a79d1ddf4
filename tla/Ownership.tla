----------------------------- MODULE Ownership -----------------------------
(***************************************************************************)
(* What Rust's owners promise of objects a garbage collector or a C        *)
(* library knows nothing of, however that is achieved: an object is made   *)
(* from objects that are there; it stays as long as the program holds it   *)
(* or another object needs it; what the program has given up it does not   *)
(* get back.                                                               *)
(***************************************************************************)
CONSTANT Objects

VARIABLES
  alive,  \* objects made and not yet disposed of
  needs,  \* objects that one object relies on; none once it is disposed of
  held    \* objects the program can still use

Init ==
  /\ alive = {}
  /\ needs = [o \in Objects |-> {}]
  /\ held = {}

\* The program gets a new object, perhaps in exchange for others.
Acquire(o) ==
  /\ o \notin alive
  /\ alive' = alive \cup {o}
  /\ o \in held' /\ held' \subseteq held \cup {o}
  /\ needs'[o] \subseteq alive
  /\ needs' = [needs EXCEPT ![o] = needs'[o]]

GiveUp ==
  /\ held' \subseteq held
  /\ UNCHANGED <<alive, needs>>

Dispose(o) ==
  /\ o \in alive
  /\ alive' = alive \ {o}
  /\ o \notin held' /\ held' \subseteq held
  /\ \A x \in alive : o \notin needs[x]
  /\ needs' = [needs EXCEPT ![o] = {}]

Next == GiveUp \/ \E o \in Objects : Acquire(o) \/ Dispose(o)

Spec == Init /\ [][Next]_<<alive, needs, held>>
=============================================================================
