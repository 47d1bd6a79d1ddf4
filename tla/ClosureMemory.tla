--------------------------- MODULE ClosureMemory ---------------------------
(***************************************************************************)
(* What the memory of a primop's Rust closure promises, independent of how *)
(* reference counts, the collector and finalizers achieve it: a closure is *)
(* born wanted (some handle, builtin or value can still lead to a call),   *)
(* is freed at most once, only when nothing wants it, and what nothing     *)
(* wants is never wanted again.                                            *)
(***************************************************************************)
CONSTANT Closures

VARIABLES
  mem,     \* mem[c]: "none" before birth, then "live", then "freed"
  wanted   \* closures that something can still call, now or later

Init ==
  /\ mem = [c \in Closures |-> "none"]
  /\ wanted = {}

Create(c) ==
  /\ mem[c] = "none"
  /\ mem' = [mem EXCEPT ![c] = "live"]
  /\ wanted' = wanted \cup {c}

\* Creation fails half way: the closure goes before anyone could call it.
Discard(c) ==
  /\ mem[c] = "live"
  /\ c \in wanted
  /\ mem' = [mem EXCEPT ![c] = "freed"]
  /\ wanted' = wanted \ {c}

\* The last thing that could lead to a call of c goes away.
Release(c) ==
  /\ mem[c] = "live"
  /\ c \in wanted
  /\ wanted' = wanted \ {c}
  /\ UNCHANGED mem

Free(c) ==
  /\ mem[c] = "live"
  /\ c \notin wanted
  /\ mem' = [mem EXCEPT ![c] = "freed"]
  /\ UNCHANGED wanted

Next == \E c \in Closures : Create(c) \/ Discard(c) \/ Release(c) \/ Free(c)

Spec == Init /\ [][Next]_<<mem, wanted>>
=============================================================================
