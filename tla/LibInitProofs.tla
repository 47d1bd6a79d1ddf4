--------------------------- MODULE LibInitProofs ---------------------------
(***************************************************************************)
(* Proofs about LibInit: the gate's invariant GateInv, strengthened until  *)
(* it is inductive, gives type correctness, at-most-once initialisation,   *)
(* its order, and the blocking gate; ContextInv gives the context ledger.  *)
(***************************************************************************)
EXTENDS LibInit, TLAPS

\* A call in progress has allocated its context.
CallHasContext == \A t \in Threads : pc[t] # "idle" => ctx[t] \in Contexts

Typed == TypeOK /\ CallHasContext

\* The thread inside the closure is the one the gate recorded, and a call is
\* past the gate only when the gate is complete.
AtGate ==
  /\ \A t \in Threads : pc[t] \in InClosure => once = "running" /\ runner = t
  /\ GateBlocks

\* How far the initialisation has come is a function of where the runner is.
Progressed ==
  /\ once = "incomplete" => \A l \in Libraries : attempts[l] = 0
  /\ once = "running" =>
       /\ runner \in Threads
       /\ pc[runner] \in InClosure
       /\ pc[runner] = "util" => \A l \in Libraries : attempts[l] = 0
       /\ pc[runner] = "store" => /\ attempts["store"] = 0
                                  /\ attempts["expr"] = 0
                                  /\ libs["util"] = "ok"
       /\ pc[runner] = "expr" => /\ attempts["expr"] = 0
                                 /\ libs["store"] = "ok"

GateInv == Typed /\ AtGate /\ Progressed /\ InitOnce /\ InitOrder

-----------------------------------------------------------------------------
LEMMA TypedInit == Init => Typed
BY ConstantsAssumption
   DEF Init, Typed, TypeOK, CallHasContext, Pcs, InClosure, Modes, Libraries,
       Outcomes

LEMMA TypedStep == Typed /\ [Next]_vars => Typed'
<1> SUFFICES ASSUME Typed, [Next]_vars PROVE Typed'
  OBVIOUS
<1> USE DEF Typed, TypeOK, CallHasContext, Goto, Pcs, InClosure, Modes,
            Libraries, Outcomes, callVars, gateVars, libVars, heapVars
<1>1. ASSUME NEW t \in Threads, NEW m \in Modes, NEW c \in Contexts,
             Create(t, m, c)
      PROVE  Typed'
  BY <1>1 DEF Create
<1>2. ASSUME NEW t \in Threads, CreateFails(t) PROVE Typed'
  BY <1>2 DEF CreateFails
<1>3. ASSUME NEW t \in Threads, GateRun(t) PROVE Typed'
  BY <1>3 DEF GateRun
<1>4. ASSUME NEW t \in Threads, GatePass(t) PROVE Typed'
  BY <1>4 DEF GatePass
<1>5. ASSUME NEW t \in Threads, NEW ok \in BOOLEAN, InitUtil(t, ok)
      PROVE  Typed'
  BY <1>5 DEF InitUtil, InitCall
<1>6. ASSUME NEW t \in Threads, NEW ok \in BOOLEAN, InitStore(t, ok)
      PROVE  Typed'
  BY <1>6 DEF InitStore, InitCall
<1>7. ASSUME NEW t \in Threads, NEW ok \in BOOLEAN, InitExpr(t, ok)
      PROVE  Typed'
  BY <1>7 DEF InitExpr, InitCall
<1>8. ASSUME NEW t \in Threads, Leave(t) PROVE Typed'
  BY <1>8 DEF Leave
<1>9. ASSUME NEW t \in Threads, ReturnOk(t) PROVE Typed'
  BY <1>9 DEF ReturnOk
<1>10. ASSUME NEW t \in Threads, ReturnErr(t) PROVE Typed'
  BY <1>10 DEF ReturnErr
<1>11. ASSUME NEW c \in Contexts, DropContext(c) PROVE Typed'
  BY <1>11 DEF DropContext
<1>12. CASE UNCHANGED vars
  BY <1>12 DEF vars
<1> QED
  BY <1>1, <1>2, <1>3, <1>4, <1>5, <1>6, <1>7, <1>8, <1>9, <1>10, <1>11, <1>12
     DEF Next, Progress, InitStep

\* Every variable stays in its type, and a call in progress always has the
\* context that new_inner allocated before it went to the gate.
THEOREM TypeCorrect == Spec => []TypeOK
<1>1. Typed => TypeOK
  BY DEF Typed
<1> QED
  BY TypedInit, TypedStep, <1>1, PTL DEF Spec

-----------------------------------------------------------------------------
LEMMA GateInvInit == Init => GateInv
<1> SUFFICES ASSUME Init PROVE GateInv
  OBVIOUS
<1>1. Typed
  BY TypedInit
<1>2. AtGate /\ Progressed /\ InitOnce /\ InitOrder
  BY DEF Init, AtGate, GateBlocks, Progressed, InitOnce, InitOrder, InClosure,
         Libraries
<1> QED
  BY <1>1, <1>2 DEF GateInv

LEMMA GateInvStep == GateInv /\ [Next]_vars => GateInv'
<1> SUFFICES ASSUME GateInv, [Next]_vars PROVE GateInv'
  OBVIOUS
<1> DEFINE Rest == AtGate /\ Progressed /\ InitOnce /\ InitOrder
<1>t. Typed'
  BY TypedStep DEF GateInv
<1>r. SUFFICES Rest'
  BY <1>t DEF GateInv
<1> USE ConstantsAssumption
    DEF GateInv, Typed, TypeOK, AtGate, GateBlocks, Progressed, InitOnce,
        InitOrder, Goto, Pcs, InClosure, Libraries, callVars, gateVars,
        libVars, heapVars
<1>1. ASSUME NEW t \in Threads, NEW m \in Modes, NEW c \in Contexts,
             Create(t, m, c)
      PROVE  Rest'
  BY <1>1 DEF Create
<1>2. ASSUME NEW t \in Threads, CreateFails(t) PROVE Rest'
  BY <1>2 DEF CreateFails
<1>3. ASSUME NEW t \in Threads, GateRun(t) PROVE Rest'
  BY <1>3 DEF GateRun
<1>4. ASSUME NEW t \in Threads, GatePass(t) PROVE Rest'
  BY <1>4 DEF GatePass
<1>5. ASSUME NEW t \in Threads, NEW ok \in BOOLEAN, InitUtil(t, ok)
      PROVE  Rest'
  BY <1>5 DEF InitUtil, InitCall
<1>6. ASSUME NEW t \in Threads, NEW ok \in BOOLEAN, InitStore(t, ok)
      PROVE  Rest'
  BY <1>6 DEF InitStore, InitCall
<1>7. ASSUME NEW t \in Threads, NEW ok \in BOOLEAN, InitExpr(t, ok)
      PROVE  Rest'
  BY <1>7 DEF InitExpr, InitCall
<1>8. ASSUME NEW t \in Threads, Leave(t) PROVE Rest'
  BY <1>8 DEF Leave
<1>9. ASSUME NEW t \in Threads, ReturnOk(t) PROVE Rest'
  BY <1>9 DEF ReturnOk
<1>10. ASSUME NEW t \in Threads, ReturnErr(t) PROVE Rest'
  BY <1>10 DEF ReturnErr
<1>11. ASSUME NEW c \in Contexts, DropContext(c) PROVE Rest'
  BY <1>11 DEF DropContext
<1>12. CASE UNCHANGED vars
  BY <1>12 DEF vars
<1> QED
  BY <1>1, <1>2, <1>3, <1>4, <1>5, <1>6, <1>7, <1>8, <1>9, <1>10, <1>11, <1>12
     DEF Next, Progress, InitStep

THEOREM GateInvariant == Spec => []GateInv
BY GateInvInit, GateInvStep, PTL DEF Spec

\* Each nix_lib*_init runs at most once per process, for any number of threads.
THEOREM AtMostOneInit == Spec => []InitOnce
<1>1. GateInv => InitOnce
  BY DEF GateInv
<1> QED
  BY GateInvariant, <1>1, PTL

\* No library is initialised before the one it builds on is up.
THEOREM InitInOrder == Spec => []InitOrder
<1>1. GateInv => InitOrder
  BY DEF GateInv
<1> QED
  BY GateInvariant, <1>1, PTL

\* No Context reaches the program while the libraries are being initialised.
THEOREM GateIsBlocking == Spec => []GateBlocks
<1>1. GateInv => GateBlocks
  BY DEF GateInv, AtGate
<1> QED
  BY GateInvariant, <1>1, PTL

\* However many threads race for the gate, and whether or not the closure has
\* failed, a call that waits waits for one that runs.
THEOREM SomeoneAlwaysRuns == Spec => []SomeoneRuns
<1>1. GateInv => SomeoneRuns
  BY DEF GateInv, Progressed, SomeoneRuns, InClosure
<1> QED
  BY <1>1, GateInvariant, PTL

-----------------------------------------------------------------------------
(* What the closure leaves behind.                                         *)

\* The runner carries the verdict on the libraries out of the closure in
\* init_err, and the store's mode is unset until libstore is initialised.
Verdict ==
  /\ attempts["store"] = 0 => storeMode = "unset"
  /\ \A t \in Threads : pc[t] = "gate" => ~ran[t]
  /\ \A t \in Threads : pc[t] = "expr" => libs["util"] = "ok"
  /\ \A t \in Threads :
       pc[t] \in {"leave", "return"} /\ ran[t] => (initErr[t] <=> ~Initialised)
  /\ \A t \in Threads : pc[t] \in InClosure => ran[t]

VerdictInv == GateInv /\ Verdict

LEMMA VerdictInvInit == Init => VerdictInv
<1> SUFFICES ASSUME Init PROVE VerdictInv
  OBVIOUS
<1> QED
  BY GateInvInit DEF Init, VerdictInv, Verdict, Libraries, InClosure

LEMMA VerdictInvStep == VerdictInv /\ [Next]_vars => VerdictInv'
<1> SUFFICES ASSUME VerdictInv, [Next]_vars PROVE VerdictInv'
  OBVIOUS
<1>g. GateInv'
  BY GateInvStep DEF VerdictInv
<1>r. SUFFICES Verdict'
  BY <1>g DEF VerdictInv
<1> USE DEF VerdictInv, Verdict, GateInv, Typed, TypeOK, AtGate, GateBlocks,
            Progressed, Initialised, Goto, Pcs, InClosure, Libraries,
            Outcomes, callVars, gateVars, libVars, heapVars
<1>1. ASSUME NEW t \in Threads, NEW m \in Modes, NEW c \in Contexts,
             Create(t, m, c)
      PROVE  Verdict'
  BY <1>1 DEF Create
<1>2. ASSUME NEW t \in Threads, CreateFails(t) PROVE Verdict'
  BY <1>2 DEF CreateFails
<1>3. ASSUME NEW t \in Threads, GateRun(t) PROVE Verdict'
  BY <1>3 DEF GateRun
<1>4. ASSUME NEW t \in Threads, GatePass(t) PROVE Verdict'
  BY <1>4 DEF GatePass
<1>5. ASSUME NEW t \in Threads, NEW ok \in BOOLEAN, InitUtil(t, ok)
      PROVE  Verdict'
  <2> USE <1>5 DEF InitUtil, InitCall
  <2>1. /\ once = "running" /\ runner = t
        /\ \A u \in Threads \ {t} : pc[u] \notin InClosure \cup {"return"}
    OBVIOUS
  <2>2. \A u \in Threads \ {t} :
          pc'[u] = pc[u] /\ ran'[u] = ran[u] /\ initErr'[u] = initErr[u]
    OBVIOUS
  <2>3. pc'[t] = "leave" => (initErr'[t] <=> ~Initialised')
    OBVIOUS
  <2>4. ran'[t] /\ pc'[t] \in {"store", "expr", "leave"}
    OBVIOUS
  <2>5. attempts'["store"] = 0 => storeMode' = "unset"
    OBVIOUS
  <2>6. pc'[t] = "expr" => libs'["util"] = "ok"
    OBVIOUS
  <2> QED
    BY <2>1, <2>2, <2>3, <2>4, <2>5, <2>6
<1>6. ASSUME NEW t \in Threads, NEW ok \in BOOLEAN, InitStore(t, ok)
      PROVE  Verdict'
  <2> USE <1>6 DEF InitStore, InitCall
  <2>1. /\ once = "running" /\ runner = t
        /\ \A u \in Threads \ {t} : pc[u] \notin InClosure \cup {"return"}
    OBVIOUS
  <2>2. \A u \in Threads \ {t} :
          pc'[u] = pc[u] /\ ran'[u] = ran[u] /\ initErr'[u] = initErr[u]
    OBVIOUS
  <2>3. pc'[t] = "leave" => (initErr'[t] <=> ~Initialised')
    OBVIOUS
  <2>4. ran'[t] /\ pc'[t] \in {"store", "expr", "leave"}
    OBVIOUS
  <2>5. attempts'["store"] = 0 => storeMode' = "unset"
    OBVIOUS
  <2>6. pc'[t] = "expr" => libs'["util"] = "ok"
    OBVIOUS
  <2> QED
    BY <2>1, <2>2, <2>3, <2>4, <2>5, <2>6
<1>7. ASSUME NEW t \in Threads, NEW ok \in BOOLEAN, InitExpr(t, ok)
      PROVE  Verdict'
  <2> USE <1>7 DEF InitExpr, InitCall
  <2>1. /\ once = "running" /\ runner = t
        /\ \A u \in Threads \ {t} : pc[u] \notin InClosure \cup {"return"}
    OBVIOUS
  <2>2. \A u \in Threads \ {t} :
          pc'[u] = pc[u] /\ ran'[u] = ran[u] /\ initErr'[u] = initErr[u]
    OBVIOUS
  <2>3. pc'[t] = "leave" => (initErr'[t] <=> ~Initialised')
    OBVIOUS
  <2>4. ran'[t] /\ pc'[t] \in {"store", "expr", "leave"}
    OBVIOUS
  <2>5. attempts'["store"] = 0 => storeMode' = "unset"
    OBVIOUS
  <2>6. pc'[t] = "expr" => libs'["util"] = "ok"
    OBVIOUS
  <2> QED
    BY <2>1, <2>2, <2>3, <2>4, <2>5, <2>6
<1>8. ASSUME NEW t \in Threads, Leave(t) PROVE Verdict'
  BY <1>8 DEF Leave
<1>9. ASSUME NEW t \in Threads, ReturnOk(t) PROVE Verdict'
  BY <1>9 DEF ReturnOk
<1>10. ASSUME NEW t \in Threads, ReturnErr(t) PROVE Verdict'
  BY <1>10 DEF ReturnErr
<1>11. ASSUME NEW c \in Contexts, DropContext(c) PROVE Verdict'
  BY <1>11 DEF DropContext
<1>12. CASE UNCHANGED vars
  BY <1>12 DEF vars
<1> QED
  BY <1>1, <1>2, <1>3, <1>4, <1>5, <1>6, <1>7, <1>8, <1>9, <1>10, <1>11, <1>12
     DEF Next, Progress, InitStep

THEOREM VerdictInvariant == Spec => []VerdictInv
BY VerdictInvInit, VerdictInvStep, PTL DEF Spec

LEMMA ModeFixedStep ==
  VerdictInv /\ [Next]_vars => (storeMode # "unset" => storeMode' = storeMode)
<1> SUFFICES ASSUME VerdictInv, [Next]_vars, storeMode # "unset"
             PROVE  storeMode' = storeMode
  OBVIOUS
<1> USE DEF VerdictInv, Verdict, GateInv, Typed, TypeOK, AtGate, Progressed,
            InClosure, callVars, gateVars, libVars, heapVars
<1>1. ASSUME NEW t \in Threads, NEW ok \in BOOLEAN, InitStore(t, ok)
      PROVE  FALSE
  BY <1>1 DEF InitStore, InitCall
<1> QED
  BY <1>1 DEF Next, Progress, InitStep, Create, CreateFails, GateRun,
         GatePass, InitUtil, InitExpr, Leave, ReturnOk, ReturnErr, DropContext,
         vars

\* The mode the store was initialised in never changes afterwards.
THEOREM ModeIsFixed == Spec => ModeFixed
<1>1. VerdictInv /\ [Next]_vars
        => [storeMode # "unset" => storeMode' = storeMode]_vars
  BY ModeFixedStep
<1> QED
  BY VerdictInvariant, <1>1, PTL DEF Spec, ModeFixed

LEMMA RunnerReportsStep ==
  ASSUME VerdictInv, [Next]_vars, NEW t \in Threads, Returns(t), ran[t]
  PROVE  result'[t] = "ok" <=> Initialised
<1> USE DEF VerdictInv, Verdict, GateInv, Typed, TypeOK, Returns, Goto, Pcs,
            InClosure
<1>1. ASSUME NEW u \in Threads, ReturnOk(u)
      PROVE  result'[t] = "ok" <=> Initialised
  BY <1>1 DEF ReturnOk
<1>2. ASSUME NEW u \in Threads, ReturnErr(u)
      PROVE  result'[t] = "ok" <=> Initialised
  BY <1>2 DEF ReturnErr
<1> QED
  BY <1>1, <1>2
     DEF Next, Progress, InitStep, Create, CreateFails, GateRun, GatePass,
         InitUtil, InitStore, InitExpr, InitCall, Leave, DropContext, vars,
         callVars

\* The call that ran the closure returns Ok exactly when all libraries are up.
THEOREM RunnerIsTold == Spec => RunnerReports
<1>1. VerdictInv /\ [Next]_vars
        => [\A t \in Threads :
              Returns(t) /\ ran[t] => (result'[t] = "ok" <=> Initialised)]_vars
  BY RunnerReportsStep
<1> QED
  BY VerdictInvariant, <1>1, PTL DEF Spec, RunnerReports

-----------------------------------------------------------------------------
(* The contexts alive are the ones in a call and the ones owned.           *)

LedgerInv == Typed /\ ContextLedger

LEMMA LedgerInvStep == LedgerInv /\ [Next]_vars => LedgerInv'
<1> SUFFICES ASSUME LedgerInv, [Next]_vars PROVE LedgerInv'
  OBVIOUS
<1>g. Typed'
  BY TypedStep DEF LedgerInv
<1>r. SUFFICES ContextLedger'
  BY <1>g DEF LedgerInv
<1> USE ConstantsAssumption
    DEF LedgerInv, Typed, TypeOK, CallHasContext, ContextLedger, Goto, Pcs,
        InClosure, callVars, gateVars, libVars, heapVars
<1>1. ASSUME NEW t \in Threads, NEW m \in Modes, NEW c \in Contexts,
             Create(t, m, c)
      PROVE  ContextLedger'
  BY <1>1 DEF Create
<1>2. ASSUME NEW t \in Threads, CreateFails(t) PROVE ContextLedger'
  BY <1>2 DEF CreateFails
<1>3. ASSUME NEW t \in Threads, GateRun(t) PROVE ContextLedger'
  BY <1>3 DEF GateRun
<1>4. ASSUME NEW t \in Threads, GatePass(t) PROVE ContextLedger'
  BY <1>4 DEF GatePass
<1>5. ASSUME NEW t \in Threads, NEW ok \in BOOLEAN, InitUtil(t, ok)
      PROVE  ContextLedger'
  BY <1>5 DEF InitUtil, InitCall
<1>6. ASSUME NEW t \in Threads, NEW ok \in BOOLEAN, InitStore(t, ok)
      PROVE  ContextLedger'
  BY <1>6 DEF InitStore, InitCall
<1>7. ASSUME NEW t \in Threads, NEW ok \in BOOLEAN, InitExpr(t, ok)
      PROVE  ContextLedger'
  BY <1>7 DEF InitExpr, InitCall
<1>8. ASSUME NEW t \in Threads, Leave(t) PROVE ContextLedger'
  BY <1>8 DEF Leave
<1>9. ASSUME NEW t \in Threads, ReturnOk(t) PROVE ContextLedger'
  BY <1>9 DEF ReturnOk
<1>10. ASSUME NEW t \in Threads, ReturnErr(t) PROVE ContextLedger'
  BY <1>10 DEF ReturnErr
<1>11. ASSUME NEW c \in Contexts, DropContext(c) PROVE ContextLedger'
  BY <1>11 DEF DropContext
<1>12. CASE UNCHANGED vars
  BY <1>12 DEF vars
<1> QED
  BY <1>1, <1>2, <1>3, <1>4, <1>5, <1>6, <1>7, <1>8, <1>9, <1>10, <1>11, <1>12
     DEF Next, Progress, InitStep

\* Every C context alive is held exactly once, by a call or by the program.
THEOREM ContextsAccounted == Spec => []ContextLedger
<1>1. Init => LedgerInv
  <2> SUFFICES ASSUME Init PROVE ContextLedger
    BY TypedInit DEF LedgerInv
  <2> QED
    BY DEF Init, ContextLedger
<1>2. LedgerInv => ContextLedger
  BY DEF LedgerInv
<1> QED
  BY <1>1, LedgerInvStep, <1>2, PTL DEF Spec
=============================================================================
