--------------------------- MODULE HandlesProofs ---------------------------
(***************************************************************************)
(* Proofs about Handles, for any number of wrappers and any bounds.  The   *)
(* invariant says that the fields of wrappers are acyclic by type, that a  *)
(* field is live as long as its owner is there, and that what a C object   *)
(* relies on is among the fields of its wrapper.                           *)
(***************************************************************************)
EXTENDS Handles, TLAPS

\* The struct of o: which types its fields have.
Fits(o, c, k) ==
  /\ c \in Contexts \cup {None}
  /\ o \in Contexts => c = None
  /\ \/ k = None
     \/ o \in Builders \cup States /\ k \in Stores
     \/ o \in LockFlags /\ k \in Settings
     \/ o \in Values /\ k \in States

\* No field is missing.
Filled(o, c, k) ==
  /\ o \in Objects \ (Contexts \cup Values) => c \in Contexts
  /\ o \in Values => k \in States

WrapperInv ==
  /\ phase \in [Objects -> {"none", "live", "dropping"}]
  /\ context \in [Objects -> Objects \cup {None}]
  /\ keeps \in [Objects -> Objects \cup {None}]
  /\ madeFrom \in [Objects -> SUBSET Objects]
  /\ \A o \in Objects :
       /\ Fits(o, context[o], keeps[o])
       /\ phase[o] = "live" => Filled(o, context[o], keeps[o])
       /\ phase[o] = "none" => Fields(o) = {}
       /\ phase[o] # "live" => madeFrom[o] = {}
       /\ Fields(o) \subseteq Live
       /\ ReliesOn(o) \subseteq Fields(o)

\* What the program and the running call hold is there.
HeldInv ==
  /\ user \subseteq Live /\ inHand \subseteq Live
  /\ \/ call = Idle /\ inHand = {}
     \/ call.store \in Mine(Stores) /\ call.path \in Mine(StorePaths)
  /\ call \in [store : Objects \cup {None}, path : Objects \cup {None}]

HandlesInv == WrapperInv /\ HeldInv /\ misused = {}

LEMMA Disjoint ==
  /\ \A S \in {Stores, StorePaths, Derivations, Builders, States, Settings,
               Fetchers, ParseFlags, LockFlags, References, LockedFlakes,
               Values} : S \cap Contexts = {}
  /\ \A S \in {StorePaths, Derivations, Builders, States, Settings,
               Fetchers, ParseFlags, LockFlags, References, LockedFlakes,
               Values} : S \cap Stores = {}
  /\ \A S \in {StorePaths, Derivations, Builders, States, Fetchers,
               ParseFlags, LockFlags, References, LockedFlakes, Values} :
       S \cap Settings = {}
  /\ \A S \in {StorePaths, Derivations, Builders, Fetchers, ParseFlags,
               LockFlags, References, LockedFlakes, Values} :
       S \cap States = {}
  /\ \A S \in {StorePaths, Derivations, Builders, Fetchers, ParseFlags,
               References, LockedFlakes, Values} : S \cap LockFlags = {}
  /\ \A S \in {StorePaths, Derivations, Builders, Fetchers, ParseFlags,
               References, LockedFlakes} : S \cap Values = {}
  /\ \A S \in {StorePaths, Derivations, Fetchers, ParseFlags,
               References, LockedFlakes} : S \cap Builders = {}
<1>1. \A i, j \in 1 .. 13 : i # j => Sorts[i] \cap Sorts[j] = {}
  BY HandlesAssumption
<1>2. \A i \in 2 .. 13 : Sorts[i] \cap Sorts[1] = {}
  BY <1>1
<1>3. \A i \in 3 .. 13 : Sorts[i] \cap Sorts[2] = {}
  BY <1>1
<1>4. \A i \in 1 .. 13 : i # 7 => Sorts[i] \cap Sorts[7] = {}
  BY <1>1
<1>5. \A i \in 1 .. 13 : i # 6 => Sorts[i] \cap Sorts[6] = {}
  BY <1>1
<1>6. \A i \in 1 .. 13 : i # 10 => Sorts[i] \cap Sorts[10] = {}
  BY <1>1
<1>7. \A i \in 1 .. 12 : Sorts[i] \cap Sorts[13] = {}
  BY <1>1
<1>8. \A i \in 1 .. 13 : i # 5 => Sorts[i] \cap Sorts[5] = {}
  BY <1>1
<1>9. QED
  BY <1>2, <1>3, <1>4, <1>5, <1>6, <1>7, <1>8 DEF Sorts

\* What a step hands to the C library is live, and so is what it relies on.
LEMMA PassesLive ==
  ASSUME WrapperInv, misused = {}, NEW S, Passes(S), S \ {None} \subseteq Live
  PROVE  misused' = {}
BY DEF WrapperInv, Passes, Live

\* A constructor that gives its wrapper the fields its struct has, live
\* ones, keeps the wrappers in order.
LEMMA WrapKeeps ==
  ASSUME WrapperInv, NEW o \in Objects, NEW c, NEW k, NEW from,
         Wrap(o, c, k, from), Fits(o, c, k), Filled(o, c, k),
         {c, k} \ {None} \subseteq Live,
         from \subseteq Objects,
         (from \ IF o \in LockFlags THEN {} ELSE Settings)
            \subseteq {c, k} \ {None}
  PROVE  WrapperInv' /\ Live' = Live \cup {o}
<1>1. Live' = Live \cup {o}
  BY DEF WrapperInv, Wrap, Live
<1>2. /\ c \in Objects \cup {None}
      /\ k \in Objects \cup {None}
  BY DEF Fits, Live, Objects
<1>3. ASSUME NEW x \in Objects
      PROVE  /\ Fits(x, context[x], keeps[x])'
             /\ phase'[x] = "live" => Filled(x, context'[x], keeps'[x])
             /\ phase'[x] = "none" => Fields(x)' = {}
             /\ phase'[x] # "live" => madeFrom'[x] = {}
             /\ Fields(x)' \subseteq Live'
             /\ ReliesOn(x)' \subseteq Fields(x)'
  <2>1. CASE x = o
    BY <1>1, <2>1 DEF WrapperInv, Wrap, Fields, ReliesOn, Fits, Filled
  <2>2. CASE x # o
    <3>1. /\ phase'[x] = phase[x] /\ context'[x] = context[x]
          /\ keeps'[x] = keeps[x] /\ madeFrom'[x] = madeFrom[x]
      BY <2>2 DEF WrapperInv, Wrap
    <3>2. QED
      BY <1>1, <3>1 DEF WrapperInv, Fields, ReliesOn, Fits, Filled
  <2>3. QED BY <2>1, <2>2
<1>4. /\ phase' \in [Objects -> {"none", "live", "dropping"}]
      /\ context' \in [Objects -> Objects \cup {None}]
      /\ keeps' \in [Objects -> Objects \cup {None}]
      /\ madeFrom' \in [Objects -> SUBSET Objects]
  BY <1>2 DEF WrapperInv, Wrap
<1>5. QED BY <1>1, <1>3, <1>4 DEF WrapperInv

LEMMA ReturnsKeeps ==
  ASSUME HandlesInv, NEW o \in Objects, NEW c, NEW k, NEW from, NEW S,
         Returns(o, c, k, from, S), Fits(o, c, k), Filled(o, c, k),
         {c, k} \ {None} \subseteq Live,
         from \subseteq Objects,
         (from \ IF o \in LockFlags THEN {} ELSE Settings)
            \subseteq {c, k} \ {None},
         S \ {None} \subseteq Live
  PROVE  HandlesInv'
<1>1. WrapperInv' /\ Live' = Live \cup {o}
  BY WrapKeeps DEF Returns, HandlesInv
<1>2. misused' = {}
  BY PassesLive DEF Returns, HandlesInv
<1>3. HeldInv'
  BY <1>1 DEF Returns, HandlesInv, HeldInv, callVars, Mine
<1>4. QED BY <1>1, <1>2, <1>3 DEF HandlesInv

LEMMA HandlesInvInit == Init => HandlesInv
<1> SUFFICES ASSUME Init
             PROVE  HandlesInv
  OBVIOUS
<1>1. WrapperInv
  BY HandlesAssumption
     DEF Init, WrapperInv, Fits, Filled, Fields, ReliesOn, Live
<1>2. HeldInv /\ misused = {}
  BY DEF Init, HeldInv, Idle
<1>3. QED BY <1>1, <1>2 DEF HandlesInv

LEMMA StillKeeps ==
  ASSUME WrapperInv, UNCHANGED wrapperVars
  PROVE  WrapperInv' /\ Live' = Live
BY DEF WrapperInv, wrapperVars, Live, Fields, ReliesOn, Fits, Filled

\* What the program can pass is live, and so is the context of it.
LEMMA MineLive ==
  ASSUME HandlesInv, NEW o \in user
  PROVE  /\ o \in Objects /\ o \in Live
         /\ {context[o], keeps[o]} \ {None} \subseteq Live
         /\ Fits(o, context[o], keeps[o]) /\ Filled(o, context[o], keeps[o])
BY DEF HandlesInv, HeldInv, WrapperInv, Live, Fields

\* A method that makes nothing.
LEMMA CallKeeps ==
  ASSUME HandlesInv, NEW S, Passes(S), S \ {None} \subseteq Live,
         UNCHANGED <<wrapperVars, user, callVars>>
  PROVE  HandlesInv'
<1>1. WrapperInv' /\ Live' = Live
  BY StillKeeps DEF HandlesInv
<1>2. misused' = {}
  BY PassesLive DEF HandlesInv
<1>3. HeldInv'
  BY <1>1 DEF HandlesInv, HeldInv, callVars, Mine
<1>4. QED BY <1>1, <1>2, <1>3 DEF HandlesInv

LEMMA StoreStepKeeps == HandlesInv /\ StoreStep => HandlesInv'
<1> SUFFICES ASSUME HandlesInv, StoreStep
             PROVE  HandlesInv'
  OBVIOUS
<1> USE HandlesAssumption, Disjoint, MineLive, ReturnsKeeps
<1> USE DEF Mine, Fits, Filled, Objects
<1>1. ASSUME NEW c \in Contexts, NewContext(c)
      PROVE  HandlesInv'
  BY <1>1 DEF NewContext
<1>2. ASSUME NEW c \in Contexts, NEW s \in Stores, OpenStore(c, s)
      PROVE  HandlesInv'
  BY <1>2 DEF OpenStore
<1>3. ASSUME NEW c \in Contexts, NEW p \in StorePaths, FromParts(c, p)
      PROVE  HandlesInv'
  BY <1>3 DEF FromParts
<1>4. ASSUME NEW S \in {StorePaths, Derivations}, NEW o \in S, NEW q \in S,
             CloneHandle(S, o, q)
      PROVE  HandlesInv'
  BY <1>4 DEF CloneHandle
<1>5. ASSUME NEW c \in Contexts, NEW s \in Stores, NEW p \in StorePaths,
             ParsePath(c, s, p)
      PROVE  HandlesInv'
  BY <1>5 DEF ParsePath
<1>6. ASSUME NEW c \in Contexts, NEW s \in Stores, NEW d \in Derivations,
             DerivationFromJson(c, s, d)
      PROVE  HandlesInv'
  BY <1>6 DEF DerivationFromJson
<1>7. ASSUME NEW c \in Contexts, NEW s \in Stores, NEW p \in StorePaths,
             NEW d \in Derivations, ReadDerivation(c, s, p, d)
      PROVE  HandlesInv'
  BY <1>7 DEF ReadDerivation
<1>8. ASSUME NEW d \in Derivations, NEW s \in Stores, NEW p \in StorePaths,
             AddToStore(d, s, p)
      PROVE  HandlesInv'
  BY <1>8 DEF AddToStore
<1>9. ASSUME NEW s \in Stores, NEW t \in Stores,
             NEW p \in StorePaths \cup {None}, UseStore(s, t, p)
      PROVE  HandlesInv'
  BY <1>9, CallKeeps DEF UseStore
<1>10. ASSUME NEW s \in Stores, NEW p \in StorePaths, EnterStore(s, p)
       PROVE  HandlesInv'
  <2>1. WrapperInv' /\ Live' = Live
    BY <1>10, StillKeeps DEF EnterStore, HandlesInv, Consumes
  <2>2. misused' = {}
    BY <1>10, PassesLive, HandlesInv DEF EnterStore, HandlesInv, HeldInv
  <2>3. HeldInv'
    BY <1>10, <2>1 DEF EnterStore, HandlesInv, HeldInv, Idle, callVars
  <2>4. QED BY <2>1, <2>2, <2>3 DEF HandlesInv
<1>11. ASSUME NEW q \in StorePaths, ReportPath(q)
       PROVE  HandlesInv'
  <2>1. WrapperInv' /\ Live' = Live \cup {q}
    BY <1>11, WrapKeeps DEF ReportPath, HandlesInv, HeldInv, Idle
  <2>2. misused' = {}
    BY <1>11, PassesLive DEF ReportPath, HandlesInv
  <2>3. HeldInv'
    BY <1>11, <2>1 DEF ReportPath, HandlesInv, HeldInv
  <2>4. QED BY <2>1, <2>2, <2>3 DEF HandlesInv
<1>12. ASSUME NEW q \in StorePaths, ForgetPath(q)
       PROVE  HandlesInv'
  <2>1. WrapperInv' /\ Live' = Live
    BY <1>12, StillKeeps DEF ForgetPath, HandlesInv, Consumes
  <2>2. misused' = {}
    BY <1>12, PassesLive, HandlesInv DEF ForgetPath, HandlesInv, HeldInv
  <2>3. HeldInv'
    BY <1>12, <2>1 DEF ForgetPath, HandlesInv, HeldInv, Idle, callVars
  <2>4. QED BY <2>1, <2>2, <2>3 DEF HandlesInv
<1>13. ASSUME LeaveStore
       PROVE  HandlesInv'
  <2>1. WrapperInv' /\ Live' = Live
    BY <1>13, StillKeeps DEF LeaveStore, HandlesInv, Consumes
  <2>2. misused' = {}
    BY <1>13, PassesLive, HandlesInv DEF LeaveStore, HandlesInv, HeldInv
  <2>3. HeldInv'
    BY <1>13, <2>1 DEF LeaveStore, HandlesInv, HeldInv, Idle, callVars
  <2>4. QED BY <2>1, <2>2, <2>3 DEF HandlesInv
<1>14. ASSUME FailStore
       PROVE  HandlesInv'
  <2>1. WrapperInv' /\ Live' = Live
    BY <1>14, StillKeeps DEF FailStore, HandlesInv, Consumes
  <2>2. misused' = {}
    BY <1>14, PassesLive, HandlesInv DEF FailStore, HandlesInv, HeldInv
  <2>3. HeldInv'
    BY <1>14, <2>1 DEF FailStore, HandlesInv, HeldInv, Idle, callVars
  <2>4. QED BY <2>1, <2>2, <2>3 DEF HandlesInv
<1>15. ASSUME NEW s \in Stores, NEW p \in StorePaths, FindOrAddPath(s, p)
       PROVE  HandlesInv'
  BY <1>15 DEF FindOrAddPath
<1>16. ASSUME NEW o \in Objects, Read(o)
       PROVE  HandlesInv'
  BY <1>16, CallKeeps DEF Read
<1>17. QED
  BY <1>1, <1>2, <1>3, <1>4, <1>5, <1>6, <1>7, <1>8, <1>9, <1>10, <1>11,
     <1>12, <1>13, <1>14, <1>15, <1>16 DEF StoreStep

\* A method that consumes its wrapper and fails.
LEMMA ConsumesKeeps ==
  ASSUME HandlesInv, NEW o \in Builders \cup ParseFlags \cup LockFlags, NEW S,
         Consumes(o, S), S \ {None} \subseteq Live
  PROVE  HandlesInv'
<1>1. WrapperInv' /\ Live' = Live
  BY StillKeeps DEF Consumes, HandlesInv
<1>2. misused' = {}
  BY PassesLive DEF Consumes, HandlesInv
<1>3. HeldInv'
  BY <1>1, HandlesAssumption
     DEF Consumes, HandlesInv, HeldInv, Borrowed, Mine, callVars, Idle,
         Objects
<1>4. QED BY <1>1, <1>2, <1>3 DEF HandlesInv

LEMMA EvalStepKeeps == HandlesInv /\ EvalStep => HandlesInv'
<1> SUFFICES ASSUME HandlesInv, NEW b \in Builders,
                    \/ \E s \in Stores : NewBuilder(s, b)
                    \/ ConfigureFails(b, {})
                    \/ \E f \in Settings :
                         AddSettings(b, f) \/ ConfigureFails(b, {f})
                    \/ \E e \in States : Build(b, e)
                    \/ BuildFails(b)
             PROVE  HandlesInv'
  BY DEF EvalStep
<1> USE HandlesAssumption, Disjoint, MineLive
<1> USE DEF Mine
<1>1. ASSUME NEW s \in Stores, NewBuilder(s, b)
      PROVE  HandlesInv'
  BY <1>1, ReturnsKeeps DEF NewBuilder, Fits, Filled, Objects
<1>2. ASSUME NEW S \in SUBSET Settings, ConfigureFails(b, S)
      PROVE  HandlesInv'
  BY <1>2, ConsumesKeeps DEF ConfigureFails
<1>3. ASSUME NEW f \in Settings, AddSettings(b, f)
      PROVE  HandlesInv'
  <2>1. /\ UNCHANGED <<phase, context, keeps>>
        /\ madeFrom' = [madeFrom EXCEPT ![b] = @ \cup {f}]
        /\ b \in Live /\ f \in Settings /\ b \notin LockFlags
    BY <1>3 DEF AddSettings
  <2>2. Live' = Live /\ f \in Objects /\ b \in Objects
    BY <2>1 DEF Live, Objects
  <2>3. ASSUME NEW x \in Objects
        PROVE  /\ Fields(x)' = Fields(x) /\ ReliesOn(x)' = ReliesOn(x)
               /\ phase[x] # "live" => madeFrom'[x] = madeFrom[x]
    BY <2>1, <2>2 DEF HandlesInv, WrapperInv, Fields, ReliesOn, Live
  <2>4. WrapperInv'
    BY <2>1, <2>2, <2>3 DEF HandlesInv, WrapperInv, Fits, Filled
  <2>5. misused' = {}
    BY <1>3, PassesLive DEF AddSettings, HandlesInv
  <2>6. HeldInv'
    BY <1>3, <2>2 DEF AddSettings, HandlesInv, HeldInv, callVars
  <2>7. QED BY <2>4, <2>5, <2>6 DEF HandlesInv
<1>4. ASSUME NEW e \in States, Build(b, e)
      PROVE  HandlesInv'
  <2>1. madeFrom[b] \subseteq Objects /\ ReliesOn(b) \subseteq Fields(b)
    BY DEF HandlesInv, WrapperInv, Objects
  <2>2. WrapperInv' /\ Live' = Live \cup {e}
    <3>1. Fits(e, context[b], keeps[b]) /\ Filled(e, context[b], keeps[b])
      BY <1>4 DEF Build, Fits, Filled, Objects
    <3>2. (madeFrom[b] \ IF e \in LockFlags THEN {} ELSE Settings)
             \subseteq {context[b], keeps[b]} \ {None}
      BY <2>1 DEF ReliesOn, Fields
    <3>3. QED
      BY <1>4, <2>1, <3>1, <3>2, WrapKeeps DEF Build, HandlesInv, Objects
  <2>3. misused' = {}
    BY <1>4, PassesLive DEF Build, HandlesInv
  <2>4. HeldInv'
    BY <1>4, <2>2 DEF Build, HandlesInv, HeldInv, callVars
  <2>5. QED BY <2>2, <2>3, <2>4 DEF HandlesInv
<1>5. ASSUME BuildFails(b)
      PROVE  HandlesInv'
  BY <1>5, ConsumesKeeps DEF BuildFails
<1>6. QED BY <1>1, <1>2, <1>3, <1>4, <1>5

LEMMA FlakeStepKeeps == HandlesInv /\ FlakeStep => HandlesInv'
<1> SUFFICES ASSUME HandlesInv, FlakeStep
             PROVE  HandlesInv'
  OBVIOUS
<1> USE HandlesAssumption, Disjoint, MineLive
<1> USE DEF Mine, Fits, Filled, Objects
<1>1. ASSUME NEW c \in Contexts, NEW f \in Settings, NewSettings(c, f)
      PROVE  HandlesInv'
  BY <1>1, ReturnsKeeps DEF NewSettings
<1>2. ASSUME NEW c \in Contexts, NEW t \in Fetchers, NewFetchers(c, t)
      PROVE  HandlesInv'
  BY <1>2, ReturnsKeeps DEF NewFetchers
<1>3. ASSUME NEW c \in Contexts, NEW f \in Settings, NEW g \in ParseFlags,
             NewParseFlags(c, f, g)
      PROVE  HandlesInv'
  BY <1>3, ReturnsKeeps DEF NewParseFlags
<1>4. ASSUME NEW c \in Contexts, NEW f \in Settings, NEW g \in LockFlags,
             NewLockFlags(c, f, g)
      PROVE  HandlesInv'
  BY <1>4, ReturnsKeeps DEF NewLockFlags
<1>5. ASSUME NEW g \in ParseFlags, SetBaseDirectoryFails(g)
      PROVE  HandlesInv'
  BY <1>5, ConsumesKeeps DEF SetBaseDirectoryFails
<1>6. ASSUME NEW g \in LockFlags, SetModeFails(g)
      PROVE  HandlesInv'
  BY <1>6, ConsumesKeeps DEF SetModeFails
<1>7. ASSUME NEW g \in LockFlags, NEW r \in References,
             AddInputOverride(g, r)
      PROVE  HandlesInv'
  <2>1. WrapperInv' /\ Live' = Live
    BY <1>7, StillKeeps DEF AddInputOverride, HandlesInv
  <2>2. misused' = {}
    BY <1>7, PassesLive DEF AddInputOverride, HandlesInv
  <2>3. HeldInv'
    BY <1>7, <2>1 DEF AddInputOverride, HandlesInv, HeldInv, callVars, Idle
  <2>4. QED BY <2>1, <2>2, <2>3 DEF HandlesInv
<1>8. ASSUME NEW c \in Contexts, NEW t \in Fetchers, NEW f \in Settings,
             NEW g \in ParseFlags, NEW r \in References,
             ParseReference(c, t, f, g, r)
      PROVE  HandlesInv'
  BY <1>8, ReturnsKeeps DEF ParseReference
<1>9. ASSUME NEW c \in Contexts, NEW t \in Fetchers, NEW f \in Settings,
             NEW e \in States, NEW g \in LockFlags, NEW r \in References,
             NEW l \in LockedFlakes, Lock(c, t, f, e, g, r, l)
      PROVE  HandlesInv'
  BY <1>9, ReturnsKeeps DEF Lock
<1>10. ASSUME NEW c \in Contexts, NEW t \in Fetchers, NEW l \in LockedFlakes,
              ImportJson(c, t, l)
       PROVE  HandlesInv'
  BY <1>10, ReturnsKeeps DEF ImportJson
<1>11. ASSUME NEW l \in LockedFlakes, NEW f \in Settings, NEW e \in States,
              NEW v \in Values, OutputAttrs(l, f, e, v)
       PROVE  HandlesInv'
  BY <1>11, ReturnsKeeps DEF OutputAttrs
<1>12. QED
  BY <1>1, <1>2, <1>3, <1>4, <1>5, <1>6, <1>7, <1>8, <1>9, <1>10, <1>11
     DEF FlakeStep

LEMMA DropStepKeeps == HandlesInv /\ DropStep => HandlesInv'
<1> SUFFICES ASSUME HandlesInv, NEW o \in Objects,
                    \/ LetGo(o) \/ Drop(o)
                    \/ \E f \in Fields(o) : Release(o, f)
             PROVE  HandlesInv'
  BY DEF DropStep
<1> USE HandlesAssumption
<1>1. CASE LetGo(o)
  <2>1. WrapperInv' /\ Live' = Live
    BY <1>1, StillKeeps DEF LetGo, HandlesInv
  <2>2. HeldInv'
    BY <1>1, <2>1
       DEF LetGo, HandlesInv, HeldInv, callVars, Borrowed, Mine, Idle
  <2>3. QED BY <1>1, <2>1, <2>2 DEF HandlesInv, LetGo
<1>2. CASE Drop(o)
  <2>1. \A x \in Objects : o \notin Fields(x)
    BY <1>2 DEF Drop, Owned, Owners
  <2>2. o \notin user \cup inHand
    BY <1>2 DEF Drop, Owned
  <2>3. Live' = Live \ {o}
    BY <1>2 DEF Drop, HandlesInv, WrapperInv, Live
  <2>4. WrapperInv'
    <3>1. ASSUME NEW x \in Objects
          PROVE  /\ Fits(x, context[x], keeps[x])'
                 /\ phase'[x] = "live" => Filled(x, context'[x], keeps'[x])
                 /\ phase'[x] = "none" => Fields(x)' = {}
                 /\ phase'[x] # "live" => madeFrom'[x] = {}
                 /\ Fields(x)' \subseteq Live'
                 /\ ReliesOn(x)' \subseteq Fields(x)'
      <4>1. context' = context /\ keeps' = keeps
        BY <1>2 DEF Drop
      <4>2. Fields(x)' = Fields(x) /\ Fields(x)' \subseteq Live'
        BY <2>1, <2>3, <4>1 DEF HandlesInv, WrapperInv, Fields
      <4>3. Fits(x, context[x], keeps[x])'
        BY <4>1 DEF HandlesInv, WrapperInv, Fits
      <4>4. ReliesOn(x)' \subseteq Fields(x)'
        BY <1>2, <4>2 DEF Drop, HandlesInv, WrapperInv, ReliesOn
      <4>5. /\ phase'[x] = "live" => Filled(x, context'[x], keeps'[x])
            /\ phase'[x] = "none" => Fields(x)' = {}
            /\ phase'[x] # "live" => madeFrom'[x] = {}
        BY <1>2, <4>1, <4>2 DEF Drop, HandlesInv, WrapperInv, Filled
      <4>6. QED BY <4>2, <4>3, <4>4, <4>5
    <3>2. QED BY <1>2, <3>1 DEF Drop, HandlesInv, WrapperInv
  <2>5. misused' = {}
    <3>1. o \in Live
      BY <1>2 DEF Drop, Live
    <3>2. o \in Values => context[keeps[o]] \in Live \cup {None}
      <4>1. o \in Values => keeps[o] \in States
        BY <1>2 DEF Drop, HandlesInv, WrapperInv, Filled
      <4>2. \A e \in States : context[e] \in Live \cup {None}
        BY DEF HandlesInv, WrapperInv, Fields, Objects
      <4>3. QED BY <4>1, <4>2
    <3>3. QED BY <1>2, <3>1, <3>2, PassesLive DEF Drop, HandlesInv
  <2>6. HeldInv'
    BY <1>2, <2>2, <2>3 DEF Drop, HandlesInv, HeldInv, callVars, Mine, Idle
  <2>7. QED BY <2>4, <2>5, <2>6 DEF HandlesInv
<1>3. ASSUME NEW f \in Fields(o), Release(o, f)
      PROVE  HandlesInv'
  <2>1. Live' = Live
    BY <1>3 DEF Release, HandlesInv, WrapperInv, Live
  <2>2. WrapperInv'
    <3>1. ASSUME NEW x \in Objects
          PROVE  /\ Fits(x, context[x], keeps[x])'
                 /\ phase'[x] = "live" => Filled(x, context'[x], keeps'[x])
                 /\ phase'[x] = "none" => Fields(x)' = {}
                 /\ phase'[x] # "live" => madeFrom'[x] = {}
                 /\ Fields(x)' \subseteq Live'
                 /\ ReliesOn(x)' \subseteq Fields(x)'
      <4>1. CASE x = o
        <5>1. /\ context'[o] = IF context[o] = f THEN None ELSE context[o]
              /\ keeps'[o] = IF keeps[o] = f THEN None ELSE keeps[o]
              /\ phase'[o] = IF Fields(o) = {f} THEN "none" ELSE "dropping"
              /\ madeFrom'[o] = {}
          BY <1>3 DEF Release, HandlesInv, WrapperInv
        <5>2. Fields(o)' = Fields(o) \ {f}
          BY <5>1, <1>3 DEF Fields
        <5>3. Fits(o, context[o], keeps[o])'
          BY <5>1 DEF HandlesInv, WrapperInv, Fits
        <5>4. phase'[o] = "none" => Fields(o)' = {}
          BY <5>1, <5>2
        <5>5. ReliesOn(o)' = {} /\ Fields(o)' \subseteq Live'
          BY <5>1, <5>2, <2>1 DEF HandlesInv, WrapperInv, ReliesOn
        <5>6. QED BY <4>1, <5>1, <5>3, <5>4, <5>5
      <4>2. CASE x # o
        <5>1. /\ phase'[x] = phase[x] /\ context'[x] = context[x]
              /\ keeps'[x] = keeps[x] /\ madeFrom'[x] = madeFrom[x]
          BY <1>3, <4>2 DEF Release, HandlesInv, WrapperInv
        <5>2. QED
          BY <2>1, <5>1
             DEF HandlesInv, WrapperInv, Fields, ReliesOn, Fits, Filled
      <4>3. QED BY <4>1, <4>2
    <3>2. QED BY <1>3, <3>1 DEF Release, HandlesInv, WrapperInv
  <2>3. HeldInv'
    BY <1>3, <2>1 DEF Release, HandlesInv, HeldInv, callVars, Mine, Idle
  <2>4. QED BY <1>3, <2>2, <2>3 DEF Release, HandlesInv
<1>4. QED BY <1>1, <1>2, <1>3

LEMMA HandlesInvStep == HandlesInv /\ [Next]_vars => HandlesInv'
<1> SUFFICES ASSUME HandlesInv, [Next]_vars
             PROVE  HandlesInv'
  OBVIOUS
<1>1. CASE Next
  BY <1>1, StoreStepKeeps, EvalStepKeeps, FlakeStepKeeps, DropStepKeeps
     DEF Next
<1>2. CASE UNCHANGED vars
  <2>1. WrapperInv' /\ Live' = Live
    BY <1>2, StillKeeps DEF vars, HandlesInv
  <2>2. QED
    BY <1>2, <2>1 DEF vars, callVars, HandlesInv, HeldInv, Mine, Idle
<1>3. QED BY <1>1, <1>2

\* Every variable keeps its type, for any numbers of wrappers.
THEOREM TypeCorrect == Spec => []TypeOK
<1>1. HandlesInv => TypeOK
  BY DEF HandlesInv, WrapperInv, HeldInv, TypeOK, Live
<1>2. QED BY <1>1, HandlesInvInit, HandlesInvStep, PTL DEF Spec

\* The context, store and settings that an operation or a Drop reaches
\* through its wrapper's Arcs have not been freed, whatever was dropped.
THEOREM HandlesUsedAlive == Spec => []NoUseAfterFree
<1>1. HandlesInv => NoUseAfterFree
  BY DEF HandlesInv, NoUseAfterFree
<1>2. QED BY <1>1, HandlesInvInit, HandlesInvStep, PTL DEF Spec

\* The Arcs in a wrapper's struct keep alive what its C object relies on.
THEOREM ObjectsAnchored == Spec => []Anchored
<1>1. HandlesInv => Anchored
  BY DEF HandlesInv, WrapperInv, Anchored, Live
<1>2. QED BY <1>1, HandlesInvInit, HandlesInvStep, PTL DEF Spec

\* Wrappers form no Arc cycle and none is lost on an error path: once the
\* program holds nothing, nothing is left.
THEOREM NothingLeftBehind == Spec => []NothingLeft
<1>1. ASSUME HandlesInv, user = {}, call = Idle, Leaving = {}
      PROVE  \A o \in Objects : phase[o] = "none"
  <2> USE HandlesAssumption, Disjoint
  <2>1. \A o \in Objects : phase[o] \in {"none", "live"}
    BY <1>1 DEF HandlesInv, WrapperInv, Leaving
  <2>2. inHand = {}
    BY <1>1 DEF HandlesInv, HeldInv, Mine
  <2>3. ASSUME NEW o \in Live
        PROVE  \E x \in Live : o \in Fields(x)
    <3>1. o \in Objects /\ phase[o] = "live"
      BY DEF Live
    <3>2. Owned(o)
      BY <1>1, <3>1 DEF Leaving
    <3>3. PICK x \in Objects : o \in Fields(x)
      BY <1>1, <2>2, <3>2 DEF Owned, Owners
    <3>4. QED BY <1>1, <2>1, <3>3 DEF HandlesInv, WrapperInv, Live
  <2>4. ASSUME NEW x \in Live, NEW o \in Fields(x)
        PROVE  \/ x \notin Contexts /\ o \in Contexts
               \/ x \in Builders \cup States /\ o \in Stores
               \/ x \in LockFlags /\ o \in Settings
               \/ x \in Values /\ o \in States
    BY <1>1 DEF HandlesInv, WrapperInv, Fits, Fields, Live
  <2>5. \A S \in {Values, Builders, LockFlags} : Live \cap S = {}
    <3>1. \A S \in {Values, Builders, LockFlags} :
            S \cap (Contexts \cup Stores \cup Settings \cup States) = {}
      OBVIOUS
    <3>2. QED BY <2>3, <2>4, <3>1
  <2>6. Live \cap States = {}
    BY <2>3, <2>4, <2>5
  <2>7. Live \cap (Stores \cup Settings) = {}
    BY <2>3, <2>4, <2>5, <2>6
  <2>8. Live \subseteq Contexts
    BY <2>3, <2>4, <2>5, <2>6, <2>7
  <2>9. QED BY <2>1, <2>3, <2>4, <2>8 DEF Live
<1>2. HandlesInv => NothingLeft
  BY <1>1 DEF NothingLeft
<1>3. QED BY <1>2, HandlesInvInit, HandlesInvStep, PTL DEF Spec

----------------------------------------------------------------------------
(* Ownership is implemented                                                *)

HeldObjects == user \cup inHand
Relies == [o \in Objects |-> ReliesOn(o)]
OwnershipVars == <<Live, Relies, HeldObjects>>

\* Making o, and giving up whatever the step gives up.
LEMMA WrapAcquires ==
  ASSUME WrapperInv, NEW o \in Objects, NEW c, NEW k, NEW from,
         Wrap(o, c, k, from), from \subseteq Objects,
         Live' = Live \cup {o},
         (from \ IF o \in LockFlags THEN {} ELSE Settings) \subseteq Live,
         o \in HeldObjects', HeldObjects' \subseteq HeldObjects \cup {o}
  PROVE  Ownership!Next
<1>1. /\ madeFrom' = [madeFrom EXCEPT ![o] = from] /\ o \notin Live
      /\ madeFrom \in [Objects -> SUBSET Objects]
  BY DEF Wrap, WrapperInv, Live
<1>2. ReliesOn(o)' = from \ IF o \in LockFlags THEN {} ELSE Settings
  BY <1>1 DEF ReliesOn
<1>3. Relies'[o] = ReliesOn(o)' /\ Relies'[o] \subseteq Live
  BY <1>2 DEF Relies
<1>4. Relies' = [Relies EXCEPT ![o] = Relies'[o]]
  BY <1>1 DEF Relies, ReliesOn
<1>5. Ownership!Acquire(o)
  BY <1>1, <1>3, <1>4 DEF Ownership!Acquire, Relies, HeldObjects
<1> QED
  BY <1>5 DEF Ownership!Next

LEMMA ReturnsAcquires ==
  ASSUME HandlesInv, NEW o \in Objects, NEW c, NEW k, NEW from, NEW S,
         Returns(o, c, k, from, S), Fits(o, c, k), Filled(o, c, k),
         {c, k} \ {None} \subseteq Live,
         from \subseteq Objects,
         (from \ IF o \in LockFlags THEN {} ELSE Settings)
            \subseteq {c, k} \ {None}
  PROVE  Ownership!Next
<1>1. Live' = Live \cup {o}
  BY WrapKeeps DEF Returns, HandlesInv
<1>2. HeldObjects' = HeldObjects \cup {o}
  BY DEF Returns, HeldObjects, callVars
<1> QED
  BY <1>1, <1>2, WrapAcquires DEF Returns, HandlesInv

\* No C object is made or freed, and none is handed out.
LEMMA StillGivesUp ==
  ASSUME UNCHANGED wrapperVars, HeldObjects' \subseteq HeldObjects
  PROVE  Ownership!Next
<1>1. Live' = Live /\ Relies' = Relies
  BY DEF wrapperVars, Live, Relies, ReliesOn
<1> QED
  BY <1>1 DEF Ownership!Next, Ownership!GiveUp, Relies, HeldObjects

LEMMA StoreStepOwns ==
  HandlesInv /\ StoreStep => [Ownership!Next]_OwnershipVars
<1> SUFFICES ASSUME HandlesInv, StoreStep
             PROVE  Ownership!Next
  OBVIOUS
<1>1. ASSUME \/ \E c \in Contexts :
                  \/ NewContext(c)
                  \/ \E s \in Stores : OpenStore(c, s)
                  \/ \E p \in StorePaths : FromParts(c, p)
             \/ \E c \in Contexts, s \in Stores, d \in Derivations :
                  \/ DerivationFromJson(c, s, d)
                  \/ \E p \in StorePaths : ReadDerivation(c, s, p, d)
             \/ \E c \in Contexts, s \in Stores, p \in StorePaths :
                  ParsePath(c, s, p)
             \/ \E s \in Stores, p \in StorePaths :
                  \/ FindOrAddPath(s, p)
                  \/ \E d \in Derivations : AddToStore(d, s, p)
             \/ \E S \in {StorePaths, Derivations} :
                  \E o, q \in S : CloneHandle(S, o, q)
      PROVE  Ownership!Next
  <2> USE HandlesAssumption, Disjoint, MineLive, ReturnsAcquires
  <2> USE DEF Mine, Fits, Filled, Objects
  <2>1. ASSUME NEW c \in Contexts, NewContext(c)
        PROVE  Ownership!Next
    BY <2>1 DEF NewContext
  <2>2. ASSUME NEW c \in Contexts, NEW s \in Stores, OpenStore(c, s)
        PROVE  Ownership!Next
    BY <2>2 DEF OpenStore
  <2>3. ASSUME NEW c \in Contexts, NEW p \in StorePaths, FromParts(c, p)
        PROVE  Ownership!Next
    BY <2>3 DEF FromParts
  <2>4. ASSUME NEW c \in Contexts, NEW s \in Stores, NEW p \in StorePaths,
               ParsePath(c, s, p)
        PROVE  Ownership!Next
    BY <2>4 DEF ParsePath
  <2>5. ASSUME NEW c \in Contexts, NEW s \in Stores, NEW d \in Derivations,
               DerivationFromJson(c, s, d)
        PROVE  Ownership!Next
    BY <2>5 DEF DerivationFromJson
  <2>6. ASSUME NEW c \in Contexts, NEW s \in Stores, NEW p \in StorePaths,
               NEW d \in Derivations, ReadDerivation(c, s, p, d)
        PROVE  Ownership!Next
    BY <2>6 DEF ReadDerivation
  <2>7. ASSUME NEW s \in Stores, NEW p \in StorePaths, NEW d \in Derivations,
               AddToStore(d, s, p)
        PROVE  Ownership!Next
    BY <2>7 DEF AddToStore
  <2>8. ASSUME NEW S \in {StorePaths, Derivations}, NEW o \in S, NEW q \in S,
               CloneHandle(S, o, q)
        PROVE  Ownership!Next
    BY <2>8 DEF CloneHandle
  <2>9. ASSUME NEW s \in Stores, NEW p \in StorePaths, FindOrAddPath(s, p)
        PROVE  Ownership!Next
    BY <2>9 DEF FindOrAddPath
  <2> QED
    BY ONLY <1>1, <2>1, <2>2, <2>3, <2>4, <2>5, <2>6, <2>7, <2>8, <2>9
<1>2. ASSUME \/ \E s, t \in Stores, p \in StorePaths \cup {None} :
                  UseStore(s, t, p)
             \/ \E o \in Objects : Read(o)
             \/ \E s \in Stores, p \in StorePaths : EnterStore(s, p)
             \/ \E q \in StorePaths : ForgetPath(q)
             \/ LeaveStore
             \/ FailStore
      PROVE  Ownership!Next
  BY <1>2, StillGivesUp
     DEF UseStore, Read, EnterStore, ForgetPath, LeaveStore, FailStore,
         HeldObjects, callVars
<1>3. ASSUME NEW q \in StorePaths, ReportPath(q)
      PROVE  Ownership!Next
  <2>1. call.store \in Mine(Stores)
    BY <1>3 DEF ReportPath, HandlesInv, HeldInv, Idle
  <2>2. context[call.store] \in Contexts \cap Live /\ q \in Objects
    BY <2>1, HandlesAssumption, Disjoint, MineLive
       DEF Mine, Filled, Objects
  <2>3. Live' = Live \cup {q}
    BY <1>3, <2>2, HandlesAssumption, Disjoint, WrapKeeps
       DEF ReportPath, HandlesInv, Fits, Filled, Objects
  <2> QED
    BY <1>3, <2>2, <2>3, WrapAcquires
       DEF ReportPath, HandlesInv, HeldObjects, Objects
<1> QED
  BY <1>1, <1>2, <1>3 DEF StoreStep

LEMMA EvalStepOwns ==
  HandlesInv /\ EvalStep => [Ownership!Next]_OwnershipVars
<1> SUFFICES ASSUME HandlesInv, NEW b \in Builders,
                    \/ \E s \in Stores : NewBuilder(s, b)
                    \/ ConfigureFails(b, {})
                    \/ \E f \in Settings :
                         AddSettings(b, f) \/ ConfigureFails(b, {f})
                    \/ \E e \in States : Build(b, e)
                    \/ BuildFails(b)
             PROVE  [Ownership!Next]_OwnershipVars
  BY DEF EvalStep
<1>1. ASSUME NEW s \in Stores, NewBuilder(s, b)
      PROVE  Ownership!Next
  BY <1>1, HandlesAssumption, Disjoint, MineLive, ReturnsAcquires
     DEF NewBuilder, Mine, Fits, Filled, Objects
<1>2. ASSUME BuildFails(b) \/ \E S \in SUBSET Settings : ConfigureFails(b, S)
      PROVE  Ownership!Next
  BY <1>2, StillGivesUp
     DEF BuildFails, ConfigureFails, Consumes, HeldObjects, callVars
\* The settings are not among what the builder can rely on.
<1>3. ASSUME NEW f \in Settings, AddSettings(b, f)
      PROVE  UNCHANGED OwnershipVars
  <2>1. /\ UNCHANGED <<phase, user, callVars>>
        /\ madeFrom' = [madeFrom EXCEPT ![b] = @ \cup {f}]
        /\ b \in Objects /\ b \notin LockFlags
        /\ madeFrom \in [Objects -> SUBSET Objects]
    BY <1>3, HandlesAssumption, Disjoint
       DEF AddSettings, HandlesInv, WrapperInv, Objects
  <2>2. \A o \in Objects : ReliesOn(o)' = ReliesOn(o)
    BY <2>1 DEF ReliesOn
  <2> QED
    BY <2>1, <2>2 DEF OwnershipVars, Relies, Live, HeldObjects, callVars
<1>4. ASSUME NEW e \in States, Build(b, e)
      PROVE  Ownership!Next
  <2>1. /\ b \in Live /\ {context[b], keeps[b]} \ {None} \subseteq Live
        /\ Fits(e, context[b], keeps[b]) /\ Filled(e, context[b], keeps[b])
        /\ e \in Objects /\ b \in Objects
    BY <1>4, HandlesAssumption, Disjoint, MineLive
       DEF Build, Mine, Fits, Filled, Objects
  <2>2. /\ madeFrom[b] \subseteq Objects
        /\ (madeFrom[b] \ IF e \in LockFlags THEN {} ELSE Settings)
              \subseteq {context[b], keeps[b]} \ {None}
    BY <2>1, HandlesAssumption, Disjoint
       DEF HandlesInv, WrapperInv, ReliesOn, Fields
  <2>3. Live' = Live \cup {e}
    BY <1>4, <2>1, <2>2, WrapKeeps DEF Build, HandlesInv
  <2>4. e \in HeldObjects' /\ HeldObjects' \subseteq HeldObjects \cup {e}
    BY <1>4 DEF Build, HeldObjects, callVars
  <2> QED
    BY <1>4, <2>1, <2>2, <2>3, <2>4, WrapAcquires DEF Build, HandlesInv
<1> QED
  BY <1>1, <1>2, <1>3, <1>4

LEMMA FlakeStepOwns ==
  HandlesInv /\ FlakeStep => [Ownership!Next]_OwnershipVars
<1> SUFFICES ASSUME HandlesInv, FlakeStep
             PROVE  Ownership!Next
  OBVIOUS
<1>1. ASSUME \/ \E c \in Contexts, f \in Settings :
                  \/ NewSettings(c, f)
                  \/ \E g \in ParseFlags : NewParseFlags(c, f, g)
                  \/ \E g \in LockFlags : NewLockFlags(c, f, g)
                  \/ \E t \in Fetchers, r \in References :
                       \/ \E g \in ParseFlags : ParseReference(c, t, f, g, r)
                       \/ \E e \in States, g \in LockFlags,
                             l \in LockedFlakes : Lock(c, t, f, e, g, r, l)
             \/ \E c \in Contexts, t \in Fetchers :
                  \/ NewFetchers(c, t)
                  \/ \E l \in LockedFlakes : ImportJson(c, t, l)
             \/ \E l \in LockedFlakes, f \in Settings, e \in States,
                   v \in Values : OutputAttrs(l, f, e, v)
      PROVE  Ownership!Next
  <2> USE HandlesAssumption, Disjoint, MineLive, ReturnsAcquires
  <2> USE DEF Mine, Fits, Filled, Objects
  <2>1. ASSUME NEW c \in Contexts, NEW f \in Settings, NewSettings(c, f)
        PROVE  Ownership!Next
    BY <2>1 DEF NewSettings
  <2>2. ASSUME NEW c \in Contexts, NEW f \in Settings, NEW g \in ParseFlags,
               NewParseFlags(c, f, g)
        PROVE  Ownership!Next
    BY <2>2 DEF NewParseFlags
  <2>3. ASSUME NEW c \in Contexts, NEW f \in Settings, NEW g \in LockFlags,
               NewLockFlags(c, f, g)
        PROVE  Ownership!Next
    BY <2>3 DEF NewLockFlags
  <2>4. ASSUME NEW c \in Contexts, NEW t \in Fetchers, NEW f \in Settings,
               NEW g \in ParseFlags, NEW r \in References,
               ParseReference(c, t, f, g, r)
        PROVE  Ownership!Next
    BY <2>4 DEF ParseReference
  <2>5. ASSUME NEW c \in Contexts, NEW t \in Fetchers, NEW f \in Settings,
               NEW e \in States, NEW g \in LockFlags, NEW r \in References,
               NEW l \in LockedFlakes, Lock(c, t, f, e, g, r, l)
        PROVE  Ownership!Next
    BY <2>5 DEF Lock
  <2>6. ASSUME NEW c \in Contexts, NEW t \in Fetchers, NewFetchers(c, t)
        PROVE  Ownership!Next
    BY <2>6 DEF NewFetchers
  <2>7. ASSUME NEW c \in Contexts, NEW t \in Fetchers, NEW l \in LockedFlakes,
               ImportJson(c, t, l)
        PROVE  Ownership!Next
    BY <2>7 DEF ImportJson
  <2>8. ASSUME NEW l \in LockedFlakes, NEW f \in Settings, NEW e \in States,
               NEW v \in Values, OutputAttrs(l, f, e, v)
        PROVE  Ownership!Next
    BY <2>8 DEF OutputAttrs
  <2> QED
    BY ONLY <1>1, <2>1, <2>2, <2>3, <2>4, <2>5, <2>6, <2>7, <2>8
<1>2. ASSUME \/ \E g \in ParseFlags : SetBaseDirectoryFails(g)
             \/ \E g \in LockFlags :
                  SetModeFails(g) \/ \E r \in References : AddInputOverride(g, r)
      PROVE  Ownership!Next
  BY <1>2, StillGivesUp
     DEF SetBaseDirectoryFails, SetModeFails, AddInputOverride, Consumes,
         HeldObjects, callVars
<1> QED
  BY <1>1, <1>2 DEF FlakeStep

LEMMA DropStepOwns ==
  HandlesInv /\ DropStep => [Ownership!Next]_OwnershipVars
<1> SUFFICES ASSUME HandlesInv, NEW o \in Objects,
                    \/ LetGo(o) \/ Drop(o)
                    \/ \E f \in Fields(o) : Release(o, f)
             PROVE  [Ownership!Next]_OwnershipVars
  BY DEF DropStep
<1>1. ASSUME LetGo(o)
      PROVE  Ownership!Next
  BY <1>1, StillGivesUp DEF LetGo, HeldObjects, callVars
<1>2. ASSUME Drop(o)
      PROVE  Ownership!Next
  <2>1. /\ o \in Live /\ Live' = Live \ {o}
        /\ madeFrom' = [madeFrom EXCEPT ![o] = {}]
        /\ madeFrom \in [Objects -> SUBSET Objects]
    BY <1>2 DEF Drop, HandlesInv, WrapperInv, Live
  <2>2. o \notin HeldObjects /\ HeldObjects' = HeldObjects
    BY <1>2 DEF Drop, Owned, HeldObjects, callVars
  <2>3. \A x \in Live : o \notin Relies[x]
    BY <1>2 DEF Drop, Owned, Owners, HandlesInv, WrapperInv, Relies, Live
  <2>4. Relies' = [Relies EXCEPT ![o] = {}]
    BY <2>1 DEF Relies, ReliesOn
  <2>5. Ownership!Dispose(o)
    BY <2>1, <2>2, <2>3, <2>4 DEF Ownership!Dispose, Relies, HeldObjects
  <2> QED
    BY <2>5 DEF Ownership!Next
<1>3. ASSUME NEW f \in Fields(o), Release(o, f)
      PROVE  UNCHANGED OwnershipVars
  BY <1>3 DEF Release, HandlesInv, WrapperInv, Live, OwnershipVars, Relies,
     ReliesOn, HeldObjects, callVars
<1> QED
  BY <1>1, <1>2, <1>3

\* However wrappers are made, shared, consumed and dropped, for any numbers of
\* them and with any number of drops under way, C objects are owned the way
\* Ownership promises.
THEOREM OwnershipImplemented == Spec => ImplementsOwnership
<1>1. Init => Ownership!Init
  BY DEF Init, Ownership!Init, Live, ReliesOn
<1>2. HandlesInv /\ [Next]_vars => [Ownership!Next]_OwnershipVars
  <2>1. UNCHANGED vars => UNCHANGED OwnershipVars
    BY DEF vars, wrapperVars, callVars, OwnershipVars, Live, Relies, ReliesOn,
       HeldObjects
  <2> QED
    BY <2>1, StoreStepOwns, EvalStepOwns, FlakeStepOwns, DropStepOwns DEF Next
<1>3. HandlesInv /\ [Next]_vars
        => [Ownership!Next]_<<Live, [o \in Objects |-> ReliesOn(o)],
                              user \cup inHand>>
  BY <1>2 DEF OwnershipVars, Relies, HeldObjects
<1> QED
  BY <1>1, <1>3, HandlesInvInit, HandlesInvStep, PTL
     DEF Spec, ImplementsOwnership, Ownership!Spec

=============================================================================
