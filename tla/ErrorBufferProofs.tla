------------------------- MODULE ErrorBufferProofs -------------------------
(***************************************************************************)
(* Proofs about ErrorBuffer, for any set of contexts and any depth of      *)
(* nested calls.  BufferInv ties the buffer of a context to the calls in   *)
(* progress that will read it: a failed call finds its own message, a call *)
(* that did not fail finds no code unless a nested call parked one.        *)
(***************************************************************************)
EXTENDS ErrorBuffer, TLAPS

\* A call in progress has its context, and reads the one it was given unless
\* it is PrimOp::register.
Entered(l) ==
  /\ conv[l] \in Conventions
  /\ ctx[l] \in Contexts /\ source[l] \in Contexts
  /\ conv[l] # "register" => source[l] = ctx[l]
  /\ out[l] = "empty" => conv[l] \notin {"code", "register"}

\* What the buffers hold for it.
Buffered(l) ==
  /\ out[l] = "failed" /\ conv[l] # "alloc"
       => code[ctx[l]] = "error" /\ msg[ctx[l]] = id[l]
  /\ out[l] = "failed" /\ conv[l] = "alloc" /\ ~touched[l]
       => code[ctx[l]] = "ok" \/ msg[ctx[l]] = id[l]
  /\ out[l] # "failed" /\ ~touched[l] /\ conv[l] # "register"
       => code[source[l]] = "ok"

BufferInv ==
  /\ TypeOK
  /\ \A l \in Levels : l <= depth => Entered(l) /\ Buffered(l)
  /\ \A l \in Levels : l < depth => out[l] = "running" \/ conv[l] = "alloc"

\* Only the innermost call has returned or can return.
ReportsInv == BufferInv /\ OutcomeReported /\ OwnMessage /\ AbsentUnlessTouched

LEMMA ReportsInvInit == Init => ReportsInv
BY ErrorBufferAssumption
   DEF Init, ReportsInv, BufferInv, TypeOK, Levels, Ids, Reports, Conventions,
       Outcomes, Entered, Buffered, OutcomeReported, OwnMessage,
       AbsentUnlessTouched

\* The wrapper of a call that has returned reports what the call did.
LEMMA WrapRight ==
  ASSUME BufferInv, NEW l \in Levels, l = depth, out[l] # "running"
  PROVE  /\ Wrap(l).result \in {"ok", "none", "err"} /\ Wrap(l).msg \in Ids
         /\ out[l] = "failed" =>
              Wrap(l).result = IF conv[l] \in Swallowing THEN "none" ELSE "err"
         /\ out[l] = "done" => Wrap(l).result = "ok"
         /\ ( /\ out[l] = "failed"
              /\ conv[l] \notin {"lossy", "register"} \cup Swallowing )
              => \/ Wrap(l).msg = id[l]
                 \/ conv[l] = "alloc" /\ (Wrap(l).msg = 0 \/ touched[l])
         /\ out[l] = "empty" /\ ~touched[l]
              => /\ Wrap(l).msg = 0
                 /\ Wrap(l).result =
                      IF conv[l] \in {"optional"} \cup Swallowing THEN "none"
                      ELSE "err"
<1> USE ErrorBufferAssumption
        DEF BufferInv, TypeOK, Levels, Ids, Conventions, Outcomes, Entered,
            Buffered, Wrap, CheckErr, CheckPtr, NullOrContextErr, Optional,
            Swallow, Swallowing, ErrMsg, Parked, Err, Ok, Absent
<1>1. CASE conv[l] \in {"code", "register"}
  BY <1>1
<1>2. CASE conv[l] \in {"pointer", "alloc"}
  BY <1>2
<1>3. CASE conv[l] = "message"
  BY <1>3
<1>4. CASE conv[l] = "optional"
  BY <1>4
<1>5. CASE conv[l] = "lossy"
  BY <1>5
<1>6. CASE conv[l] \in Swallowing
  BY <1>6
<1>7. \/ conv[l] \in {"code", "register"} \/ conv[l] \in {"pointer", "alloc"}
      \/ conv[l] = "message" \/ conv[l] = "optional" \/ conv[l] = "lossy"
      \/ conv[l] \in Swallowing
  OBVIOUS
<1> HIDE DEF BufferInv, TypeOK, Wrap, Levels, Ids, Conventions, Outcomes
<1> QED
  BY <1>1, <1>2, <1>3, <1>4, <1>5, <1>6, <1>7

LEMMA ReportsInvStep == ReportsInv /\ [Next]_vars => ReportsInv'
<1> SUFFICES ASSUME ReportsInv, [Next]_vars
             PROVE  ReportsInv'
  OBVIOUS
<1> USE ErrorBufferAssumption
<1> USE DEF ReportsInv, BufferInv, TypeOK, Levels, Ids, Conventions, Outcomes,
            Entered, Buffered, OutcomeReported, OwnMessage,
            AbsentUnlessTouched, RustRuns, frameVars, bufferVars
<1>1. ASSUME NEW l \in Levels, NEW k \in Conventions,
             NEW c \in Contexts, NEW s \in Contexts, Call(l, k, c, s)
      PROVE  ReportsInv'
  <2>1. TypeOK'
    BY <1>1 DEF Call, Starts
  <2>2. /\ depth' = l /\ l = depth + 1 /\ UNCHANGED <<msg, last>>
        /\ conv'[l] = k /\ ctx'[l] = c /\ source'[l] = s /\ out'[l] = "running"
        /\ k # "register" => s = c
        /\ code'[c] = "ok" /\ \A d \in Contexts : d # c => code'[d] = code[d]
    BY <1>1 DEF Call, Starts
  <2>3. ASSUME NEW m \in Levels, m <= depth
        PROVE  /\ conv'[m] = conv[m] /\ ctx'[m] = ctx[m] /\ out'[m] = out[m]
               /\ source'[m] = source[m] /\ id'[m] = id[m]
               /\ touched'[m] = touched[m]
               /\ out[m] = "running" \/ conv[m] = "alloc"
    <3>1. m # l /\ depth > 0
      BY <2>2, <2>3
    <3>2. out[m] = "running" \/ conv[m] = "alloc"
      <4>1. CASE m = depth
        BY <1>1, <3>1, <4>1 DEF Call, Starts
      <4>2. CASE m < depth
        BY <4>2
      <4> QED
        BY <2>3, <4>1, <4>2
    <3>3. /\ conv' = [conv EXCEPT ![l] = k] /\ ctx' = [ctx EXCEPT ![l] = c]
          /\ source' = [source EXCEPT ![l] = s]
          /\ id' = [id EXCEPT ![l] = calls + 1]
          /\ out' = [out EXCEPT ![l] = "running"]
          /\ touched' = [touched EXCEPT ![l] = FALSE]
      BY <1>1 DEF Call, Starts
    <3> QED
      BY <3>1, <3>2, <3>3
  <2>4. ASSUME NEW m \in Levels, m <= depth'
        PROVE  Entered(m)' /\ Buffered(m)'
    <3>1. CASE m = l
      BY <2>2, <3>1
    <3>2. CASE m # l
      <4>1. m <= depth
        <5>1. depth \in Nat /\ m \in Nat /\ depth' = depth + 1 /\ l = depth + 1
          BY <2>2
        <5> HIDE DEF ReportsInv, BufferInv, TypeOK, Conventions
        <5> QED
          BY <2>4, <3>2, <5>1
      <4>2. Entered(m)'
        <5>1. Entered(m)
          BY <4>1
        <5> HIDE DEF ReportsInv, BufferInv, TypeOK, Conventions
        <5> QED
          BY <2>3, <4>1, <5>1
      <4>3. Buffered(m)'
        BY <2>2, <2>3, <4>1, SMTT(30)
      <4> QED
        BY <4>2, <4>3
    <3> QED
      BY <3>1, <3>2
  <2> QED
    BY <2>1, <2>2, <2>3, <2>4, SMTT(30)
<1>2. ASSUME NEW l \in Levels, Fail(l)
      PROVE  ReportsInv'
  <2>1. TypeOK'
    BY <1>2 DEF Fail
  <2>2. /\ UNCHANGED <<depth, conv, ctx, source, id, last>>
        /\ l = depth /\ out'[l] = "failed"
        /\ code'[ctx[l]] = "error" /\ msg'[ctx[l]] = id[l]
        /\ \A d \in Contexts : d # ctx[l] => /\ code'[d] = code[d]
                                           /\ msg'[d] = msg[d]
    BY <1>2 DEF Fail
  <2>3. ASSUME NEW m \in Levels, m < depth
        PROVE  /\ out'[m] = out[m]
               /\ out[m] = "running" \/ conv[m] = "alloc"
               /\ ~touched'[m] => ~touched[m] /\ source[m] # ctx[l]
    <3>1. out' = [out EXCEPT ![l] = "failed"] /\ l = depth
      BY <1>2 DEF Fail
    <3>2. touched' = [n \in Levels |->
                        touched[n] \/ (n < l /\ source[n] = ctx[l])]
      BY <1>2 DEF Fail
    <3>3. touched'[m] <=> touched[m] \/ (m < l /\ source[m] = ctx[l])
      BY <3>2, Zenon
    <3> QED
      BY <2>3, <3>1, <3>3
  <2>4. ASSUME NEW m \in Levels, m <= depth'
        PROVE  Entered(m)' /\ Buffered(m)'
    <3>1. CASE m = l
      BY <2>2, <2>4, <3>1
    <3>2. CASE m # l
      <4>1. m < depth /\ Entered(m) /\ Buffered(m)
        BY <2>2, <2>4, <3>2
      <4>2. Entered(m)'
        BY <2>2, <2>3, <4>1
      <4>3. Buffered(m)'
        BY <2>2, <2>3, <4>1, SMTT(30)
      <4> QED
        BY <4>2, <4>3
    <3> QED
      BY <3>1, <3>2
  <2> QED
    BY <2>1, <2>2, <2>3, <2>4, SMTT(30)
<1>3. ASSUME NEW l \in Levels, NEW o \in {"done", "empty"}, Return(l, o)
      PROVE  ReportsInv'
  <2>1. /\ UNCHANGED <<depth, conv, ctx, source, id, touched, last>>
        /\ UNCHANGED <<code, msg, calls>>
        /\ l = depth /\ out[l] = "running" /\ o # "failed"
        /\ out' = [out EXCEPT ![l] = o]
        /\ o = "empty" => conv[l] \notin {"code", "register"}
    BY <1>3 DEF Return
  <2>2. TypeOK'
    BY <2>1
  <2>3. OutcomeReported' /\ OwnMessage' /\ AbsentUnlessTouched'
    BY <2>1
  <2>4. ASSUME NEW m \in Levels, m <= depth
        PROVE  Entered(m)' /\ Buffered(m)'
    <3>1. CASE m = l
      BY <2>1, <2>4, <3>1
    <3>2. CASE m # l
      BY <2>1, <2>4, <3>2
    <3> QED
      BY <3>1, <3>2
  <2>5. ASSUME NEW m \in Levels, m < depth
        PROVE  out'[m] = "running" \/ conv'[m] = "alloc"
    BY <2>1, <2>5
  <2> QED
    BY <2>1, <2>2, <2>3, <2>4, <2>5, SMTT(30)
<1>4. ASSUME NEW l \in Levels, Report(l)
      PROVE  ReportsInv'
  <2>1. BufferInv' \/ last' \notin Reports
    BY <1>4 DEF Report
  <2>2. /\ l = depth /\ out[l] # "running" /\ BufferInv
        /\ last' = [conv |-> conv[l], out |-> out[l], id |-> id[l],
                    touched |-> touched[l],
                    result |-> Wrap(l).result, msg |-> Wrap(l).msg]
    BY <1>4 DEF Report
  <2>3. Wrap(l).result \in {"ok", "none", "err"} /\ Wrap(l).msg \in Ids
    <3> HIDE DEF ReportsInv, BufferInv, TypeOK, Conventions, Levels, Ids
    <3> QED
      BY <2>2, WrapRight
  <2>4. last' \in Reports
    <3>1. /\ conv[l] \in Conventions \cup {"none"} /\ id[l] \in Ids
          /\ out[l] \in Outcomes /\ touched[l] \in BOOLEAN
      BY <2>2
    <3> HIDE DEF ReportsInv, BufferInv, TypeOK, Conventions, Levels, Ids,
                 Outcomes
    <3> QED
      BY <2>2, <2>3, <3>1 DEF Reports
  <2>5. OutcomeReported' /\ OwnMessage' /\ AbsentUnlessTouched'
    <3> HIDE DEF ReportsInv, BufferInv, TypeOK, Conventions, Levels, Ids
    <3> QED
      BY <2>2, WrapRight
  <2> QED
    BY <2>1, <2>4, <2>5
<1>5. ASSUME NEW c \in Contexts, ClearError(c)
      PROVE  ReportsInv'
  <2>1. /\ UNCHANGED <<depth, conv, ctx, source, id, out, touched, last>>
        /\ UNCHANGED <<msg, calls>>
        /\ code' = [code EXCEPT ![c] = "ok"]
        /\ depth > 0 => out[depth] = "running" \/ conv[depth] = "alloc"
    BY <1>5 DEF ClearError
  <2>2. TypeOK'
    BY <2>1
  <2>3. OutcomeReported' /\ OwnMessage' /\ AbsentUnlessTouched'
    BY <2>1
  <2>4. ASSUME NEW l \in Levels, l <= depth
        PROVE  Entered(l)' /\ Buffered(l)'
    <3>1. out[l] = "running" \/ conv[l] = "alloc"
      BY <2>1, <2>4
    <3>2. source[l] \in Contexts /\ (code'[source[l]] = "ok" \/
                                      code'[source[l]] = code[source[l]])
      BY <2>1, <2>4
    <3> QED
      BY <2>1, <2>4, <3>1, <3>2
  <2> QED
    BY <2>1, <2>2, <2>3, <2>4
<1>6. CASE UNCHANGED vars
  BY <1>6 DEF vars
<1> HIDE DEF ReportsInv, Levels, Conventions
<1> QED
  BY <1>1, <1>2, <1>3, <1>4, <1>5, <1>6 DEF Next

THEOREM ReportsInvariant == Spec => []ReportsInv
<1>1. ReportsInv /\ [Next]_vars => ReportsInv'
  BY ReportsInvStep
<1> QED
  BY ReportsInvInit, <1>1, PTL DEF Spec

\* The buffers, the calls in progress and the reports have the types the code
\* gives them.
THEOREM TypesCorrect == Spec => []TypeOK
<1>1. ReportsInv => TypeOK
  BY DEF ReportsInv, BufferInv
<1> QED
  BY ReportsInvariant, <1>1, PTL

\* Whatever nested calls do to the buffer, success is an Ok and failure an Err,
\* but for the wrappers that swallow it, which say "no" and never "yes".
THEOREM OutcomesReported == Spec => []OutcomeReported
<1>1. ReportsInv => OutcomeReported
  BY DEF ReportsInv
<1> QED
  BY ReportsInvariant, <1>1, PTL

\* Every convention that looks for a message, register's apart, reports the one
\* that the failed call itself parked.
THEOREM MessagesOwned == Spec => []OwnMessage
<1>1. ReportsInv => OwnMessage
  BY DEF ReportsInv
<1> QED
  BY ReportsInvariant, <1>1, PTL

\* A null that means absence is reported as such unless a nested call failed on
\* the same context: messages of earlier calls do not leak into it.
THEOREM AbsenceReported == Spec => []AbsentUnlessTouched
<1>1. ReportsInv => AbsentUnlessTouched
  BY DEF ReportsInv
<1> QED
  BY ReportsInvariant, <1>1, PTL
=============================================================================
