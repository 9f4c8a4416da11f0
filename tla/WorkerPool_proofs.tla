-------------------------- MODULE WorkerPool_proofs --------------------------
(***************************************************************************)
(* Theorems about WorkerPool, for any set of jobs, any number of workers   *)
(* and any capacity of the channel.                                        *)
(***************************************************************************)
EXTENDS WorkerPool, SequenceTheorems, TLAPS

(* Facts about sequences, stated with the operators the model uses. *)
LEMMA AppendFacts ==
    ASSUME NEW S, NEW q \in Seq(S), NEW x \in S
    PROVE  /\ Append(q, x) \in Seq(S)
           /\ ToSet(Append(q, x)) = ToSet(q) \cup {x}
           /\ IsInjective(q) /\ x \notin ToSet(q) => IsInjective(Append(q, x))
<1> DEFINE r == Append(q, x)
           n == Len(q)
<1>1. /\ r \in Seq(S) /\ n \in Nat
      /\ DOMAIN q = 1 .. n /\ DOMAIN r = 1 .. n + 1
      /\ r[n + 1] = x
      /\ \A i \in 1 .. n : r[i] = q[i]
  BY AppendProperties, LenProperties
<1> HIDE DEF r, n
<1>2. 1 .. n + 1 = (1 .. n) \cup {n + 1}
  BY <1>1
<1>3. ToSet(r) = ToSet(q) \cup {x}
  BY <1>1, <1>2 DEF ToSet
<1>4. ASSUME IsInjective(q), x \notin ToSet(q), NEW a \in DOMAIN r, NEW b \in DOMAIN r,
             r[a] = r[b]
      PROVE  a = b
  <2>1. \A i \in 1 .. n : q[i] # x
    BY <1>1, <1>4 DEF ToSet
  <2>2. \A i, k \in 1 .. n : q[i] = q[k] => i = k
    BY <1>1, <1>4 DEF IsInjective
  <2> QED
    BY <1>1, <1>2, <1>4, <2>1, <2>2
<1> QED
  BY <1>1, <1>3, <1>4 DEF r, IsInjective

LEMMA ElementFacts ==
    ASSUME NEW S, NEW q \in Seq(S)
    PROVE  ToSet(q) \subseteq S /\ \A i \in DOMAIN q : q[i] \in ToSet(q)
<1>1. \A i \in DOMAIN q : q[i] \in S
  BY LenProperties, ElementOfSeq
<1> QED
  BY <1>1 DEF ToSet

LEMMA TailFacts ==
    ASSUME NEW S, NEW q \in Seq(S), q # <<>>
    PROVE  /\ Tail(q) \in Seq(S) /\ Head(q) \in S
           /\ ToSet(q) = ToSet(Tail(q)) \cup {Head(q)}
           /\ IsInjective(q) => Head(q) \notin ToSet(Tail(q)) /\ IsInjective(Tail(q))
<1> DEFINE t == Tail(q)
           n == Len(q)
<1>1. /\ t \in Seq(S) /\ Head(q) \in S /\ n \in Nat \ {0}
      /\ DOMAIN q = 1 .. n /\ DOMAIN t = 1 .. n - 1
      /\ Head(q) = q[1]
      /\ \A i \in 1 .. n - 1 : t[i] = q[i + 1]
  <2>1. t \in Seq(S) /\ Head(q) \in S /\ Len(t) = n - 1
        /\ \A i \in 1 .. Len(t) : t[i] = q[i + 1]
    BY HeadTailProperties
  <2>2. n \in Nat \ {0} /\ DOMAIN q = 1 .. n /\ DOMAIN t = 1 .. Len(t)
    BY <2>1, EmptySeq, LenProperties
  <2> QED
    BY <2>1, <2>2
<1> HIDE DEF t, n
<1>2. ToSet(q) = ToSet(t) \cup {Head(q)}
  <2>1. \A i \in 1 .. n - 1 : i + 1 \in 1 .. n
    BY <1>1
  <2>2. ToSet(t) \subseteq ToSet(q) /\ Head(q) \in ToSet(q)
    BY <1>1, <2>1 DEF ToSet
  <2>3. ASSUME NEW i \in 1 .. n PROVE q[i] \in ToSet(t) \cup {Head(q)}
    <3>1. CASE i = 1
      BY <1>1, <3>1
    <3>2. CASE i # 1
      <4>1. i - 1 \in 1 .. n - 1 /\ (i - 1) + 1 = i
        BY <1>1, <3>2
      <4>2. t[i - 1] = q[i]
        BY <1>1, <4>1
      <4> QED
        BY <1>1, <4>1, <4>2 DEF ToSet
    <3> QED
      BY <3>1, <3>2
  <2>4. ToSet(q) = {q[i] : i \in 1 .. n}
    BY <1>1 DEF ToSet
  <2> QED
    BY <2>2, <2>3, <2>4
<1>3. ASSUME IsInjective(q) PROVE Head(q) \notin ToSet(t) /\ IsInjective(t)
  <2>1. \A i, k \in 1 .. n : q[i] = q[k] => i = k
    BY <1>1, <1>3 DEF IsInjective
  <2>2. \A i \in 1 .. n - 1 : t[i] # q[1]
    BY <1>1, <2>1
  <2>3. \A i, k \in 1 .. n - 1 : t[i] = t[k] => i = k
    BY <1>1, <2>1
  <2> QED
    BY <1>1, <2>2, <2>3 DEF ToSet, IsInjective
<1> QED
  BY <1>1, <1>2, <1>3 DEF t

LEMMA FrontFacts ==
    ASSUME NEW S, NEW q \in Seq(S), q # <<>>
    PROVE  /\ Len(q) \in Nat \ {0} /\ DOMAIN q = 1 .. Len(q)
           /\ Front(q) \in Seq(S) /\ Last(q) \in S /\ Last(q) = q[Len(q)]
           /\ DOMAIN Front(q) = 1 .. Len(q) - 1
           /\ \A i \in 1 .. Len(q) - 1 : Front(q)[i] = q[i]
<1>1. Len(q) \in Nat \ {0} /\ DOMAIN q = 1 .. Len(q) /\ \A i \in 1 .. Len(q) : q[i] \in S
  BY EmptySeq, LenProperties, ElementOfSeq
<1>2. /\ SubSeq(q, 1, Len(q) - 1) \in Seq(S)
      /\ Len(SubSeq(q, 1, Len(q) - 1)) = Len(q) - 1
      /\ \A i \in 1 .. Len(q) - 1 : SubSeq(q, 1, Len(q) - 1)[i] = q[i]
  BY <1>1, SubSeqProperties
<1>3. DOMAIN SubSeq(q, 1, Len(q) - 1) = 1 .. Len(q) - 1
  BY <1>2, LenProperties
<1> QED
  BY <1>1, <1>2, <1>3 DEF Front, Last

(* Next, one disjunct per action, which is how the proofs below split it. *)
LEMMA NextCases ==
    ASSUME [Next]_vars
    PROVE  \/ AddWorker /\ UNCHANGED envVars
           \/ RemoveWorker /\ UNCHANGED envVars
           \/ \E j \in Jobs : SubmitCall(j) /\ UNCHANGED envVars
           \/ \E j \in Jobs : Enqueue(j) /\ UNCHANGED envVars
           \/ \E j \in Jobs : Refuse(j) /\ UNCHANGED envVars
           \/ \E j \in Jobs, e \in Executors : Handoff(j, e) /\ UNCHANGED envVars
           \/ \E e \in Executors : Take(e) /\ UNCHANGED envVars
           \/ \E e \in Executors : Finish(e) /\ UNCHANGED envVars
           \/ \E w \in Workers : Exit(w) /\ UNCHANGED envVars
           \/ StopCall /\ UNCHANGED envVars
           \/ StopDrain /\ UNCHANGED envVars
           \/ StopReturn /\ UNCHANGED envVars
           \/ Cancel
           \/ UNCHANGED vars
  BY DEF Next, PoolNext

(* Every variable of the pool keeps its type. *)
THEOREM TypeCorrect == Spec => []TypeOK
<1>1. Init => TypeOK
  <2> SUFFICES ASSUME Init PROVE TypeOK
    OBVIOUS
  <2>1. workers \in Seq(Workers) /\ jobs \in Seq(Jobs)
    BY EmptySeq DEF Init
  <2>2. nextID \in 0 .. MaxWorkers
    BY PoolAssumption DEF Init
  <2>3. running \in [Executors -> Jobs \cup {NoJob}]
    BY EmptySeq DEF Init
  <2>4. submit \in [Jobs -> {"idle", "sending", "accepted", "refused"}]
    BY EmptySeq DEF Init
  <2> QED
    BY <2>1, <2>2, <2>3, <2>4 DEF Init, TypeOK
<1>2. TypeOK /\ [Next]_vars => TypeOK'
  <2> SUFFICES ASSUME TypeOK, [Next]_vars PROVE TypeOK'
    OBVIOUS
  <2> USE PoolAssumption DEF TypeOK, Workers, Executors
  <2>1. CASE AddWorker /\ UNCHANGED envVars
    <3>1. NewID \in Workers /\ NewID \in 0 .. MaxWorkers
      BY <2>1 DEF AddWorker, NewID
    <3>2. workers' \in Seq(Workers)
      BY <2>1, <3>1, AppendProperties DEF AddWorker
    <3> QED
      BY <2>1, <3>1, <3>2 DEF AddWorker, NewID, envVars
  <2>2. CASE RemoveWorker /\ UNCHANGED envVars
    <3>1. workers' \in Seq(Workers) /\ Last(workers) \in Workers
      BY <2>2, FrontFacts DEF RemoveWorker, Popped
    <3> QED
      BY <2>2, <3>1 DEF RemoveWorker, Signalled, envVars
  <2>3. CASE \E j \in Jobs : SubmitCall(j) /\ UNCHANGED envVars
    BY <2>3 DEF SubmitCall, envVars
  <2>4. CASE \E j \in Jobs : Enqueue(j) /\ UNCHANGED envVars
    BY <2>4 DEF Enqueue, envVars
  <2>5. CASE \E j \in Jobs : Refuse(j) /\ UNCHANGED envVars
    BY <2>5 DEF Refuse, envVars
  <2>6. CASE \E j \in Jobs, e \in Executors : Handoff(j, e) /\ UNCHANGED envVars
    BY <2>6 DEF Handoff, envVars
  <2>7. CASE \E e \in Executors : Take(e) /\ UNCHANGED envVars
    BY <2>7 DEF Take, Rest, envVars
  <2>8. CASE \E e \in Executors : Finish(e) /\ UNCHANGED envVars
    BY <2>8 DEF Finish, envVars
  <2>9. CASE \E w \in Workers : Exit(w) /\ UNCHANGED envVars
    BY <2>9 DEF Exit, AtSelect, envVars
  <2>10. CASE StopCall /\ UNCHANGED envVars
    BY <2>10 DEF StopCall, envVars
  <2>11. CASE StopDrain /\ UNCHANGED envVars
    BY <2>11 DEF StopDrain, envVars
  <2>12. CASE StopReturn /\ UNCHANGED envVars
    BY <2>12 DEF StopReturn, envVars
  <2>13. CASE Cancel
    BY <2>13 DEF Cancel, poolVars
  <2>14. CASE UNCHANGED vars
    BY <2>14 DEF vars
  <2> QED
    BY <2>1, <2>2, <2>3, <2>4, <2>5, <2>6, <2>7, <2>8, <2>9, <2>10, <2>11,
       <2>12, <2>13, <2>14, NextCases
<1> QED
  BY <1>1, <1>2, PTL DEF Spec

(* RemoveWorker never closes a quit channel twice, and every live worker   *)
(* that was not removed is on the stack. *)
THEOREM StackIsExact == Spec => []StackExact
<1>1. Init => StackExact
  BY DEF Init, StackExact, OnStack, ToSet
<1>2. TypeOK /\ StackExact /\ [Next]_vars => StackExact'
  <2> SUFFICES ASSUME TypeOK, StackExact, [Next]_vars PROVE StackExact'
    OBVIOUS
  <2> USE PoolAssumption
  <2>1. CASE AddWorker /\ UNCHANGED envVars
    <3>1. /\ workers' = Append(workers, NewID)
          /\ quit' = quit /\ alive' = alive \cup {NewID}
          /\ nextID' = NewID /\ NewID \in Nat /\ nextID \in Nat /\ NewID > nextID
          /\ workers \in Seq(Workers) /\ quit \subseteq Workers
          /\ \A w \in OnStack \cup quit : w <= nextID
      BY <2>1 DEF AddWorker, TypeOK, NewID, StackExact
    <3>0. NewID \in Workers
      BY <2>1 DEF AddWorker, NewID, Workers, TypeOK
    <3>6. \A w \in OnStack \cup quit : w \in Int /\ w < NewID
      <4>1. OnStack \cup quit \subseteq Workers
        BY <3>1, ElementFacts DEF OnStack
      <4>2. \A w \in OnStack \cup quit : w \in Int
        BY <4>1 DEF Workers
      <4> QED
        BY <3>1, <4>2
    <3>2. OnStack' = OnStack \cup {NewID}
      BY <3>1, <3>0, AppendFacts DEF OnStack
    <3>3. NewID \notin OnStack \cup quit
      BY <3>1 DEF StackExact, Workers
    <3>4. \A i, k \in DOMAIN workers' : i < k => workers'[i] < workers'[k]
      <4>1. /\ Len(workers) \in Nat /\ DOMAIN workers = 1 .. Len(workers)
            /\ DOMAIN workers' = 1 .. Len(workers) + 1
            /\ workers'[Len(workers) + 1] = NewID
            /\ \A i \in 1 .. Len(workers) : workers'[i] = workers[i]
        BY <3>0, <3>1, AppendProperties, LenProperties
      <4>2. \A i \in DOMAIN workers : workers[i] < NewID
        BY <3>1, <3>6, ElementFacts DEF OnStack
      <4> QED
        BY <4>1, <4>2 DEF StackExact
    <3>5. \A w \in OnStack' \cup quit' : w <= nextID'
      BY <3>1, <3>2, <3>6
    <3> QED
      BY <3>1, <3>2, <3>3, <3>4, <3>5 DEF StackExact
  <2>2. CASE RemoveWorker /\ UNCHANGED envVars
    <3> DEFINE n == Len(workers)
    <3>1. /\ n \in Nat \ {0}
          /\ DOMAIN workers = 1 .. n /\ DOMAIN workers' = 1 .. n - 1
          /\ \A i \in 1 .. n - 1 : workers'[i] = workers[i]
          /\ Last(workers) = workers[n] /\ workers[n] \in Workers
      <4>1. workers \in Seq(Workers) /\ workers # <<>> /\ workers' = Front(workers)
        BY <2>2 DEF RemoveWorker, TypeOK, Popped
      <4> QED
        BY <4>1, FrontFacts
    <3>2. /\ quit' = quit \cup {workers[n]}
          /\ alive' = alive /\ nextID' = nextID
      BY <2>2, <3>1 DEF RemoveWorker, Signalled
    <3> HIDE DEF n
    <3>3. \A i \in 1 .. n - 1 : workers[i] < workers[n]
      BY <3>1 DEF StackExact
    <3>4. OnStack = OnStack' \cup {workers[n]}
      <4>1. 1 .. n = (1 .. n - 1) \cup {n}
        BY <3>1
      <4> QED
        BY <3>1, <4>1 DEF OnStack, ToSet
    <3>5. workers[n] \notin OnStack'
      BY <3>1, <3>3 DEF OnStack, ToSet, Workers
    <3>6. \A i, k \in DOMAIN workers' : i < k => workers'[i] < workers'[k]
      BY <3>1 DEF StackExact
    <3> QED
      BY <3>1, <3>2, <3>4, <3>5, <3>6 DEF StackExact
  <2>3. CASE UNCHANGED <<workers, quit, nextID>> /\ alive' \subseteq alive
    BY <2>3 DEF StackExact, OnStack
  <2>4. CASE \/ \E j \in Jobs : SubmitCall(j) \/ Enqueue(j) \/ Refuse(j)
             \/ \E j \in Jobs, e \in Executors : Handoff(j, e)
             \/ \E e \in Executors : Take(e) \/ Finish(e)
    BY <2>3, <2>4 DEF SubmitCall, Enqueue, Refuse, Handoff, Take, Finish
  <2>5. CASE \E w \in Workers : Exit(w)
    BY <2>3, <2>5 DEF Exit, AtSelect
  <2>6. CASE StopCall \/ StopDrain \/ StopReturn
    BY <2>3, <2>6 DEF StopCall, StopDrain, StopReturn
  <2>7. CASE Cancel \/ UNCHANGED vars
    BY <2>3, <2>7 DEF Cancel, vars, poolVars
  <2> QED
    BY <2>1, <2>2, <2>4, <2>5, <2>6, <2>7, NextCases
<1> QED
  BY <1>1, <1>2, TypeCorrect, PTL DEF Spec

(* A job that is running is with an executor that exists. *)
THEOREM RunningHasExecutor == Spec => []ExecutorExists
<1>1. Init => ExecutorExists
  BY DEF Init, ExecutorExists
<1>2. TypeOK /\ ExecutorExists /\ [Next]_vars => ExecutorExists'
  <2> SUFFICES ASSUME TypeOK, ExecutorExists, [Next]_vars PROVE ExecutorExists'
    OBVIOUS
  <2>0. running \in [Executors -> Jobs \cup {NoJob}]
    BY DEF TypeOK
  <2>1. CASE \/ RemoveWorker \/ StopCall \/ StopDrain
             \/ \E j \in Jobs : SubmitCall(j) \/ Enqueue(j) \/ Refuse(j)
    BY <2>1 DEF RemoveWorker, StopCall, StopDrain, SubmitCall, Enqueue, Refuse,
                ExecutorExists
  <2>2. CASE AddWorker
    BY <2>2 DEF AddWorker, ExecutorExists
  <2>3. CASE \E j \in Jobs, e \in Executors : Handoff(j, e)
    BY <2>0, <2>3 DEF Handoff, Receiving, ExecutorExists
  <2>4. CASE \E e \in Executors : Take(e)
    BY <2>0, <2>4 DEF Take, Receiving, ExecutorExists
  <2>5. CASE \E e \in Executors : Finish(e)
    BY <2>0, <2>5 DEF Finish, ExecutorExists
  <2>6. CASE \E w \in Workers : Exit(w)
    BY <2>6 DEF Exit, AtSelect, ExecutorExists
  <2>7. CASE StopReturn
    BY <2>7 DEF StopReturn, ExecutorExists
  <2>8. CASE Cancel \/ UNCHANGED vars
    BY <2>8 DEF Cancel, vars, poolVars, ExecutorExists
  <2> QED
    BY <2>1, <2>2, <2>3, <2>4, <2>5, <2>6, <2>7, <2>8, NextCases
<1> QED
  BY <1>1, <1>2, TypeCorrect, PTL DEF Spec

(* What an executor's taking or finishing of a job does to Executing. *)
LEMMA ExecutorTakes ==
    ASSUME TypeOK, NEW e \in Executors, NEW j \in Jobs,
           running[e] = NoJob, running' = [running EXCEPT ![e] = j]
    PROVE  Executing' = Executing \cup {j}
  BY PoolAssumption DEF TypeOK, Executing

LEMMA ExecutorFinishes ==
    ASSUME TypeOK, OnePlace, NEW e \in Executors,
           running[e] # NoJob, running' = [running EXCEPT ![e] = NoJob]
    PROVE  /\ running[e] \in Executing
           /\ Executing' = Executing \ {running[e]}
  BY PoolAssumption DEF TypeOK, OnePlace, Executing

LEMMA OnePlaceFrame ==
    ASSUME OnePlace, UNCHANGED <<jobs, running, finished>>,
           In("accepted")' = In("accepted")
    PROVE  OnePlace'
  BY DEF OnePlace, Queued, Executing, IsInjective, ToSet

LEMMA Enqueued ==
    ASSUME TypeOK, OnePlace, NEW j \in Jobs, Enqueue(j)
    PROVE  OnePlace'
<1>1. jobs \in Seq(Jobs) /\ submit \in [Jobs -> {"idle", "sending", "accepted", "refused"}]
  BY DEF TypeOK
<1>2. j \notin In("accepted") /\ In("accepted")' = In("accepted") \cup {j}
  BY <1>1 DEF Enqueue, In
<1>3. j \notin Queued \cup Executing \cup finished
  BY <1>2 DEF OnePlace
<1>4. Queued' = Queued \cup {j} /\ IsInjective(jobs)'
  <2>1. jobs' = Append(jobs, j) /\ IsInjective(jobs) /\ j \notin ToSet(jobs)
    BY <1>3 DEF Enqueue, OnePlace, Queued
  <2>2. ToSet(jobs') = ToSet(jobs) \cup {j} /\ IsInjective(jobs')
    BY <1>1, <2>1, AppendFacts
  <2> QED
    BY <2>2 DEF Queued, ToSet, IsInjective
<1>5. Executing' = Executing /\ finished' = finished /\ running' = running
  BY DEF Enqueue, Executing
<1> QED
  BY <1>2, <1>3, <1>4, <1>5 DEF OnePlace

LEMMA HandedOver ==
    ASSUME TypeOK, OnePlace, NEW j \in Jobs, NEW e \in Executors, Handoff(j, e)
    PROVE  OnePlace'
<1>1. /\ running \in [Executors -> Jobs \cup {NoJob}]
      /\ submit \in [Jobs -> {"idle", "sending", "accepted", "refused"}]
  BY DEF TypeOK
<1>2. j \notin In("accepted") /\ In("accepted")' = In("accepted") \cup {j}
  BY <1>1 DEF Handoff, In
<1>3. j \notin Queued \cup Executing \cup finished
  BY <1>2 DEF OnePlace
<1>4. Executing' = Executing \cup {j}
  BY ExecutorTakes DEF Handoff, Receiving
<1>5. jobs' = jobs /\ finished' = finished /\ running' = [running EXCEPT ![e] = j]
  BY DEF Handoff
<1>6. Queued' = Queued /\ IsInjective(jobs)'
  BY <1>5 DEF Queued, ToSet, IsInjective, OnePlace
<1>7. \A d, f \in Executors :
        d # f /\ running'[d] # NoJob => running'[d] # running'[f]
  <2>1. \A d \in Executors : running[d] # j
    BY <1>3 DEF Executing
  <2> QED
    BY <1>1, <1>5, <2>1 DEF OnePlace
<1> QED
  BY <1>2, <1>3, <1>4, <1>5, <1>6, <1>7 DEF OnePlace

LEMMA Taken ==
    ASSUME TypeOK, OnePlace, NEW e \in Executors, Take(e)
    PROVE  OnePlace'
<1> DEFINE j == Head(jobs)
<1>1. /\ running \in [Executors -> Jobs \cup {NoJob}]
      /\ jobs \in Seq(Jobs) /\ jobs # <<>> /\ IsInjective(jobs)
      /\ jobs' = Tail(jobs) /\ running' = [running EXCEPT ![e] = j]
      /\ running[e] = NoJob /\ finished' = finished /\ submit' = submit
  BY DEF TypeOK, Take, Receiving, Rest, OnePlace
<1>2. /\ j \in Jobs
      /\ ToSet(jobs) = ToSet(Tail(jobs)) \cup {j}
      /\ j \notin ToSet(Tail(jobs)) /\ IsInjective(Tail(jobs))
  BY <1>1, TailFacts
<1> HIDE DEF j
<1>3. Queued' = Queued \ {j} /\ j \in Queued /\ IsInjective(jobs)'
  <2>1. Queued' = ToSet(Tail(jobs))
    BY <1>1 DEF Queued, ToSet
  <2>2. IsInjective(jobs)'
    BY <1>1, <1>2 DEF IsInjective
  <2> QED
    BY <1>2, <2>1, <2>2 DEF Queued
<1>4. Executing' = Executing \cup {j}
  BY <1>1, <1>2, ExecutorTakes
<1>5. In("accepted")' = In("accepted")
  BY <1>1 DEF In
<1>6. j \notin Executing \cup finished
  BY <1>3 DEF OnePlace
<1>7. \A d, f \in Executors :
        d # f /\ running'[d] # NoJob => running'[d] # running'[f]
  <2>1. \A d \in Executors : running[d] # j
    BY <1>2, <1>6 DEF Executing
  <2> QED
    BY <1>1, <2>1 DEF OnePlace
<1> QED
  BY <1>1, <1>3, <1>4, <1>5, <1>6, <1>7 DEF OnePlace

LEMMA Returned ==
    ASSUME TypeOK, OnePlace, NEW e \in Executors, Finish(e)
    PROVE  OnePlace'
<1>1. /\ running \in [Executors -> Jobs \cup {NoJob}]
      /\ jobs' = jobs /\ running' = [running EXCEPT ![e] = NoJob]
      /\ running[e] # NoJob /\ finished' = finished \cup {running[e]}
      /\ submit' = submit
  BY DEF TypeOK, Finish
<1>2. running[e] \in Executing /\ Executing' = Executing \ {running[e]}
  BY <1>1, ExecutorFinishes
<1>3. Queued' = Queued /\ IsInjective(jobs)' /\ In("accepted")' = In("accepted")
  BY <1>1 DEF Queued, ToSet, IsInjective, OnePlace, In
<1>4. \A d, f \in Executors :
        d # f /\ running'[d] # NoJob => running'[d] # running'[f]
  BY <1>1 DEF OnePlace
<1> QED
  BY <1>1, <1>2, <1>3, <1>4 DEF OnePlace

(* No job is lost, run twice, or run although Submit returned an error. *)
THEOREM JobsHaveOnePlace == Spec => []OnePlace
<1>1. Init => OnePlace
  <2> SUFFICES ASSUME Init PROVE OnePlace
    OBVIOUS
  <2>1. In("accepted") = {} /\ finished = {}
    BY DEF Init, In
  <2>2. Executing = {} /\ \A e \in Executors : running[e] = NoJob
    BY PoolAssumption DEF Init, Executing
  <2>3. Queued = {} /\ IsInjective(jobs)
    BY DEF Init, Queued, ToSet, IsInjective
  <2> QED
    BY <2>1, <2>2, <2>3 DEF OnePlace
<1>2. TypeOK /\ OnePlace /\ [Next]_vars => OnePlace'
  <2> SUFFICES ASSUME TypeOK, OnePlace, [Next]_vars PROVE OnePlace'
    OBVIOUS
  <2>0. submit \in [Jobs -> {"idle", "sending", "accepted", "refused"}]
    BY DEF TypeOK
  <2>1. CASE \E j \in Jobs : Enqueue(j)
    BY <2>1, Enqueued
  <2>2. CASE \E j \in Jobs, e \in Executors : Handoff(j, e)
    BY <2>2, HandedOver
  <2>3. CASE \E e \in Executors : Take(e)
    BY <2>3, Taken
  <2>4. CASE \E e \in Executors : Finish(e)
    BY <2>4, Returned
  <2>5. CASE \E j \in Jobs : SubmitCall(j) \/ Refuse(j)
    <3>1. UNCHANGED <<jobs, running, finished>>
      BY <2>5 DEF SubmitCall, Refuse
    <3>2. In("accepted")' = In("accepted")
      BY <2>0, <2>5 DEF SubmitCall, Refuse, In
    <3> QED
      BY <3>1, <3>2, OnePlaceFrame
  <2>6. CASE UNCHANGED <<jobs, running, finished, submit>>
    BY <2>6, OnePlaceFrame DEF In
  <2>7. CASE \/ AddWorker \/ RemoveWorker \/ StopCall \/ StopDrain \/ StopReturn
             \/ \E w \in Workers : Exit(w)
    BY <2>6, <2>7 DEF AddWorker, RemoveWorker, StopCall, StopDrain, StopReturn, Exit, AtSelect
  <2>8. CASE Cancel \/ UNCHANGED vars
    BY <2>6, <2>8 DEF Cancel, vars, poolVars
  <2> QED
    BY <2>1, <2>2, <2>3, <2>4, <2>5, <2>7, <2>8, NextCases
<1> QED
  BY <1>1, <1>2, TypeCorrect, PTL DEF Spec

(* Once Stop was called under the full contract no Submit is in progress,  *)
(* and the channel Stop found empty stays empty. *)
THEOREM StopIsOrdered == Spec => []StopOrder
<1>1. Init => StopOrder
  BY DEF Init, StopOrder, In
<1>2. TypeOK /\ StopOrder /\ [Next]_vars => StopOrder'
  <2> SUFFICES ASSUME TypeOK, StopOrder, [Next]_vars PROVE StopOrder'
    OBVIOUS
  <2>0. submit \in [Jobs -> {"idle", "sending", "accepted", "refused"}]
    BY DEF TypeOK
  <2>1. CASE UNCHANGED <<jobs, stop, submit, stopPc>>
    BY <2>1 DEF StopOrder, In
  <2>2. CASE \/ AddWorker \/ RemoveWorker
             \/ \E w \in Workers : Exit(w)
             \/ \E e \in Executors : Finish(e)
    BY <2>1, <2>2 DEF AddWorker, RemoveWorker, Exit, AtSelect, Finish
  <2>3. CASE Cancel \/ UNCHANGED vars
    BY <2>1, <2>3 DEF Cancel, vars, poolVars
  <2>4. ASSUME NEW j \in Jobs, SubmitCall(j) PROVE StopOrder'
    BY <2>4 DEF SubmitCall, StopOrder
  <2>5. ASSUME NEW j \in Jobs, Enqueue(j) \/ Refuse(j) PROVE StopOrder'
    <3>1. j \in In("sending")
      BY <2>5 DEF Enqueue, Refuse, In
    <3>2. stop' = stop /\ stopPc' = stopPc
      BY <2>5 DEF Enqueue, Refuse
    <3> QED
      BY <3>1, <3>2 DEF StopOrder
  <2>6. ASSUME NEW j \in Jobs, NEW e \in Executors, Handoff(j, e) PROVE StopOrder'
    <3>1. j \in In("sending")
      BY <2>6 DEF Handoff, In
    <3>2. stop' = stop /\ stopPc' = stopPc
      BY <2>6 DEF Handoff
    <3> QED
      BY <3>1, <3>2 DEF StopOrder
  <2>7. ASSUME NEW e \in Executors, Take(e) PROVE StopOrder'
    <3>1. UNCHANGED <<stop, submit, stopPc>> /\ jobs # <<>>
      BY <2>7 DEF Take
    <3> QED
      BY <3>1 DEF StopOrder, In
  <2>8. CASE StopCall
    <3>1. /\ stop' = TRUE /\ stopPc' = "waiting" /\ submit' = submit
          /\ Contract = "closed" => In("sending") = {}
      BY <2>8 DEF StopCall
    <3> QED
      BY <3>1 DEF StopOrder, In
  <2>9. CASE StopDrain
    <3>1. stop' = stop /\ stopPc = "waiting" /\ stopPc' = "draining" /\ submit' = submit
      BY <2>9 DEF StopDrain
    <3> QED
      BY <3>1 DEF StopOrder, In
  <2>10. CASE StopReturn
    <3>1. /\ stop' = stop /\ stopPc = "draining" /\ stopPc' = "returned"
          /\ submit' = submit /\ jobs = <<>> /\ jobs' = jobs
      BY <2>10 DEF StopReturn, Drained
    <3> QED
      BY <3>1 DEF StopOrder, In
  <2> QED
    BY <2>2, <2>3, <2>4, <2>5, <2>6, <2>7, <2>8, <2>9, <2>10, NextCases
<1> QED
  BY <1>1, <1>2, TypeCorrect, PTL DEF Spec

(* A return of Stop leaves nothing in the channel and nobody in Submit: an *)
(* accepted job that has not finished is with a late worker. *)
THEOREM StopSettlesAll == Spec => []StopSettles
<1>1. TypeOK /\ OnePlace /\ ExecutorExists /\ StopOrder => StopSettles
  <2> SUFFICES ASSUME TypeOK, OnePlace, ExecutorExists, StopOrder,
                      Contract = "closed", stopPc = "returned"
               PROVE  /\ In("sending") = {}
                      /\ jobs = <<>>
                      /\ In("accepted") \ finished = {running[w] : w \in alive} \ {NoJob}
    BY DEF StopSettles
  <2>1. In("sending") = {} /\ jobs = <<>>
    BY DEF StopOrder
  <2>2. Queued = {}
    BY <2>1 DEF Queued, ToSet
  <2>3. In("accepted") \ finished = Executing
    BY <2>2 DEF OnePlace
  <2>4. alive \subseteq Executors /\ running \in [Executors -> Jobs \cup {NoJob}]
    BY PoolAssumption DEF TypeOK, Workers, Executors
  <2>5. \A e \in Executors : running[e] # NoJob => e \in alive
    BY DEF ExecutorExists
  <2>6. Executing = {running[w] : w \in alive} \ {NoJob}
    BY <2>4, <2>5, PoolAssumption DEF Executing
  <2> QED
    BY <2>1, <2>3, <2>6
<1> QED
  BY <1>1, TypeCorrect, JobsHaveOnePlace, RunningHasExecutor, StopIsOrdered, PTL

(* Under the full contract the pool implements JobLedger: an accepted job  *)
(* runs exactly once, a refused one never, and nothing follows Stop. *)
THEOREM ImplementsTheLedger ==
    ASSUME Contract = "closed"
    PROVE  Spec => ImplementsLedger
<1> DEFINE Inv == TypeOK /\ OnePlace /\ StopOrder
<1>1. Init => Ledger!Init
  <2> SUFFICES ASSUME Init PROVE Ledger!Init
    OBVIOUS
  <2>1. In("sending") = {} /\ In("refused") = {}
    BY DEF Init, In
  <2>2. Queued = {} /\ finished = {} /\ stopPc # "returned"
    BY DEF Init, Queued, ToSet
  <2>3. Executing = {}
    BY PoolAssumption DEF Init, Executing
  <2> QED
    BY <2>1, <2>2, <2>3 DEF Ledger!Init
<1>2. ASSUME Inv, Inv', [Next]_vars
      PROVE  [Ledger!Next]_(Ledger!vars)
  <2>0. /\ submit \in [Jobs -> {"idle", "sending", "accepted", "refused"}]
        /\ running \in [Executors -> Jobs \cup {NoJob}]
    BY <1>2 DEF TypeOK
  <2> DEFINE Settled == stopPc = "returned"
  <2>1. CASE UNCHANGED <<submit, jobs, running, finished, stopPc>>
    BY <2>1 DEF Ledger!vars, In, Queued, Executing, ToSet
  <2>2. ASSUME NEW j \in Jobs, SubmitCall(j) PROVE Ledger!Offer(j)
    <3>1. /\ submit[j] = "idle" /\ submit' = [submit EXCEPT ![j] = "sending"]
          /\ UNCHANGED <<jobs, running, finished, stopPc>> /\ stopPc # "returned"
      BY <1>2, <2>2 DEF SubmitCall, StopOrder
    <3>2. /\ In("sending")' = In("sending") \cup {j}
          /\ In("refused")' = In("refused")
          /\ j \notin In("sending") \cup In("refused") \cup In("accepted")
      BY <2>0, <3>1 DEF In
    <3>3. j \notin Queued \cup Executing \cup finished
      BY <1>2, <3>2 DEF OnePlace
    <3>4. Queued' = Queued /\ Executing' = Executing
      BY <3>1 DEF Queued, Executing, ToSet
    <3> QED
      BY <3>1, <3>2, <3>3, <3>4 DEF Ledger!Offer, Ledger!Known
  <2>3. ASSUME NEW j \in Jobs, Refuse(j) PROVE Ledger!Refuse(j)
    <3>1. /\ submit[j] = "sending" /\ submit' = [submit EXCEPT ![j] = "refused"]
          /\ UNCHANGED <<jobs, running, finished, stopPc>>
      BY <2>3 DEF Refuse
    <3>2. /\ In("sending")' = In("sending") \ {j} /\ j \in In("sending")
          /\ In("refused")' = In("refused") \cup {j}
      BY <2>0, <3>1 DEF In
    <3>3. Queued' = Queued /\ Executing' = Executing
      BY <3>1 DEF Queued, Executing, ToSet
    <3> QED
      BY <3>1, <3>2, <3>3 DEF Ledger!Refuse
  <2>4. ASSUME NEW j \in Jobs, Enqueue(j) PROVE Ledger!Accept(j)
    <3>1. /\ submit[j] = "sending" /\ submit' = [submit EXCEPT ![j] = "accepted"]
          /\ UNCHANGED <<running, finished, stopPc>> /\ jobs' = Append(jobs, j)
      BY <2>4 DEF Enqueue
    <3>2. /\ In("sending")' = In("sending") \ {j} /\ j \in In("sending")
          /\ In("refused")' = In("refused")
      BY <2>0, <3>1 DEF In
    <3>3. jobs \in Seq(Jobs)
      BY <1>2 DEF TypeOK
    <3>4. ToSet(Append(jobs, j)) = ToSet(jobs) \cup {j}
      BY <3>3, AppendFacts
    <3>5. Queued' = Queued \cup {j}
      BY <3>1, <3>4 DEF Queued, ToSet
    <3>6. Executing' = Executing
      BY <3>1 DEF Executing
    <3> QED
      BY <3>1, <3>2, <3>5, <3>6 DEF Ledger!Accept
  <2>5. ASSUME NEW j \in Jobs, NEW e \in Executors, Handoff(j, e)
        PROVE  Ledger!HandOver(j)
    <3>1. /\ submit[j] = "sending" /\ submit' = [submit EXCEPT ![j] = "accepted"]
          /\ UNCHANGED <<jobs, finished, stopPc>>
          /\ running[e] = NoJob /\ running' = [running EXCEPT ![e] = j]
      BY <2>5 DEF Handoff, Receiving
    <3>2. /\ In("sending")' = In("sending") \ {j} /\ j \in In("sending")
          /\ In("refused")' = In("refused")
      BY <2>0, <3>1 DEF In
    <3>3. Queued' = Queued
      BY <3>1 DEF Queued, ToSet
    <3>4. Executing' = Executing \cup {j}
      BY <1>2, <3>1, ExecutorTakes
    <3> QED
      BY <3>1, <3>2, <3>3, <3>4 DEF Ledger!HandOver
  <2>6. ASSUME NEW e \in Executors, Take(e)
        PROVE  \E j \in Jobs : Ledger!Begin(j)
    <3> DEFINE j == Head(jobs)
    <3>1. /\ UNCHANGED <<submit, finished, stopPc>>
          /\ jobs # <<>> /\ jobs' = Tail(jobs) /\ jobs \in Seq(Jobs) /\ IsInjective(jobs)
          /\ running[e] = NoJob /\ running' = [running EXCEPT ![e] = j]
      BY <1>2, <2>6 DEF Take, Receiving, Rest, TypeOK, OnePlace
    <3>2. /\ j \in Jobs
          /\ ToSet(jobs) = ToSet(Tail(jobs)) \cup {j} /\ j \notin ToSet(Tail(jobs))
      BY <3>1, TailFacts
    <3> HIDE DEF j
    <3>3. Queued' = ToSet(Tail(jobs))
      BY <3>1 DEF Queued, ToSet
    <3>4. Queued' = Queued \ {j} /\ j \in Queued
      BY <3>2, <3>3 DEF Queued
    <3>5. Executing' = Executing \cup {j}
      BY <1>2, <3>1, <3>2, ExecutorTakes
    <3>6. In("sending")' = In("sending") /\ In("refused")' = In("refused")
      BY <3>1 DEF In
    <3> QED
      BY <3>1, <3>2, <3>4, <3>5, <3>6 DEF Ledger!Begin
  <2>7. ASSUME NEW e \in Executors, Finish(e)
        PROVE  \E j \in Jobs : Ledger!End(j)
    <3>1. /\ UNCHANGED <<submit, jobs, stopPc>>
          /\ running[e] # NoJob /\ running' = [running EXCEPT ![e] = NoJob]
          /\ finished' = finished \cup {running[e]} /\ running[e] \in Jobs
      BY <2>0, <2>7 DEF Finish
    <3>2. running[e] \in Executing /\ Executing' = Executing \ {running[e]}
      BY <1>2, <3>1, ExecutorFinishes
    <3>3. /\ In("sending")' = In("sending") /\ In("refused")' = In("refused")
          /\ Queued' = Queued
      BY <3>1 DEF In, Queued, ToSet
    <3> QED
      BY <3>1, <3>2, <3>3 DEF Ledger!End
  <2>8. CASE \/ AddWorker \/ RemoveWorker \/ \E w \in Workers : Exit(w)
    BY <2>1, <2>8 DEF AddWorker, RemoveWorker, Exit, AtSelect
  <2>9. CASE StopCall \/ StopDrain
    <3>1. UNCHANGED <<submit, jobs, running, finished>>
      BY <2>9 DEF StopCall, StopDrain
    <3>2. Settled' = Settled
      BY <2>9 DEF StopCall, StopDrain
    <3> QED
      BY <3>1, <3>2 DEF Ledger!vars, In, Queued, Executing, ToSet
  <2>10. CASE StopReturn
    <3>1. /\ UNCHANGED <<submit, jobs, running, finished>>
          /\ jobs = <<>> /\ stopPc = "draining" /\ stopPc' = "returned"
      BY <2>10 DEF StopReturn, Drained
    <3>2. In("sending") = {} /\ Queued = {}
      BY <1>2, <3>1 DEF StopOrder, Queued, ToSet
    <3>3. /\ In("sending")' = In("sending") /\ In("refused")' = In("refused")
          /\ Queued' = Queued /\ Executing' = Executing
      BY <3>1 DEF In, Queued, Executing, ToSet
    <3> QED
      BY <3>1, <3>2, <3>3 DEF Ledger!Settle, Ledger!Next
  <2>11. CASE Cancel \/ UNCHANGED vars
    BY <2>1, <2>11 DEF Cancel, vars, poolVars
  <2> QED
    BY <2>2, <2>3, <2>4, <2>5, <2>6, <2>7, <2>8, <2>9, <2>10, <2>11, <1>2, NextCases
    DEF Ledger!Next
<1> QED
  BY <1>1, <1>2, TypeCorrect, JobsHaveOnePlace, StopIsOrdered, PTL
  DEF Spec, ImplementsLedger, Ledger!Spec
=============================================================================
