--------------------------- MODULE IngestRun_proofs ---------------------------
(***************************************************************************)
(* Theorems about a run of cmd/ingest, for any files, rows, workers and    *)
(* operators.  The first is that the run keeps the contract of the pool;   *)
(* what WorkerPool_proofs has of the pool then holds here, and the rest    *)
(* builds on that.                                                         *)
(***************************************************************************)
EXTENDS IngestRun, SequenceTheorems, BasicFacts, TLAPS

-----------------------------------------------------------------------------
(* Rows, and the contexts derived from those of the files *)

(* The rows of a file are some of its lines, and no more than these. *)
LEMMA RowsInFacts ==
    ASSUME NEW L, NEW lines \in Seq(L)
    PROVE  RowsIn(lines) \in Seq(L) /\ Len(RowsIn(lines)) <= Len(lines)
<1> DEFINE n == Len(lines)
           V == Seq(L)
           Step == [i \in 1 .. n |->
                      [rows \in V |-> IF IsRow(lines[i]) THEN Append(rows, lines[i]) ELSE rows]]
           Builds(F) == F = [i \in 0 .. n |->
                               IF i = 0 THEN <<>>
                               ELSE IF IsRow(lines[i]) THEN Append(F[i - 1], lines[i])
                               ELSE F[i - 1]]
           U == CHOOSE F : Builds(F)
<1>1. n \in Nat /\ <<>> \in V /\ \A i \in 1 .. n : lines[i] \in L
  OBVIOUS
<1>2. \A rows \in V, line \in L : Append(rows, line) \in V
  OBVIOUS
<1>3. \E F : Builds(F)
  <2>1. \A i \in 1 .. n, rows \in V :
          Step[i][rows] = IF IsRow(lines[i]) THEN Append(rows, lines[i]) ELSE rows
    OBVIOUS
  <2>2. Step \in [1 .. n -> [V -> V]]
    <3> HIDE DEF n, V
    <3> QED BY <1>1, <1>2
  <2> HIDE DEF Step, V, n
  <2> DEFINE none == <<>>
  <2>0. n \in Nat /\ none \in V
    BY <1>1
  <2> HIDE DEF none
  <2>3. PICK F \in [0 .. n -> V] :
          F[0] = none /\ \A i \in 1 .. n : F[i] = Step[i][F[i - 1]]
    BY <2>0, <2>2, StepsAreDefined
  <2>4. \A i \in 0 .. n : F[i] = IF i = 0 THEN <<>>
                                 ELSE IF IsRow(lines[i]) THEN Append(F[i - 1], lines[i])
                                 ELSE F[i - 1]
    <3> SUFFICES ASSUME NEW i \in 0 .. n, i # 0
                 PROVE  F[i] = IF IsRow(lines[i]) THEN Append(F[i - 1], lines[i]) ELSE F[i - 1]
      BY <2>3 DEF none
    <3>1. i \in 1 .. n /\ i - 1 \in 0 .. n
      BY <1>1
    <3>2. F[i] = Step[i][F[i - 1]] /\ F[i - 1] \in V
      BY <2>3, <3>1
    <3> QED BY <2>1, <3>1, <3>2
  <2>5. F = [i \in 0 .. n |-> F[i]]
    OBVIOUS
  <2>6. Builds(F)
    BY <2>4, <2>5
  <2> QED BY <2>6
<1>4. RowsIn(lines) = U[n]
  BY DEF RowsIn
<1>5. Builds(U)
  <2> HIDE DEF Builds
  <2> QED BY <1>3
<1>6. U[0] = <<>> /\ \A i \in 1 .. n : U[i] = IF IsRow(lines[i]) THEN Append(U[i - 1], lines[i])
                                             ELSE U[i - 1]
  <2> DEFINE B == [i \in 0 .. n |-> IF i = 0 THEN <<>>
                                   ELSE IF IsRow(lines[i]) THEN Append(U[i - 1], lines[i])
                                   ELSE U[i - 1]]
  <2> HIDE DEF U, n
  <2>1. \A i \in 0 .. n : B[i] = IF i = 0 THEN <<>>
                                 ELSE IF IsRow(lines[i]) THEN Append(U[i - 1], lines[i])
                                 ELSE U[i - 1]
    OBVIOUS
  <2>2. U = B
    BY <1>5, Zenon
  <2> HIDE DEF B, Builds
  <2>3. 0 \in 0 .. n /\ \A i \in 1 .. n : i \in 0 .. n /\ i # 0
    BY <1>1
  <2> QED BY <2>1, <2>2, <2>3, Zenon
<1> HIDE DEF U, Builds, Step, n
<1> DEFINE G == {k \in Nat : k <= n => U[k] \in V /\ Len(U[k]) <= k}
<1>7. 0 \in G
  <2>1. U[0] \in V /\ Len(U[0]) = 0
    BY <1>1, <1>6
  <2> QED BY <2>1
<1>8. ASSUME NEW k \in Nat, k \in G PROVE k + 1 \in G
  <2> SUFFICES ASSUME k + 1 <= n PROVE U[k + 1] \in V /\ Len(U[k + 1]) <= k + 1
    OBVIOUS
  <2>1. k + 1 \in 1 .. n /\ (k + 1) - 1 = k /\ U[k] \in V /\ Len(U[k]) <= k
    BY <1>1, <1>8
  <2>2. U[k + 1] = IF IsRow(lines[k + 1]) THEN Append(U[k], lines[k + 1]) ELSE U[k]
    BY <1>6, <2>1
  <2>3. lines[k + 1] \in L /\ Len(U[k]) \in Nat
    BY <1>1, <2>1
  <2> DEFINE rows == U[k]
             line == lines[k + 1]
  <2> HIDE DEF rows, line
  <2>4. Append(rows, line) \in V /\ Len(Append(rows, line)) = Len(rows) + 1
    BY <2>1, <2>3 DEF rows, line
  <2> QED BY <2>1, <2>2, <2>3, <2>4 DEF rows, line
<1>9. n \in G
  <2> HIDE DEF G
  <2> QED BY <1>1, <1>7, <1>8, CountInduction
<1> QED
  BY <1>1, <1>4, <1>9 DEF n

LEMMA TextFacts ==
    ASSUME NEW f \in Files
    PROVE  /\ DataLines[f] \in Nat /\ Len(Rows[f]) \in Nat
           /\ f \notin BadHeader => Len(Rows[f]) <= DataLines[f]
<1>1. DataLines[f] = Len(Text[f]) /\ Len(Text[f]) \in Nat
  BY IngestAssumption DEF DataLines
<1>2. CASE f \in BadHeader
  BY <1>1, <1>2 DEF Rows
<1>3. CASE f \notin BadHeader
  <2>1. Rows[f] = RowsIn(Text[f])
    BY <1>3 DEF Rows
  <2> DEFINE L == Range(Text[f])
             lines == Text[f]
  <2>2. lines \in Seq(L)
    BY IngestAssumption
  <2> HIDE DEF L, lines
  <2>3. RowsIn(lines) \in Seq(L) /\ Len(RowsIn(lines)) <= Len(lines)
    BY <2>2, RowsInFacts
  <2>4. Len(RowsIn(lines)) \in Nat
    BY <2>3
  <2> QED BY <1>1, <2>1, <2>3, <2>4 DEF lines
<1> QED
  BY <1>2, <1>3

LEMMA RowFacts ==
    ASSUME NEW r \in GoodRows
    PROVE  FileOf(r) \in Files /\ r \in RowsOf(FileOf(r)) /\ r # NoRow
BY IngestAssumption DEF GoodRows, RowIds, FileOf, RowsOf

LEMMA RowsOfFacts ==
    ASSUME NEW f \in Files, NEW r \in RowsOf(f)
    PROVE  /\ r \in GoodRows /\ FileOf(r) = f /\ Email(r) # Bad
           /\ r[2] \in 1 .. Len(Rows[f]) /\ r = <<f, r[2]>>
BY IngestAssumption DEF RowsOf, GoodRows, RowIds, FileOf

LEMMA CurrentFacts ==
    ASSUME NEW f \in Files, pos[f] \in 1 .. Len(Rows[f]), Email(Current(f)) # Bad
    PROVE  Current(f) \in GoodRows /\ FileOf(Current(f)) = f
<1>1. FileOf(Current(f)) = f
  BY DEF FileOf, Current
<1>2. Current(f) \in {f} \X (1 .. Len(Rows[f]))
  BY DEF Current
<1>3. Current(f) \in RowIds
  BY <1>2 DEF RowIds
<1> QED
  BY <1>1, <1>3 DEF GoodRows

DoneRows == {r \in GoodRows : FctxDone(FileOf(r))}

Places == {"start", "gate", "reply", "open", "recv", "submit", "wait", "after",
           "publish", "leave", "done"}

(* The control of the run, as far as the pool's contract depends on it. *)
Control ==
    /\ main \in {"start", "run", "stop", "done"}
    /\ pc \in [Files -> Places]
    /\ src \in [Files -> {"off", "loop", "send", "fail", "closed"}]
    /\ pos \in [Files -> Nat]
    /\ \A f \in Files : pos[f] <= Len(Rows[f]) /\ (src[f] = "send" => pos[f] >= 1)
    /\ submit \in [GoodRows -> {"idle", "sending", "accepted", "refused"}]

(* main stops the pool when every file is done, and a file is inside       *)
(* Submit with one row at most. *)
Discipline ==
    /\ stop => main \in {"stop", "done"}
    /\ main \in {"stop", "done"} => AllFilesDone
    /\ \A r \in GoodRows : submit[r] = "sending" => pc[FileOf(r)] = "submit"
    /\ \A r, s \in GoodRows :
         submit[r] = "sending" /\ submit[s] = "sending" /\ FileOf(r) = FileOf(s) => r = s

(* The steps of a run, in groups that leave the same things alone. *)
Quiet(f) ==
    \/ Register(f)
    \/ GateFree(f) \/ GateCharge(f) \/ GateReply(f) \/ GateSkip(f)
    \/ Open(f) \/ OpenFails(f) \/ ReceiveBad(f)
    \/ EndOfStream(f) \/ Wait(f) \/ After(f) \/ Publish(f)

Submits(f) ==
    \/ SubmitQueued(f) \/ SubmitRefused(f)
    \/ \E e \in Executors : SubmitHandedOver(f, e)

Settles(e) ==
    CancelCheck(e) \/ Duplicate(e) \/ AddIfNew(e) \/ Processed(e) \/ ProcessCancelled(e)

Resizes ==
    StartWorker \/ ReplAdd \/ ReplRemove \/ \E w \in 1 .. MaxWorkers : ExitWorker(w)

Cancels == Interrupt \/ \E n \in Names : CancelFile(n)

LEMMA Steps ==
    ASSUME [Next]_vars
    PROVE  \/ \E f \in Files : Quiet(f) \/ Leave(f) \/ ReadFile(f)
           \/ \E f \in Files : Receive(f) \/ Submits(f)
           \/ \E e \in Executors : TakeRow(e) \/ Settles(e) \/ Release(e)
           \/ Resizes \/ Cancels
           \/ StartRun \/ StopPool \/ Drain \/ Summary
           \/ UNCHANGED vars
BY DEF Next, Operator, Main, RunFile, ReadFile, Chain, Quiet, Submits, Settles, Resizes,
       Cancels

(* What the steps of a file do to its place. *)
LEMMA QuietSteps ==
    ASSUME Control, NEW f \in Files, Quiet(f)
    PROVE  /\ UNCHANGED <<poolVars, rootDone, main, cancelled, pos, wg, stage, seen,
                          outcome, handled>>
           /\ pc[f] \notin {"submit", "leave", "done"}
           /\ \E w \in Places \ {"submit", "done"} : pc' = [pc EXCEPT ![f] = w]
           /\ \E w \in {"loop", src[f]} : src' = [src EXCEPT ![f] = w]
<1> USE DEF Control, Places, Goto, poolVars, chainVars, fileVars
<1>1. CASE Register(f)
  BY <1>1 DEF Register
<1>2. CASE GateFree(f) \/ GateCharge(f) \/ GateReply(f) \/ GateSkip(f)
  BY <1>2 DEF GateFree, GateCharge, GateReply, GateSkip
<1>3. CASE Open(f) \/ OpenFails(f)
  BY <1>3 DEF Open, OpenFails
<1>4. CASE ReceiveBad(f)
  <2>1. pc[f] = "recv" /\ pc' = pc /\ src' = [src EXCEPT ![f] = "loop"]
    BY <1>4 DEF ReceiveBad, Receiving
  <2>2. pc' = [pc EXCEPT ![f] = "recv"]
    BY <2>1
  <2> QED
    BY <1>4, <2>1, <2>2 DEF ReceiveBad
<1>5. CASE EndOfStream(f) \/ Wait(f) \/ After(f) \/ Publish(f)
  BY <1>5 DEF EndOfStream, Wait, After, Publish
<1> QED
  BY <1>1, <1>2, <1>3, <1>4, <1>5 DEF Quiet

LEMMA LeaveSteps ==
    ASSUME Control, NEW f \in Files, Leave(f)
    PROVE  /\ UNCHANGED <<poolVars, rootDone, main, cancelled, src, pos, wg, stage, seen,
                          outcome, handled>>
           /\ pc[f] = "leave" /\ pc' = [pc EXCEPT ![f] = "done"]
BY DEF Leave, Goto, poolVars, chainVars

LEMMA ReadSteps ==
    ASSUME Control, NEW f \in Files, ReadFile(f)
    PROVE  /\ UNCHANGED <<poolVars, rootDone, main, pc, cancelled, wg, stage, seen, outcome,
                          handled>>
           /\ \/ Read(f)
              \/ /\ pos' = pos
                 /\ \E w \in {"fail", "closed"} : src' = [src EXCEPT ![f] = w]
BY DEF ReadFile, Read, ReadFails, Close, poolVars, chainVars

(* The steps that nothing below depends on in detail. *)
LEMMA OtherSteps ==
    ASSUME \/ Resizes \/ Cancels
           \/ StartRun \/ StopPool \/ Drain \/ Summary
           \/ UNCHANGED vars
    PROVE  /\ UNCHANGED <<submit, running, finished, pc, src, pos, wg, stage, seen,
                          outcome, handled>>
<1> USE DEF poolVars, chainVars, fileVars
<1>1. CASE Resizes
  BY <1>1 DEF Resizes, StartWorker, ReplAdd, ReplRemove, ExitWorker, Pool!AddWorker,
     Pool!RemoveWorker, Pool!Exit
<1>2. CASE Cancels
  BY <1>2 DEF Cancels, Interrupt, CancelFile
<1>3. CASE StartRun \/ StopPool \/ Drain \/ Summary
  BY <1>3 DEF StartRun, StopPool, Drain, Summary, Pool!StopCall, Pool!StopDrain,
     Pool!StopReturn
<1>4. CASE UNCHANGED vars
  BY <1>4 DEF vars
<1> QED
  BY <1>1, <1>2, <1>3, <1>4

-----------------------------------------------------------------------------
(* The run uses the pool under its full contract. *)

(* What a step does to the contexts. *)
LEMMA ContextsKept ==
    ASSUME Control, UNCHANGED <<rootDone, cancelled>>,
           \/ pc' = pc
           \/ \E f \in Files, w \in Places \ {"done"} :
                pc[f] # "done" /\ pc' = [pc EXCEPT ![f] = w]
    PROVE  DoneRows' = DoneRows
<1>1. \A f \in Files : pc'[f] = "done" <=> pc[f] = "done"
  BY DEF Control
<1>2. \A r \in GoodRows : FctxDone(FileOf(r))' <=> FctxDone(FileOf(r))
  BY <1>1, RowFacts DEF FctxDone
<1> QED
  BY <1>2 DEF DoneRows

LEMMA ContextsGrow ==
    ASSUME Control, rootDone' \in {rootDone, TRUE}, cancelled \subseteq cancelled',
           \/ pc' = pc
           \/ \E f \in Files, w \in Places : pc[f] # "done" /\ pc' = [pc EXCEPT ![f] = w]
    PROVE  DoneRows \subseteq DoneRows'
<1>1. \A f \in Files : pc[f] = "done" => pc'[f] = "done"
  BY DEF Control
<1>2. \A r \in GoodRows : FctxDone(FileOf(r)) => FctxDone(FileOf(r))'
  BY <1>1, RowFacts DEF FctxDone
<1> QED
  BY <1>2 DEF DoneRows

LEMMA ControlInit == Init => Control /\ Discipline
<1> SUFFICES ASSUME Init PROVE Control /\ Discipline
  OBVIOUS
<1>1. Control
  BY IngestAssumption DEF Init, Control, Places, Pool!Init
<1>2. Discipline
  BY <1>1 DEF Init, Control, Discipline, Pool!Init
<1> QED
  BY <1>1, <1>2

(* What Receive and the returns of Submit do. *)
LEMMA ReceiveSteps ==
    ASSUME Control, NEW f \in Files, Receive(f)
    PROVE  /\ Current(f) \in GoodRows /\ FileOf(Current(f)) = f
           /\ submit[Current(f)] = "idle"
           /\ submit' = [submit EXCEPT ![Current(f)] = "sending"]
           /\ pc[f] = "recv" /\ pc' = [pc EXCEPT ![f] = "submit"]
           /\ src[f] = "send" /\ src' = [src EXCEPT ![f] = "loop"]
           /\ wg' = [wg EXCEPT ![f] = @ + 1]
           /\ UNCHANGED <<workers, nextID, alive, quit, running, jobs, stop, stopPc,
                          finished, rootDone, main, cancelled, pos, chainVars>>
<1>1. pos[f] \in 1 .. Len(Rows[f]) /\ Email(Current(f)) # Bad
  BY IngestAssumption DEF Control, Receive, Receiving
<1> QED
  BY <1>1, CurrentFacts DEF Receive, Receiving, Goto, Added, Pool!SubmitCall

LEMMA SubmitSteps ==
    ASSUME Control, NEW f \in Files, Submits(f)
    PROVE  /\ pc[f] = "submit" /\ pc' = [pc EXCEPT ![f] = "recv"]
           /\ UNCHANGED <<workers, nextID, alive, quit, stop, stopPc, finished,
                          rootDone, main, src, pos, cancelled, seen, outcome, handled>>
           /\ \E r \in GoodRows :
                /\ FileOf(r) = f /\ submit[r] = "sending"
                /\ \/ /\ SubmitRefused(f)
                      /\ Pool!Refuse(r) /\ wg' = [wg EXCEPT ![f] = @ - 1]
                      /\ submit' = [submit EXCEPT ![r] = "refused"]
                      /\ UNCHANGED <<running, stage>>
                   \/ /\ Pool!Enqueue(r) /\ wg' = wg
                      /\ submit' = [submit EXCEPT ![r] = "accepted"]
                      /\ UNCHANGED <<running, stage>>
                   \/ /\ wg' = wg
                      /\ submit' = [submit EXCEPT ![r] = "accepted"]
                      /\ \E e \in Executors :
                           /\ Pool!Handoff(r, e)
                           /\ running' = [running EXCEPT ![e] = r]
                           /\ stage' = [stage EXCEPT ![e] = "begin"]
<1> USE DEF Submitting, RowsOf, Goto, chainVars
<1>1. CASE SubmitQueued(f)
  BY <1>1 DEF SubmitQueued, Pool!Enqueue
<1>2. CASE SubmitRefused(f)
  BY <1>2 DEF SubmitRefused, Pool!Refuse, Dropped
<1>3. CASE \E e \in Executors : SubmitHandedOver(f, e)
  BY <1>3 DEF SubmitHandedOver, Pool!Handoff
<1> QED
  BY <1>1, <1>2, <1>3 DEF Submits

LEMMA ControlStep ==
    ASSUME Control, Discipline, [Next]_vars PROVE Control' /\ Discipline'
<1> USE IngestAssumption
<1>1. ASSUME NEW f \in Files, Quiet(f) PROVE Control' /\ Discipline'
  <2>1. /\ UNCHANGED <<stop, submit, main, pos>>
        /\ pc[f] \notin {"submit", "leave", "done"}
        /\ \E w \in Places \ {"submit", "done"} : pc' = [pc EXCEPT ![f] = w]
        /\ \E w \in {"loop", src[f]} : src' = [src EXCEPT ![f] = w]
    BY <1>1, QuietSteps DEF poolVars
  <2>2. Control'
    BY <2>1 DEF Control
  <2>3. ~ AllFilesDone
    BY <2>1 DEF AllFilesDone
  <2>4. \A g \in Files : pc[g] = "submit" => pc'[g] = "submit"
    BY <2>1 DEF Control
  <2> QED
    BY <2>1, <2>2, <2>3, <2>4, RowFacts DEF Discipline
<1>2. ASSUME NEW f \in Files, Leave(f) PROVE Control' /\ Discipline'
  <2>1. /\ UNCHANGED <<stop, submit, main, pos, src>>
        /\ pc[f] = "leave" /\ pc' = [pc EXCEPT ![f] = "done"]
    BY <1>2, LeaveSteps DEF poolVars
  <2>2. Control'
    BY <2>1 DEF Control, Places
  <2>3. ~ AllFilesDone
    BY <2>1 DEF AllFilesDone
  <2>4. \A g \in Files : pc[g] = "submit" => pc'[g] = "submit"
    BY <2>1 DEF Control
  <2> QED
    BY <2>1, <2>2, <2>3, <2>4, RowFacts DEF Discipline
<1>3. ASSUME NEW f \in Files, ReadFile(f) PROVE Control' /\ Discipline'
  <2>1. /\ UNCHANGED <<stop, submit, main, pc>>
        /\ \/ Read(f)
           \/ pos' = pos /\ \E w \in {"fail", "closed"} : src' = [src EXCEPT ![f] = w]
    BY <1>3, ReadSteps DEF poolVars
  <2>2. CASE Read(f)
    <3>1. pos[f] # Len(Rows[f]) /\ pos' = [pos EXCEPT ![f] = @ + 1]
          /\ src' = [src EXCEPT ![f] = "send"]
      BY <2>2 DEF Read, AtEnd
    <3>2. Control'
      BY <2>1, <3>1 DEF Control
    <3> QED
      BY <2>1, <3>2 DEF Discipline, AllFilesDone
  <2>3. CASE pos' = pos /\ \E w \in {"fail", "closed"} : src' = [src EXCEPT ![f] = w]
    <3>1. Control'
      BY <2>1, <2>3 DEF Control
    <3> QED
      BY <2>1, <3>1 DEF Discipline, AllFilesDone
  <2> QED
    BY <2>1, <2>2, <2>3
<1>4. ASSUME NEW f \in Files, Receive(f) PROVE Control' /\ Discipline'
  <2> DEFINE c == Current(f)
  <2>1. /\ c \in GoodRows /\ FileOf(c) = f
        /\ submit' = [submit EXCEPT ![c] = "sending"]
        /\ pc[f] = "recv" /\ pc' = [pc EXCEPT ![f] = "submit"]
        /\ src' = [src EXCEPT ![f] = "loop"]
        /\ UNCHANGED <<stop, main, pos>>
    BY <1>4, ReceiveSteps
  <2> HIDE DEF c
  <2>2. Control'
    BY <2>1 DEF Control, Places
  <2>3. ~ AllFilesDone
    BY <2>1 DEF AllFilesDone
  <2>4. \A r \in GoodRows : submit[r] = "sending" => FileOf(r) # f
    BY <2>1 DEF Discipline
  <2> QED
    BY <2>1, <2>2, <2>3, <2>4, RowFacts DEF Control, Discipline
<1>5. ASSUME NEW f \in Files, Submits(f) PROVE Control' /\ Discipline'
  <2>1. /\ pc[f] = "submit" /\ pc' = [pc EXCEPT ![f] = "recv"]
        /\ UNCHANGED <<stop, main, src, pos>>
        /\ \E r \in GoodRows :
             /\ FileOf(r) = f /\ submit[r] = "sending"
             /\ \E w \in {"refused", "accepted"} : submit' = [submit EXCEPT ![r] = w]
    BY <1>5, SubmitSteps
  <2>2. Control'
    BY <2>1 DEF Control, Places
  <2>3. ~ AllFilesDone
    BY <2>1 DEF AllFilesDone
  <2>4. \A r \in GoodRows : submit'[r] = "sending" => submit[r] = "sending" /\ FileOf(r) # f
    BY <2>1 DEF Control, Discipline
  <2> QED
    BY <2>1, <2>2, <2>3, <2>4, RowFacts DEF Control, Discipline
<1>6. ASSUME NEW e \in Executors, TakeRow(e) \/ Settles(e) \/ Release(e)
      PROVE Control' /\ Discipline'
  <2>1. UNCHANGED <<stop, submit, main, pc, src, pos>>
    BY <1>6 DEF TakeRow, Settles, Release, Pool!Take, Pool!Finish, CancelCheck, Duplicate,
       AddIfNew, Processed, ProcessCancelled, poolVars, fileVars
  <2> QED
    BY <2>1 DEF Control, Discipline, AllFilesDone
<1>7. CASE \/ Resizes \/ Cancels \/ StartRun \/ StopPool \/ Drain \/ Summary
           \/ UNCHANGED vars
  <2>1. UNCHANGED <<submit, pc, src, pos>>
    BY <1>7, OtherSteps
  <2>2. /\ \/ main' = main
           \/ main' = "run" /\ main = "start" /\ stop' = stop
           \/ main' = "stop" /\ AllFilesDone
           \/ main' = "done" /\ main = "stop"
        /\ stop' = stop \/ (stop' = TRUE /\ main' = "stop")
    <3>1. CASE Resizes
      BY <3>1 DEF Resizes, StartWorker, ReplAdd, ReplRemove, ExitWorker, Pool!AddWorker,
         Pool!RemoveWorker, Pool!Exit
    <3>2. CASE Cancels \/ StartRun \/ UNCHANGED vars
      BY <3>2 DEF Cancels, Interrupt, CancelFile, StartRun, vars, poolVars
    <3>3. CASE StopPool \/ Drain \/ Summary
      BY <3>3 DEF StopPool, Drain, Summary, Pool!StopCall, Pool!StopDrain, Pool!StopReturn
    <3> QED
      BY <1>7, <3>1, <3>2, <3>3
  <2>3. Control'
    BY <2>1, <2>2 DEF Control
  <2> QED
    BY <2>1, <2>2, <2>3 DEF Control, Discipline, AllFilesDone
<1> QED
  BY <1>1, <1>2, <1>3, <1>4, <1>5, <1>6, <1>7, Steps

LEMMA ControlHolds == Spec => [](Control /\ Discipline)
BY ControlInit, ControlStep, PTL DEF Spec

(* A step of the run that only ends contexts is the pool's environment. *)
LEMMA IsCancel ==
    ASSUME UNCHANGED poolVars, rootDone' \in {rootDone, TRUE}, DoneRows \subseteq DoneRows'
    PROVE  Contracted!Cancel
<1>1. DoneRows' \in SUBSET GoodRows /\ DoneRows' = DoneRows \cup DoneRows'
  BY DEF DoneRows
<1>2. \E js \in SUBSET GoodRows : DoneRows' = DoneRows \cup js
  BY <1>1
<1> QED
  BY <1>2 DEF Contracted!Cancel, Contracted!poolVars, poolVars, DoneRows

LEMMA PoolStep ==
    ASSUME Control, Discipline, [Next]_vars
    PROVE  [Contracted!Next]_(Contracted!vars)
<1> DEFINE Kept == rootDone' = rootDone /\ DoneRows' = DoneRows
<1>1. ASSUME NEW f \in Files, Quiet(f) \/ Leave(f) \/ ReadFile(f)
      PROVE Contracted!Cancel
  <2>1. /\ UNCHANGED <<poolVars, rootDone, cancelled>>
        /\ \/ pc' = pc
           \/ \E w \in Places : pc[f] # "done" /\ pc' = [pc EXCEPT ![f] = w]
    BY <1>1, QuietSteps, LeaveSteps, ReadSteps DEF Places
  <2> QED
    BY <2>1, ContextsGrow, IsCancel
<1>2. ASSUME NEW f \in Files, Receive(f) PROVE Contracted!PoolNext /\ Kept
  <2>1. /\ Current(f) \in GoodRows /\ pc[f] = "recv"
        /\ pc' = [pc EXCEPT ![f] = "submit"]
        /\ UNCHANGED <<rootDone, cancelled>>
    BY <1>2, ReceiveSteps
  <2>2. Kept
    BY <2>1, ContextsKept DEF Places
  <2>3. ~ stop
    BY <2>1 DEF Discipline, AllFilesDone
  <2>4. Contracted!SubmitCall(Current(f))
    BY <1>2, <2>3 DEF Receive, Pool!SubmitCall, Contracted!SubmitCall
  <2> QED
    BY <2>1, <2>2, <2>4 DEF Contracted!PoolNext
<1>3. ASSUME NEW f \in Files, Submits(f) PROVE Contracted!PoolNext /\ Kept
  <2>1. /\ pc[f] = "submit" /\ pc' = [pc EXCEPT ![f] = "recv"]
        /\ UNCHANGED <<rootDone, cancelled>>
        /\ \E r \in GoodRows :
             Pool!Refuse(r) \/ Pool!Enqueue(r) \/ \E e \in Executors : Pool!Handoff(r, e)
    BY <1>3, SubmitSteps
  <2>2. Kept
    BY <2>1, ContextsKept DEF Places
  <2>3. ASSUME NEW r \in GoodRows, Pool!Refuse(r) PROVE Contracted!Refuse(r)
    BY <2>3 DEF Pool!Refuse, Contracted!Refuse, Pool!RefuseCause, Contracted!RefuseCause
  <2>4. ASSUME NEW r \in GoodRows, Pool!Enqueue(r) PROVE Contracted!Enqueue(r)
    BY <2>4 DEF Pool!Enqueue, Contracted!Enqueue
  <2>5. ASSUME NEW r \in GoodRows, NEW e \in Executors, Pool!Handoff(r, e)
        PROVE  Contracted!Handoff(r, e)
    BY <2>5 DEF Pool!Handoff, Contracted!Handoff, Pool!Receiving, Contracted!Receiving
  <2> QED
    BY <2>1, <2>2, <2>3, <2>4, <2>5 DEF Contracted!PoolNext, Contracted!Executors, Executors
<1>4. ASSUME NEW e \in Executors, TakeRow(e) \/ Release(e)
      PROVE  Contracted!PoolNext /\ Kept
  <2>1. UNCHANGED <<rootDone, cancelled, pc>>
    BY <1>4 DEF TakeRow, Release, fileVars
  <2>2. Kept
    BY <2>1, ContextsKept
  <2>3. Contracted!Take(e) \/ Contracted!Finish(e)
    BY <1>4 DEF TakeRow, Release, Pool!Take, Contracted!Take, Pool!Receiving,
       Contracted!Receiving, Pool!Rest, Contracted!Rest, Pool!Finish, Contracted!Finish
  <2> QED
    BY <2>2, <2>3 DEF Contracted!PoolNext, Contracted!Executors, Executors
<1>5. ASSUME NEW e \in Executors, Settles(e) PROVE Contracted!Cancel
  <2>1. UNCHANGED <<poolVars, rootDone, cancelled, pc>>
    BY <1>5 DEF Settles, CancelCheck, Duplicate, AddIfNew, Processed, ProcessCancelled,
       fileVars
  <2> QED
    BY <2>1, ContextsGrow, IsCancel
<1>6. CASE Resizes
  <2>1. UNCHANGED <<rootDone, cancelled, pc>>
    BY <1>6 DEF Resizes, StartWorker, ReplAdd, ReplRemove, ExitWorker, fileVars
  <2>2. Kept
    BY <2>1, ContextsKept
  <2>3. StartWorker \/ ReplAdd => Contracted!AddWorker
    BY DEF StartWorker, ReplAdd, Pool!AddWorker, Contracted!AddWorker, Pool!NewID,
       Contracted!NewID
  <2>4. ReplRemove => Contracted!RemoveWorker
    BY DEF ReplRemove, Pool!RemoveWorker, Contracted!RemoveWorker, Pool!Popped,
       Contracted!Popped, Pool!Signalled, Contracted!Signalled, Pool!Last,
       Contracted!Last, Pool!Front, Contracted!Front
  <2>5. ASSUME NEW w \in 1 .. MaxWorkers, ExitWorker(w) PROVE Contracted!Exit(w)
    BY <2>5 DEF ExitWorker, Pool!Exit, Contracted!Exit, Pool!AtSelect, Contracted!AtSelect,
       Pool!ExitCause, Contracted!ExitCause
  <2>6. Contracted!PoolNext /\ Kept
    BY <1>6, <2>2, <2>3, <2>4, <2>5 DEF Resizes, Contracted!PoolNext, Contracted!Workers
  <2> QED
    BY <2>6 DEF Contracted!Next, Contracted!envVars, DoneRows
<1>7. CASE Cancels \/ StartRun \/ UNCHANGED vars
  <2>1. /\ UNCHANGED <<poolVars, pc>>
        /\ rootDone' \in {rootDone, TRUE} /\ cancelled \subseteq cancelled'
    BY <1>7 DEF Cancels, Interrupt, CancelFile, StartRun, vars, fileVars
  <2>2. Contracted!Cancel
    BY <2>1, ContextsGrow, IsCancel
  <2> QED
    BY <2>2 DEF Contracted!Next
<1>8. CASE StopPool \/ Drain \/ Summary
  <2>1. UNCHANGED <<rootDone, cancelled, pc>>
    BY <1>8 DEF StopPool, Drain, Summary, fileVars
  <2>2. Kept
    BY <2>1, ContextsKept
  <2>3. ASSUME StopPool PROVE Contracted!StopCall
    <3>1. \A r \in GoodRows : submit[r] # "sending"
      BY <2>3, RowFacts DEF StopPool, AllFilesDone, Discipline
    <3>2. Contracted!In("sending") = {}
      BY <3>1 DEF Contracted!In
    <3> QED
      BY <2>3, <3>2 DEF StopPool, Pool!StopCall, Contracted!StopCall
  <2>4. Drain => Contracted!StopDrain
    BY DEF Drain, Pool!StopDrain, Contracted!StopDrain, Pool!AllExited,
       Contracted!AllExited
  <2>5. Summary => Contracted!StopReturn
    BY DEF Summary, Pool!StopReturn, Contracted!StopReturn, Pool!Drained,
       Contracted!Drained
  <2>6. Contracted!PoolNext /\ Kept
    BY <1>8, <2>3, <2>4, <2>5, <2>2 DEF Contracted!PoolNext
  <2> QED
    BY <2>6 DEF Contracted!Next, Contracted!envVars, DoneRows
<1> QED
  BY <1>1, <1>2, <1>3, <1>4, <1>5, <1>6, <1>7, <1>8, Steps
  DEF Contracted!Next, Contracted!envVars, DoneRows

(* cmd/ingest keeps the contract of Stop (pool.go:148-150): in every run   *)
(* the pool is used as WorkerPool describes it under the full contract.    *)
THEOREM KeepsTheContract == Spec => KeepsStopContract
<1>1. Init => Contracted!Init
  BY DEF Init, Pool!Init, Contracted!Init, Pool!Executors, Contracted!Executors
<1>2. Control /\ Discipline /\ [Next]_vars => [Contracted!Next]_(Contracted!vars)
  BY PoolStep
<1> QED
  BY <1>1, <1>2, ControlHolds, PTL DEF Spec, KeepsStopContract, Contracted!Spec

-----------------------------------------------------------------------------
(* What is proved of the pool, for the pool of this run *)

PoolProofs == INSTANCE WorkerPool_proofs WITH
    Jobs <- GoodRows, NoJob <- NoRow, Contract <- "closed",
    ctxDone <- {r \in GoodRows : FctxDone(FileOf(r))}

LEMMA PoolIsKnown == PoolProofs!PoolAssumption
BY IngestAssumption DEF PoolProofs!PoolAssumption, GoodRows

LEMMA PoolSpecHolds == Spec => PoolProofs!Spec
<1>1. Init => PoolProofs!Init
  BY DEF Init, Pool!Init, PoolProofs!Init, Pool!Executors, PoolProofs!Executors
<1>2. Contracted!Next => PoolProofs!Next
  <2> USE DEF Contracted!Executors, PoolProofs!Executors
  <2>1. Contracted!Cancel => PoolProofs!Cancel
    BY DEF Contracted!Cancel, PoolProofs!Cancel, Contracted!poolVars, PoolProofs!poolVars
  <2>2. Contracted!AddWorker => PoolProofs!AddWorker
    BY DEF Contracted!AddWorker, PoolProofs!AddWorker, Contracted!NewID, PoolProofs!NewID
  <2>3. Contracted!RemoveWorker => PoolProofs!RemoveWorker
    BY DEF Contracted!RemoveWorker, PoolProofs!RemoveWorker, Contracted!Popped,
       PoolProofs!Popped, Contracted!Signalled, PoolProofs!Signalled, Contracted!Last,
       PoolProofs!Last, Contracted!Front, PoolProofs!Front
  <2>4. ASSUME NEW j \in GoodRows
        PROVE  /\ Contracted!SubmitCall(j) => PoolProofs!SubmitCall(j)
               /\ Contracted!Enqueue(j) => PoolProofs!Enqueue(j)
               /\ Contracted!Refuse(j) => PoolProofs!Refuse(j)
    BY DEF Contracted!SubmitCall, PoolProofs!SubmitCall, Contracted!Enqueue,
       PoolProofs!Enqueue, Contracted!Refuse, PoolProofs!Refuse,
       Contracted!RefuseCause, PoolProofs!RefuseCause
  <2>5. ASSUME NEW e \in Executors
        PROVE  /\ \A j \in GoodRows : Contracted!Handoff(j, e) => PoolProofs!Handoff(j, e)
               /\ Contracted!Take(e) => PoolProofs!Take(e)
               /\ Contracted!Finish(e) => PoolProofs!Finish(e)
    BY DEF Contracted!Handoff, PoolProofs!Handoff, Contracted!Take, PoolProofs!Take,
       Contracted!Receiving, PoolProofs!Receiving, Contracted!Rest, PoolProofs!Rest,
       Contracted!Finish, PoolProofs!Finish
  <2>6. ASSUME NEW w PROVE Contracted!Exit(w) => PoolProofs!Exit(w)
    BY DEF Contracted!Exit, PoolProofs!Exit, Contracted!AtSelect, PoolProofs!AtSelect,
       Contracted!ExitCause, PoolProofs!ExitCause
  <2>7. /\ Contracted!StopCall => PoolProofs!StopCall
        /\ Contracted!StopDrain => PoolProofs!StopDrain
        /\ Contracted!StopReturn => PoolProofs!StopReturn
    BY DEF Contracted!StopCall, PoolProofs!StopCall, Contracted!StopDrain,
       PoolProofs!StopDrain, Contracted!StopReturn, PoolProofs!StopReturn,
       Contracted!AllExited, PoolProofs!AllExited, Contracted!Drained, PoolProofs!Drained,
       Contracted!In, PoolProofs!In
  <2>8. Contracted!PoolNext => PoolProofs!PoolNext
    BY <2>2, <2>3, <2>4, <2>5, <2>6, <2>7
    DEF Contracted!PoolNext, PoolProofs!PoolNext, Contracted!Workers, PoolProofs!Workers,
        Executors
  <2> QED
    BY <2>1, <2>8 DEF Contracted!Next, PoolProofs!Next, Contracted!envVars,
       PoolProofs!envVars
<1>3. UNCHANGED Contracted!vars => UNCHANGED PoolProofs!vars
  BY DEF Contracted!vars, PoolProofs!vars
<1>4. Control /\ Discipline /\ [Next]_vars => [PoolProofs!Next]_(PoolProofs!vars)
  BY <1>2, <1>3, PoolStep
<1> QED
  BY <1>1, <1>4, ControlHolds, PTL DEF Spec, PoolProofs!Spec

InStage(where) == {r \in GoodRows : submit[r] = where}
Waiting == ToSet(jobs)
WithExecutor == {r \in GoodRows : \E e \in Executors : running[e] = r}

(* A row that Submit accepted waits, is with one executor, which exists,   *)
(* or is finished; any other row is in none of these places. *)
Placed ==
    /\ running \in [Executors -> GoodRows \cup {NoRow}]
    /\ jobs \in Seq(GoodRows)
    /\ finished \subseteq GoodRows
    /\ \A r \in GoodRows :
         r \in Waiting \cup WithExecutor \cup finished <=> submit[r] = "accepted"
    /\ \A r \in WithExecutor : r \notin Waiting \cup finished
    /\ \A r \in Waiting : r \notin finished
    /\ \A d, e \in Executors : d # e /\ running[d] # NoRow => running[d] # running[e]
    /\ running[0] # NoRow => stop

LEMMA PlacedHolds == Spec => []Placed
<1>1. PoolProofs!Spec => [](PoolProofs!TypeOK /\ PoolProofs!OnePlace
                            /\ PoolProofs!ExecutorExists /\ PoolProofs!StopOrder)
  BY PoolIsKnown, PoolProofs!TypeCorrect, PoolProofs!JobsHaveOnePlace,
     PoolProofs!RunningHasExecutor, PoolProofs!StopIsOrdered, PTL
<1>2. PoolProofs!TypeOK /\ PoolProofs!OnePlace /\ PoolProofs!ExecutorExists
        /\ PoolProofs!StopOrder => Placed
  <2> SUFFICES ASSUME PoolProofs!TypeOK, PoolProofs!OnePlace, PoolProofs!ExecutorExists,
                      PoolProofs!StopOrder
               PROVE  Placed
    OBVIOUS
  <2>1. Executors = PoolProofs!Executors /\ Waiting = PoolProofs!Queued
        /\ WithExecutor = PoolProofs!Executing
    BY DEF PoolProofs!Executors, Executors, Waiting, PoolProofs!Queued, WithExecutor,
       PoolProofs!Executing, ToSet, PoolProofs!ToSet
  <2>2. /\ running \in [Executors -> GoodRows \cup {NoRow}]
        /\ jobs \in Seq(GoodRows) /\ finished \subseteq GoodRows
    BY <2>1 DEF PoolProofs!TypeOK
  <2>3. \A r \in GoodRows : r \in PoolProofs!In("accepted") <=> submit[r] = "accepted"
    BY DEF PoolProofs!In
  <2>4. \A r \in GoodRows :
          r \in Waiting \cup WithExecutor \cup finished <=> submit[r] = "accepted"
    BY <2>1, <2>3 DEF PoolProofs!OnePlace
  <2>5. /\ \A r \in WithExecutor : r \notin Waiting \cup finished
        /\ \A r \in Waiting : r \notin finished
    BY <2>1 DEF PoolProofs!OnePlace
  <2>6. \A d, e \in Executors : d # e /\ running[d] # NoRow => running[d] # running[e]
    BY <2>1 DEF PoolProofs!OnePlace
  <2>7. running[0] # NoRow => stop
    BY IngestAssumption DEF PoolProofs!ExecutorExists, PoolProofs!StopOrder,
       PoolProofs!Executors
  <2> QED
    BY <2>2, <2>4, <2>5, <2>6, <2>7 DEF Placed
<1> QED
  BY <1>1, <1>2, PoolSpecHolds, PTL

(* The rows of a run keep to JobLedger, whatever the operator does: a row  *)
(* that Submit accepted is handled exactly once, one that it refused       *)
(* never, and when main's p.Stop returns nothing is offered or waiting and *)
(* nothing will be (pool.go:124-172, runner.go:165-180). *)
THEOREM ImplementsTheLedger == Spec => PoolProofs!ImplementsLedger
<1>1. PoolProofs!Spec => PoolProofs!ImplementsLedger
  BY PoolIsKnown, PoolProofs!ImplementsTheLedger
<1> QED
  BY <1>1, PoolSpecHolds

-----------------------------------------------------------------------------
(* The WaitGroup of a file *)

LEMMA RowsAreFinite ==
    ASSUME NEW f \in Files
    PROVE  IsFiniteSet(RowsOf(f)) /\ IsFiniteSet(Unfinished(f))
<1>1. IsFiniteSet({f} \X (1 .. Len(Rows[f])))
  <2>1. IsFiniteSet({f})
    BY FS_Singleton
  <2>2. IsFiniteSet(1 .. Len(Rows[f]))
    BY IngestAssumption, FS_Interval
  <2> QED
    BY <2>1, <2>2, FS_Product
<1>2. RowsOf(f) \subseteq {f} \X (1 .. Len(Rows[f]))
  BY DEF RowsOf, GoodRows, RowIds, FileOf
<1>3. Unfinished(f) \subseteq RowsOf(f)
  BY DEF Unfinished
<1> QED
  BY <1>1, <1>2, <1>3, FS_Subset

Counted == wg \in [Files -> Nat] /\ WaitGroupExact

(* A row is due from the call of Submit to its end. *)
Due(r) == submit[r] = "sending" \/ (submit[r] = "accepted" /\ r \notin finished)

(* A step makes one row due, ends one, or does neither. *)
Begins ==
    \E f \in Files, r \in GoodRows :
        /\ FileOf(r) = f /\ ~ Due(r) /\ pc[f] = "recv"
        /\ pc' = [pc EXCEPT ![f] = "submit"]
        /\ wg' = [wg EXCEPT ![f] = @ + 1]
        /\ \A s \in GoodRows : Due(s)' <=> Due(s) \/ s = r

Ends ==
    \E f \in Files, r \in GoodRows :
        /\ FileOf(r) = f /\ Due(r)
        /\ pc' = pc \/ (pc[f] = "submit" /\ pc' = [pc EXCEPT ![f] = "recv"])
        /\ wg' = [wg EXCEPT ![f] = @ - 1]
        /\ \A s \in GoodRows : Due(s)' <=> Due(s) /\ s # r

Neither == wg' = wg /\ \A s \in GoodRows : Due(s)' <=> Due(s)

LEMMA DueSteps ==
    ASSUME Control, Discipline, Placed, [Next]_vars PROVE Begins \/ Ends \/ Neither
<1>1. ASSUME UNCHANGED <<submit, finished, wg>> PROVE Neither
  BY <1>1 DEF Neither, Due
<1>2. ASSUME NEW f \in Files, Quiet(f) \/ Leave(f) \/ ReadFile(f) PROVE Neither
  BY <1>1, <1>2, QuietSteps, LeaveSteps, ReadSteps DEF poolVars
<1>3. ASSUME NEW f \in Files, Receive(f) PROVE Begins
  <2> DEFINE c == Current(f)
  <2>1. /\ c \in GoodRows /\ FileOf(c) = f /\ submit[c] = "idle"
        /\ submit' = [submit EXCEPT ![c] = "sending"]
        /\ pc[f] = "recv" /\ pc' = [pc EXCEPT ![f] = "submit"]
        /\ wg' = [wg EXCEPT ![f] = @ + 1]
        /\ finished' = finished
    BY <1>3, ReceiveSteps
  <2> HIDE DEF c
  <2>2. ~ Due(c) /\ \A s \in GoodRows : Due(s)' <=> Due(s) \/ s = c
    BY <2>1 DEF Control, Due
  <2> QED
    BY <2>1, <2>2 DEF Begins
<1>4. ASSUME NEW f \in Files, Submits(f) PROVE Ends \/ Neither
  <2>1. PICK r \in GoodRows :
          /\ FileOf(r) = f /\ submit[r] = "sending"
          /\ \/ /\ wg' = [wg EXCEPT ![f] = @ - 1]
                /\ submit' = [submit EXCEPT ![r] = "refused"]
             \/ /\ wg' = wg
                /\ submit' = [submit EXCEPT ![r] = "accepted"]
    BY <1>4, SubmitSteps
  <2>2. /\ pc[f] = "submit" /\ pc' = [pc EXCEPT ![f] = "recv"]
        /\ finished' = finished
    BY <1>4, SubmitSteps
  <2>3. r \notin finished
    BY <2>1 DEF Placed
  <2>4. CASE wg' = [wg EXCEPT ![f] = @ - 1] /\ submit' = [submit EXCEPT ![r] = "refused"]
    <3>1. Due(r) /\ \A s \in GoodRows : Due(s)' <=> Due(s) /\ s # r
      BY <2>1, <2>2, <2>4 DEF Control, Due
    <3> QED
      BY <2>1, <2>2, <2>4, <3>1 DEF Ends
  <2>5. CASE wg' = wg /\ submit' = [submit EXCEPT ![r] = "accepted"]
    BY <2>1, <2>2, <2>3, <2>5 DEF Control, Due, Neither
  <2> QED
    BY <2>1, <2>4, <2>5
<1>5. ASSUME NEW e \in Executors, TakeRow(e) \/ Settles(e) PROVE Neither
  <2>1. UNCHANGED <<submit, finished, wg>>
    BY <1>5 DEF TakeRow, Settles, Pool!Take, CancelCheck, Duplicate, AddIfNew, Processed,
       ProcessCancelled, poolVars, fileVars
  <2> QED
    BY <1>1, <2>1
<1>6. ASSUME NEW e \in Executors, Release(e) PROVE Ends
  <2> DEFINE r == running[e]
             f == FileOf(r)
  <2>1. /\ r # NoRow /\ finished' = finished \cup {r} /\ submit' = submit /\ pc' = pc
        /\ wg' = [wg EXCEPT ![f] = @ - 1]
    BY <1>6 DEF Release, Pool!Finish, Released
  <2>2. r \in GoodRows /\ submit[r] = "accepted" /\ r \notin finished /\ f \in Files
    BY <2>1, RowFacts DEF Placed, WithExecutor
  <2> HIDE DEF r
  <2>3. Due(r) /\ \A s \in GoodRows : Due(s)' <=> Due(s) /\ s # r
    BY <2>1, <2>2 DEF Due
  <2> QED
    BY <2>1, <2>2, <2>3 DEF Ends
<1>7. CASE \/ Resizes \/ Cancels \/ StartRun \/ StopPool \/ Drain \/ Summary
           \/ UNCHANGED vars
  BY <1>1, <1>7, OtherSteps
<1> QED
  BY <1>2, <1>3, <1>4, <1>5, <1>6, <1>7, Steps

LEMMA CountedStep ==
    ASSUME Control, Discipline, Placed, Counted, [Next]_vars PROVE Counted'
<1>0. \A g \in Files : IsFiniteSet(Unfinished(g)) /\ wg[g] = Cardinality(Unfinished(g))
                       /\ wg[g] \in Nat
  BY RowsAreFinite DEF Counted, WaitGroupExact
<1>1. /\ \A g \in Files : Unfinished(g) = {r \in GoodRows : FileOf(r) = g /\ Due(r)}
      /\ \A g \in Files : Unfinished(g)' = {r \in GoodRows : FileOf(r) = g /\ Due(r)'}
  BY DEF Unfinished, RowsOf, Due
<1>2. CASE Begins
  <2>1. PICK f \in Files, r \in GoodRows :
          /\ FileOf(r) = f /\ ~ Due(r)
          /\ wg' = [wg EXCEPT ![f] = @ + 1]
          /\ \A s \in GoodRows : Due(s)' <=> Due(s) \/ s = r
    BY <1>2 DEF Begins
  <2>2. Unfinished(f)' = Unfinished(f) \cup {r} /\ r \notin Unfinished(f)
    BY <1>1, <2>1
  <2>3. Cardinality(Unfinished(f)') = wg[f] + 1
    BY <1>0, <2>2, FS_AddElement
  <2>4. \A g \in Files \ {f} : Unfinished(g)' = Unfinished(g)
    BY <1>1, <2>1
  <2> QED
    BY <1>0, <2>1, <2>3, <2>4 DEF Counted, WaitGroupExact
<1>3. CASE Ends
  <2>1. PICK f \in Files, r \in GoodRows :
          /\ FileOf(r) = f /\ Due(r)
          /\ wg' = [wg EXCEPT ![f] = @ - 1]
          /\ \A s \in GoodRows : Due(s)' <=> Due(s) /\ s # r
    BY <1>3 DEF Ends
  <2>2. Unfinished(f)' = Unfinished(f) \ {r} /\ r \in Unfinished(f)
    BY <1>1, <2>1
  <2>3. Cardinality(Unfinished(f)') = wg[f] - 1 /\ IsFiniteSet(Unfinished(f)')
    BY <1>0, <2>2, FS_RemoveElement
  <2>4. wg[f] - 1 \in Nat
    BY <2>3, FS_CardinalityType
  <2>5. \A g \in Files \ {f} : Unfinished(g)' = Unfinished(g)
    BY <1>1, <2>1
  <2> QED
    BY <1>0, <2>1, <2>3, <2>4, <2>5 DEF Counted, WaitGroupExact
<1>4. CASE Neither
  <2>1. \A g \in Files : Unfinished(g)' = Unfinished(g)
    BY <1>1, <1>4 DEF Neither
  <2> QED
    BY <1>4, <2>1 DEF Neither, Counted, WaitGroupExact
<1> QED
  BY <1>2, <1>3, <1>4, DueSteps

(* jobs counts the rows of a file that are still to be settled, and is     *)
(* never negative (runner.go:165, :168, :178). *)
THEOREM WaitGroupIsExact == Spec => []WaitGroupExact
<1>1. Init => Counted
  <2> SUFFICES ASSUME Init PROVE Counted
    OBVIOUS
  <2>1. \A g \in Files : Unfinished(g) = {}
    BY DEF Init, Pool!Init, Unfinished, RowsOf
  <2> QED
    BY <2>1, FS_EmptySet DEF Init, Counted, WaitGroupExact
<1>2. Control /\ Discipline /\ Placed /\ Counted /\ [Next]_vars => Counted'
  BY CountedStep
<1>3. Counted => WaitGroupExact
  BY DEF Counted
<1> QED
  BY <1>1, <1>2, <1>3, ControlHolds, PlacedHolds, PTL DEF Spec

-----------------------------------------------------------------------------
(* The outcomes of the rows *)

(* Outside the loop over the stream no row of a file is due. *)
NoneDue ==
    \A f \in Files : pc[f] \notin {"recv", "submit", "wait"} =>
        \A r \in GoodRows : FileOf(r) = f => ~ Due(r)

LEMMA NoneDueStep ==
    ASSUME Control, Discipline, Placed, WaitGroupExact, NoneDue, [Next]_vars
    PROVE  NoneDue'
<1> DEFINE Loop == {"recv", "submit", "wait"}
<1>1. \A f \in Files : pc'[f] \notin Loop /\ pc[f] \in Loop =>
        /\ \A r \in GoodRows : FileOf(r) = f => ~ Due(r)
        /\ UNCHANGED <<submit, finished>>
  <2>1. ASSUME NEW g \in Files, Quiet(g), NEW f \in Files, pc'[f] \notin Loop, pc[f] \in Loop
        PROVE  Wait(f) /\ UNCHANGED <<submit, finished>>
    <3>1. UNCHANGED <<submit, finished>> /\ f = g
      BY <2>1, QuietSteps DEF poolVars, Control
    <3>2. CASE Register(g) \/ GateFree(g) \/ GateCharge(g) \/ GateReply(g) \/ GateSkip(g)
               \/ Open(g) \/ OpenFails(g) \/ After(g) \/ Publish(g)
      BY <2>1, <3>1, <3>2 DEF Register, GateFree, GateCharge, GateReply, GateSkip, Open,
         OpenFails, After, Publish
    <3>3. CASE ReceiveBad(g) \/ EndOfStream(g)
      BY <2>1, <3>1, <3>3 DEF ReceiveBad, EndOfStream, Goto, Control
    <3> QED
      BY <2>1, <3>1, <3>2, <3>3 DEF Quiet
  <2>2. ASSUME NEW f \in Files, Wait(f) PROVE \A r \in GoodRows : FileOf(r) = f => ~ Due(r)
    <3>1. Cardinality(Unfinished(f)) = 0
      BY <2>2 DEF Wait, JobsDone, WaitGroupExact
    <3>2. Unfinished(f) = {}
      BY <3>1, RowsAreFinite, FS_EmptySet
    <3> QED
      BY <3>2 DEF Unfinished, RowsOf, Due
  <2>3. ASSUME NEW g \in Files, Leave(g) \/ ReadFile(g) \/ Receive(g) \/ Submits(g),
               NEW f \in Files, pc[f] \in Loop
        PROVE  pc'[f] \in Loop
    BY <2>3, LeaveSteps, ReadSteps, ReceiveSteps, SubmitSteps DEF Control
  <2>4. ASSUME NEW e \in Executors, TakeRow(e) \/ Settles(e) \/ Release(e)
        PROVE  pc' = pc
    BY <2>4 DEF TakeRow, Release, Settles, CancelCheck, Duplicate, AddIfNew, Processed,
       ProcessCancelled, fileVars
  <2>5. CASE \/ Resizes \/ Cancels \/ StartRun \/ StopPool \/ Drain \/ Summary
             \/ UNCHANGED vars
    BY <2>5, OtherSteps
  <2> QED
    BY <2>1, <2>2, <2>3, <2>4, <2>5, Steps
<1>2. \A r \in GoodRows : Due(r)' /\ ~ Due(r) => pc'[FileOf(r)] \in Loop
  <2>1. CASE Begins
    BY <2>1, RowFacts DEF Begins, Control
  <2>2. CASE Ends \/ Neither
    BY <2>2 DEF Ends, Neither
  <2> QED
    BY <2>1, <2>2, DueSteps
<1>3. ASSUME NEW f \in Files, pc'[f] \notin Loop, NEW r \in GoodRows, FileOf(r) = f, Due(r)'
      PROVE  FALSE
  <2>1. Due(r)
    BY <1>2, <1>3
  <2>2. pc[f] \in Loop
    BY <1>3, <2>1 DEF NoneDue
  <2> QED
    BY <1>1, <1>3, <2>1, <2>2
<1> QED
  BY <1>3 DEF NoneDue

LEMMA NoneDueHolds == Spec => []NoneDue
<1>1. Init => NoneDue
  BY DEF Init, Pool!Init, NoneDue, Due
<1>2. Control /\ Discipline /\ Placed /\ WaitGroupExact /\ NoneDue /\ [Next]_vars => NoneDue'
  BY NoneDueStep
<1> QED
  BY <1>1, <1>2, ControlHolds, PlacedHolds, WaitGroupIsExact, PTL DEF Spec

(* Nobody runs a row whose file is done: Stop, which drains under a        *)
(* cancelled context, finds nothing to drain. *)
LEMMA RunnersAreWanted ==
    ASSUME Control, Discipline, Placed, NoneDue, NEW e \in Executors, running[e] # NoRow
    PROVE  /\ e # 0 /\ running[e] \in GoodRows /\ FileOf(running[e]) \in Files
           /\ pc[FileOf(running[e])] \in {"recv", "submit", "wait"}
           /\ submit[running[e]] = "accepted" /\ running[e] \notin finished
<1>1. /\ running[e] \in GoodRows /\ submit[running[e]] = "accepted"
      /\ running[e] \notin finished
  BY DEF Placed, WithExecutor
<1>2. FileOf(running[e]) \in Files /\ Due(running[e])
  BY <1>1, RowFacts DEF Due
<1>3. pc[FileOf(running[e])] \in {"recv", "submit", "wait"}
  BY <1>1, <1>2 DEF NoneDue
<1>4. ~ AllFilesDone
  BY <1>2, <1>3 DEF AllFilesDone
<1>5. e # 0
  BY <1>4 DEF Placed, Discipline
<1> QED
  BY <1>1, <1>2, <1>3, <1>5

(* Every way of a row to an outcome. *)
LEMMA SettleSteps ==
    ASSUME NEW e \in Executors, Settles(e)
    PROVE  /\ UNCHANGED <<poolVars, rootDone, main, fileVars>>
           /\ \/ /\ AddIfNew(e)
              \/ \E o \in {"ok", "dedup", "cancelled"} :
                   /\ stage[e] \in {"begin", "work"} /\ Settle(e, o) /\ seen' = seen
                   /\ o = "cancelled" => RowCancelled(e)
                   /\ o = "ok" => stage[e] = "work"
                   /\ o = "dedup" => Known(Key(e)) /\ stage[e] = "begin"
<1>1. CASE AddIfNew(e)
  BY <1>1 DEF AddIfNew
<1>2. CASE CancelCheck(e) \/ ProcessCancelled(e)
  BY <1>2 DEF CancelCheck, ProcessCancelled
<1>3. CASE Duplicate(e)
  BY <1>3 DEF Duplicate
<1>4. CASE Processed(e)
  BY <1>4 DEF Processed
<1> QED
  BY <1>1, <1>2, <1>3, <1>4 DEF Settles

(* An executor is in a row from the moment it takes it; the row has an     *)
(* outcome from the end of the chain on, and no other row has one. *)
Chained ==
    /\ outcome \in [GoodRows -> Outcomes]
    /\ stage \in [Executors -> {"idle", "begin", "work", "end"}]
    /\ \A e \in Executors : stage[e] = "idle" <=> running[e] = NoRow
    /\ \A e \in Executors : stage[e] \in {"begin", "work"} => outcome[running[e]] = "none"
    /\ \A e \in Executors : stage[e] = "end" => outcome[running[e]] # "none"
    /\ \A r \in finished : outcome[r] # "none"
    /\ \A r \in GoodRows :
         outcome[r] # "none" =>
           r \in finished \/ \E e \in Executors : running[e] = r /\ stage[e] = "end"

LEMMA ChainedStep ==
    ASSUME Control, Discipline, Placed, NoneDue, Chained, [Next]_vars
    PROVE  Chained'
<1> DEFINE Same == UNCHANGED <<running, finished, stage, outcome>>
<1>1. ASSUME Same PROVE Chained'
  BY <1>1 DEF Chained
<1>2. ASSUME NEW f \in Files, Quiet(f) \/ Leave(f) \/ ReadFile(f) \/ Receive(f) PROVE Same
  BY <1>2, QuietSteps, LeaveSteps, ReadSteps, ReceiveSteps DEF poolVars, chainVars
<1>3. CASE \/ Resizes \/ Cancels \/ StartRun \/ StopPool \/ Drain \/ Summary
           \/ UNCHANGED vars
  BY <1>1, <1>3, OtherSteps
<1>4. ASSUME NEW e \in Executors, NEW r \in GoodRows, outcome[r] = "none",
             running[e] = NoRow, running' = [running EXCEPT ![e] = r],
             stage' = [stage EXCEPT ![e] = "begin"], UNCHANGED <<finished, outcome>>
      PROVE  Chained'
  <2>1. r # NoRow /\ stage[e] = "idle"
    BY <1>4, RowFacts DEF Chained
  <2> QED
    BY <1>4, <2>1 DEF Chained, Placed
<1>5. ASSUME NEW r \in GoodRows, submit[r] = "sending" \/ r \in Waiting
      PROVE  outcome[r] = "none"
  <2>1. r \notin finished /\ r \notin WithExecutor
    BY <1>5 DEF Placed
  <2> QED
    BY <2>1 DEF Chained, WithExecutor
<1>6. ASSUME NEW f \in Files, Submits(f) PROVE Chained'
  <2>1. PICK r \in GoodRows :
          /\ submit[r] = "sending"
          /\ \/ UNCHANGED <<running, stage>>
             \/ \E e \in Executors :
                  /\ Pool!Handoff(r, e)
                  /\ running' = [running EXCEPT ![e] = r]
                  /\ stage' = [stage EXCEPT ![e] = "begin"]
    BY <1>6, SubmitSteps
  <2>2. UNCHANGED <<finished, outcome>>
    BY <1>6, SubmitSteps
  <2>3. \A e \in Executors : Pool!Handoff(r, e) => running[e] = NoRow
    BY DEF Pool!Handoff, Pool!Receiving
  <2> QED
    BY <1>1, <1>4, <1>5, <2>1, <2>2, <2>3
<1>7. ASSUME NEW e \in Executors, TakeRow(e) PROVE Chained'
  <2>1. /\ running[e] = NoRow /\ jobs # <<>>
        /\ running' = [running EXCEPT ![e] = Head(jobs)]
        /\ stage' = [stage EXCEPT ![e] = "begin"]
        /\ UNCHANGED <<finished, outcome>>
    BY <1>7 DEF TakeRow, Pool!Take, Pool!Receiving
  <2>2. jobs \in Seq(GoodRows)
    BY DEF Placed
  <2>3. Head(jobs) \in GoodRows /\ Head(jobs) \in Waiting
    BY <2>1, <2>2 DEF Waiting, ToSet
  <2> QED
    BY <1>4, <1>5, <2>1, <2>3
<1>8. ASSUME NEW e \in Executors, Settles(e) PROVE Chained'
  <2>1. UNCHANGED <<running, finished>>
    BY <1>8, SettleSteps DEF poolVars
  <2>2. stage[e] \in {"begin", "work"}
    BY <1>8, SettleSteps DEF AddIfNew
  <2>3. running[e] \in GoodRows /\ running[e] # NoRow
    BY <2>2, RowFacts DEF Chained, Placed
  <2>4. CASE AddIfNew(e)
    BY <2>1, <2>2, <2>3, <2>4 DEF AddIfNew, Chained, Placed
  <2>5. ASSUME NEW o \in {"ok", "dedup", "cancelled"}, Settle(e, o) PROVE Chained'
    <3>1. /\ outcome' = [outcome EXCEPT ![running[e]] = o]
          /\ stage' = [stage EXCEPT ![e] = "end"]
      BY <2>5 DEF Settle
    <3>2. \A d \in Executors : d # e => running[d] # running[e]
      BY <2>3 DEF Placed
    <3> QED
      BY <2>1, <2>2, <2>3, <3>1, <3>2 DEF Chained, Placed, Outcomes
  <2> QED
    BY <1>8, <2>4, <2>5, SettleSteps
<1>9. ASSUME NEW e \in Executors, Release(e) PROVE Chained'
  <2>1. /\ stage[e] = "end" /\ running[e] # NoRow
        /\ running' = [running EXCEPT ![e] = NoRow]
        /\ finished' = finished \cup {running[e]}
        /\ stage' = [stage EXCEPT ![e] = "idle"]
        /\ outcome' = outcome
    BY <1>9 DEF Release, Pool!Finish
  <2> QED
    BY <2>1 DEF Chained, Placed
<1> QED
  BY <1>1, <1>2, <1>3, <1>6, <1>7, <1>8, <1>9, Steps

LEMMA ChainedHolds == Spec => []Chained
<1>1. Init => Chained
  BY DEF Init, Pool!Init, Chained, Outcomes, Executors, Pool!Executors
<1>2. Control /\ Discipline /\ Placed /\ NoneDue /\ Chained /\ [Next]_vars => Chained'
  BY ChainedStep
<1> QED
  BY <1>1, <1>2, ControlHolds, PlacedHolds, NoneDueHolds, PTL DEF Spec

LEMMA CancelsGrow ==
    ASSUME Control, [Next]_vars
    PROVE  (rootDone => rootDone') /\ cancelled \subseteq cancelled'
<1>1. ASSUME NEW f \in Files, Quiet(f) \/ Leave(f) \/ ReadFile(f) \/ Receive(f) \/ Submits(f)
      PROVE  UNCHANGED <<rootDone, cancelled>>
  BY <1>1, QuietSteps, LeaveSteps, ReadSteps, ReceiveSteps, SubmitSteps
<1>2. ASSUME NEW e \in Executors, TakeRow(e) \/ Settles(e) \/ Release(e)
      PROVE  UNCHANGED <<rootDone, cancelled>>
  BY <1>2, SettleSteps DEF TakeRow, Release, fileVars
<1>3. CASE Resizes \/ StartRun \/ StopPool \/ Drain \/ Summary \/ UNCHANGED vars
  BY <1>3 DEF Resizes, StartWorker, ReplAdd, ReplRemove, ExitWorker, StartRun, StopPool,
     Drain, Summary, vars, fileVars
<1>4. CASE Cancels
  BY <1>4 DEF Cancels, Interrupt, CancelFile, fileVars
<1> QED
  BY <1>1, <1>2, <1>3, <1>4, Steps

LEMMA IsolatedStep ==
    ASSUME Control, Discipline, Placed, NoneDue, Chained, CancelIsolated, [Next]_vars
    PROVE  CancelIsolated'
<1> SUFFICES ASSUME NEW r \in GoodRows, outcome'[r] = "cancelled" \/ submit'[r] = "refused"
             PROVE  rootDone' \/ FileOf(r) \in cancelled'
  BY DEF CancelIsolated
<1>1. (rootDone => rootDone') /\ cancelled \subseteq cancelled'
  BY CancelsGrow
<1>2. CASE outcome[r] = "cancelled" \/ submit[r] = "refused"
  BY <1>1, <1>2 DEF CancelIsolated
<1>3. ASSUME outcome[r] # "cancelled", submit[r] # "refused"
      PROVE  rootDone \/ FileOf(r) \in cancelled
  <2>1. ASSUME NEW f \in Files, Quiet(f) \/ Leave(f) \/ ReadFile(f) PROVE FALSE
    BY <1>3, <2>1, QuietSteps, LeaveSteps, ReadSteps DEF poolVars
  <2>2. ASSUME NEW f \in Files, Receive(f) PROVE FALSE
    BY <1>3, <2>2, ReceiveSteps DEF Control, chainVars
  <2>3. ASSUME NEW f \in Files, Submits(f) PROVE rootDone \/ FileOf(r) \in cancelled
    <3>1. PICK s \in GoodRows :
            /\ FileOf(s) = f /\ submit[s] = "sending"
            /\ \/ Pool!Refuse(s) /\ submit' = [submit EXCEPT ![s] = "refused"]
               \/ submit' = [submit EXCEPT ![s] = "accepted"]
      BY <2>3, SubmitSteps
    <3>2. pc[f] = "submit" /\ outcome' = outcome
      BY <2>3, SubmitSteps
    <3>3. s = r /\ Pool!Refuse(r)
      BY <1>3, <3>1, <3>2 DEF Control
    <3>4. ~ stop
      BY <3>2 DEF Discipline, AllFilesDone
    <3>5. rootDone \/ FctxDone(f)
      BY <3>1, <3>3, <3>4 DEF Pool!Refuse, Pool!RefuseCause
    <3> QED
      BY <3>1, <3>2, <3>3, <3>5 DEF FctxDone
  <2>4. ASSUME NEW e \in Executors, TakeRow(e) \/ Release(e) PROVE FALSE
    BY <1>3, <2>4 DEF TakeRow, Release, Pool!Take, Pool!Finish
  <2>5. ASSUME NEW e \in Executors, Settles(e) PROVE rootDone \/ FileOf(r) \in cancelled
    <3>1. submit' = submit /\ outcome'[r] = "cancelled"
      BY <1>3, <2>5, SettleSteps DEF poolVars
    <3>2. PICK o \in {"ok", "dedup", "cancelled"} :
            /\ stage[e] \in {"begin", "work"}
            /\ outcome' = [outcome EXCEPT ![running[e]] = o]
            /\ o = "cancelled" => RowCancelled(e)
      BY <1>3, <2>5, <3>1, SettleSteps DEF AddIfNew, Settle
    <3>3. r = running[e] /\ RowCancelled(e)
      BY <1>3, <3>1, <3>2 DEF Chained
    <3>4. running[e] # NoRow
      BY <3>2 DEF Chained
    <3> QED
      BY <3>3, <3>4, RunnersAreWanted DEF RowCancelled, FctxDone
  <2>6. CASE \/ Resizes \/ Cancels \/ StartRun \/ StopPool \/ Drain \/ Summary
             \/ UNCHANGED vars
    BY <1>3, <2>6, OtherSteps
  <2> QED
    BY <2>1, <2>2, <2>3, <2>4, <2>5, <2>6, Steps
<1> QED
  BY <1>1, <1>2, <1>3

(* Cancelling a file, by its name in the REPL, cancels no row of another   *)
(* file (README.md:201-202). *)
THEOREM CancellationIsIsolated == Spec => []CancelIsolated
<1>1. Init => CancelIsolated
  BY DEF Init, Pool!Init, CancelIsolated
<1>2. Control /\ Discipline /\ Placed /\ NoneDue /\ Chained /\ CancelIsolated /\ [Next]_vars
        => CancelIsolated'
  BY IsolatedStep
<1> QED
  BY <1>1, <1>2, ControlHolds, PlacedHolds, NoneDueHolds, ChainedHolds, PTL DEF Spec

(* Outcomes and counters change together, at the end of a row's chain. *)
LEMMA OutcomeSteps ==
    ASSUME [Next]_vars
    PROVE  \/ UNCHANGED <<outcome, handled>>
           \/ \E e \in Executors, o \in {"ok", "dedup", "cancelled"} :
                stage[e] \in {"begin", "work"} /\ Settle(e, o)
<1>1. ASSUME NEW f \in Files, Quiet(f) \/ Leave(f) \/ ReadFile(f) \/ Receive(f) \/ Submits(f)
      PROVE  UNCHANGED <<outcome, handled>>
  BY <1>1 DEF Quiet, Leave, ReadFile, Receive, Submits, Register, GateFree, GateCharge,
     GateReply, GateSkip, Open, OpenFails, ReceiveBad, EndOfStream, Wait, After, Publish,
     Read, ReadFails, Close, SubmitQueued, SubmitRefused, SubmitHandedOver, chainVars
<1>2. ASSUME NEW e \in Executors, TakeRow(e) \/ Release(e)
      PROVE  UNCHANGED <<outcome, handled>>
  BY <1>2 DEF TakeRow, Release
<1>3. ASSUME NEW e \in Executors, Settles(e)
      PROVE  \/ UNCHANGED <<outcome, handled>>
             \/ \E o \in {"ok", "dedup", "cancelled"} :
                  stage[e] \in {"begin", "work"} /\ Settle(e, o)
  BY <1>3, SettleSteps DEF AddIfNew
<1>4. CASE \/ Resizes \/ Cancels \/ StartRun \/ StopPool \/ Drain \/ Summary
           \/ UNCHANGED vars
  BY <1>4, OtherSteps
<1> QED
  BY <1>1, <1>2, <1>3, <1>4, Steps

CountedRows(f) == RowsWith(f, "ok") \cup RowsWith(f, "dedup")

(* The counter handled is the number of rows with an outcome that counts. *)
Tally ==
    /\ handled \in [Files -> Nat]
    /\ \A f \in Files : handled[f] = Cardinality(CountedRows(f))

LEMMA TallyStep ==
    ASSUME Placed, Chained, Tally, [Next]_vars PROVE Tally'
<1>1. /\ \A f \in Files : CountedRows(f) = {r \in RowsOf(f) : Counts(outcome[r])}
      /\ \A f \in Files : CountedRows(f)' = {r \in RowsOf(f) : Counts(outcome'[r])}
  BY DEF CountedRows, RowsWith, Counts
<1>2. \A f \in Files : IsFiniteSet(CountedRows(f))
  <2>1. \A f \in Files : CountedRows(f) \subseteq RowsOf(f)
    BY <1>1
  <2> QED
    BY <2>1, RowsAreFinite, FS_Subset
<1>3. CASE UNCHANGED <<outcome, handled>>
  BY <1>1, <1>3 DEF Tally
<1>4. ASSUME NEW e \in Executors, NEW o \in {"ok", "dedup", "cancelled"},
             stage[e] \in {"begin", "work"}, Settle(e, o)
      PROVE  Tally'
  <2>1. PICK r \in GoodRows, f \in Files : r = running[e] /\ f = FileOf(r)
    BY <1>4, RowFacts DEF Chained, Placed
  <2>2. outcome[r] = "none"
    BY <1>4, <2>1 DEF Chained
  <2>3. /\ outcome' = [outcome EXCEPT ![r] = o]
        /\ handled' = IF Counts(o) THEN [handled EXCEPT ![f] = @ + 1] ELSE handled
    BY <1>4, <2>1 DEF Settle
  <2>4. r \in RowsOf(f) /\ \A g \in Files \ {f} : r \notin RowsOf(g)
    BY <2>1 DEF RowsOf
  <2>5. ~ Counts(outcome[r])
    BY <2>2 DEF Counts
  <2>6. \A s \in GoodRows : outcome'[s] = IF s = r THEN o ELSE outcome[s]
    BY <2>3 DEF Chained
  <2>7. \A g \in Files : RowsOf(g) \subseteq GoodRows
    BY DEF RowsOf
  <2>8. ASSUME NEW g \in Files \ {f} PROVE CountedRows(g)' = CountedRows(g)
    <3>1. \A s \in RowsOf(g) : outcome'[s] = outcome[s]
      BY <2>4, <2>6, <2>7
    <3>2. {s \in RowsOf(g) : Counts(outcome'[s])} = {s \in RowsOf(g) : Counts(outcome[s])}
      BY <3>1
    <3> QED
      BY <1>1, <3>2
  <2>9. CASE Counts(o)
    <3>1. CountedRows(f)' = CountedRows(f) \cup {r} /\ r \notin CountedRows(f)
      BY <1>1, <2>4, <2>5, <2>6, <2>7, <2>9 DEF Counts
    <3>2. Cardinality(CountedRows(f)') = handled[f] + 1
      BY <1>2, <3>1, FS_AddElement DEF Tally
    <3> QED
      BY <2>3, <2>8, <2>9, <3>2 DEF Tally
  <2>10. CASE ~ Counts(o)
    <3>1. CountedRows(f)' = CountedRows(f)
      BY <1>1, <2>4, <2>5, <2>6, <2>7, <2>10 DEF Counts
    <3> QED
      BY <2>3, <2>8, <2>10, <3>1 DEF Tally
  <2> QED
    BY <2>9, <2>10
<1> QED
  BY <1>3, <1>4, OutcomeSteps

LEMMA TallyHolds == Spec => []Tally
<1>1. Init => Tally
  <2> SUFFICES ASSUME Init PROVE Tally
    OBVIOUS
  <2>1. \A f \in Files : CountedRows(f) = {}
    BY DEF Init, CountedRows, RowsWith, RowsOf
  <2> QED
    BY <2>1, FS_EmptySet DEF Init, Tally
<1>2. Placed /\ Chained /\ Tally /\ [Next]_vars => Tally'
  BY TallyStep
<1> QED
  BY <1>1, <1>2, PlacedHolds, ChainedHolds, PTL DEF Spec

(* What runFile publishes and settles with the token service after         *)
(* jobs.Wait (runner.go:182-197) is final. *)
THEOREM PublishedIsSettled == Spec => []SettledWhenPublished
<1>1. Control /\ NoneDue /\ Tally => SettledWhenPublished
  <2> SUFFICES ASSUME Control, NoneDue, Tally, NEW f \in Files,
                      pc[f] \in {"after", "publish", "leave", "done"}
               PROVE  Unfinished(f) = {} /\ handled[f] = Cardinality(CountedRows(f))
    BY DEF SettledWhenPublished, CountedRows
  <2>1. \A r \in RowsOf(f) : ~ Due(r)
    BY DEF NoneDue, RowsOf
  <2> QED
    BY <2>1 DEF Unfinished, Due, Tally
<1> QED
  BY <1>1, ControlHolds, NoneDueHolds, TallyHolds, PTL

-----------------------------------------------------------------------------
(* Every record is in one sum *)

Returned(f) == {r \in RowsOf(f) : submit[r] \in {"accepted", "refused"}}
With(o) == {r \in GoodRows : outcome[r] = o}
Final == {"ok", "dedup", "cancelled"}

(* Each runFile counts the calls of Submit that returned, and the workers  *)
(* count the outcomes. *)
Sums ==
    /\ streamed \in [Files -> Nat]
    /\ \A f \in Files : streamed[f] = Cardinality(Returned(f))
    /\ stats \in [{"ok", "dedup", "cancelled", "parseErr"} -> Nat]
    /\ \A o \in Final : stats[o] = Cardinality(With(o))

LEMMA AllRowsAreFinite == IsFiniteSet(GoodRows)
<1> DEFINE P == [f \in Files |-> {f} \X (1 .. Len(Rows[f]))]
           All == {P[f] : f \in Files}
<1>1. ASSUME NEW f \in Files PROVE IsFiniteSet(P[f])
  <2>1. Len(Rows[f]) \in Nat
    BY TextFacts
  <2>2. IsFiniteSet({f})
    BY FS_Singleton
  <2>3. IsFiniteSet(1 .. Len(Rows[f]))
    BY <2>1, FS_Interval
  <2> QED BY <2>2, <2>3, FS_Product
<1>2. RowIds = UNION All
  BY DEF RowIds
<1>3. IsFiniteSet(All)
  <2> HIDE DEF P
  <2> QED BY IngestAssumption, ImageIsFinite
<1>4. \A T \in All : IsFiniteSet(T)
  BY <1>1
<1> HIDE DEF All
<1>5. IsFiniteSet(RowIds)
  BY <1>2, <1>3, <1>4, FS_UNION
<1> QED
  BY <1>5, FS_Subset DEF GoodRows

(* What a step does to the counters of the run. *)
LEMMA StatsSteps ==
    ASSUME Sums, [Next]_vars
    PROVE  \/ /\ outcome' = outcome
              /\ stats' \in [{"ok", "dedup", "cancelled", "parseErr"} -> Nat]
              /\ \A o \in Final : stats'[o] = stats[o]
           \/ \E e \in Executors, o \in Final :
                stage[e] \in {"begin", "work"} /\ Settle(e, o)
<1> USE DEF Sums
<1>1. ASSUME NEW f \in Files, ReceiveBad(f)
      PROVE  /\ outcome' = outcome
             /\ stats' \in [{"ok", "dedup", "cancelled", "parseErr"} -> Nat]
             /\ \A o \in Final : stats'[o] = stats[o]
  <2>1. outcome' = outcome /\ \/ stats' = stats
                              \/ stats' = [stats EXCEPT !["parseErr"] = @ + 1]
    BY <1>1 DEF ReceiveBad
  <2> QED BY <2>1 DEF Final
<1>2. ASSUME NEW f \in Files, Quiet(f) \/ Leave(f) \/ ReadFile(f) \/ Receive(f) \/ Submits(f),
             ~ ReceiveBad(f)
      PROVE  UNCHANGED <<outcome, stats>>
  BY <1>2 DEF Quiet, Leave, ReadFile, Receive, Submits, Register, GateFree, GateCharge,
     GateReply, GateSkip, Open, OpenFails, EndOfStream, Wait, After, Publish,
     Read, ReadFails, Close, SubmitQueued, SubmitRefused, SubmitHandedOver, chainVars
<1>3. ASSUME NEW e \in Executors, TakeRow(e) \/ Release(e) \/ AddIfNew(e)
      PROVE  UNCHANGED <<outcome, stats>>
  BY <1>3 DEF TakeRow, Release, AddIfNew
<1>4. ASSUME NEW e \in Executors, Settles(e), ~ AddIfNew(e)
      PROVE  \E o \in Final : stage[e] \in {"begin", "work"} /\ Settle(e, o)
  BY <1>4 DEF Settles, CancelCheck, Duplicate, Processed, ProcessCancelled, Final
<1>5. ASSUME \/ Resizes \/ Cancels \/ StartRun \/ StopPool \/ Drain \/ Summary
             \/ UNCHANGED vars
      PROVE  UNCHANGED <<outcome, stats>>
  BY <1>5 DEF Resizes, StartWorker, ReplAdd, ReplRemove, ExitWorker, Cancels, Interrupt,
     CancelFile, StartRun, StopPool, Drain, Summary, vars, chainVars
<1> QED
  BY <1>1, <1>2, <1>3, <1>4, <1>5, Steps

LEMMA StatsStep ==
    ASSUME Placed, Chained, Sums, [Next]_vars
    PROVE  /\ stats' \in [{"ok", "dedup", "cancelled", "parseErr"} -> Nat]
           /\ \A o \in Final : stats'[o] = Cardinality(With(o)')
<1>1. CASE /\ outcome' = outcome
           /\ stats' \in [{"ok", "dedup", "cancelled", "parseErr"} -> Nat]
           /\ \A o \in Final : stats'[o] = stats[o]
  BY <1>1 DEF Sums, With
<1>2. ASSUME NEW e \in Executors, NEW o \in Final, stage[e] \in {"begin", "work"}, Settle(e, o)
      PROVE  /\ stats' \in [{"ok", "dedup", "cancelled", "parseErr"} -> Nat]
             /\ \A p \in Final : stats'[p] = Cardinality(With(p)')
  <2>1. PICK r \in GoodRows : r = running[e]
    BY <1>2, RowFacts DEF Chained, Placed
  <2>2. outcome[r] = "none" /\ outcome' = [outcome EXCEPT ![r] = o]
        /\ stats' = [stats EXCEPT ![o] = @ + 1]
    BY <1>2, <2>1 DEF Chained, Settle, Tallied
  <2>3. \A s \in GoodRows : outcome'[s] = IF s = r THEN o ELSE outcome[s]
    BY <2>2 DEF Chained
  <2>4. \A p \in Final : IsFiniteSet(With(p))
    BY AllRowsAreFinite, FS_Subset DEF With
  <2>5. With(o)' = With(o) \cup {r} /\ r \notin With(o)
    BY <2>2, <2>3 DEF With, Final
  <2>6. \A p \in Final \ {o} : With(p)' = With(p)
    BY <2>2, <2>3 DEF With, Final
  <2>7. Cardinality(With(o)') = stats[o] + 1
    <3>1. Cardinality(With(o)) = stats[o] /\ IsFiniteSet(With(o))
      BY <2>4 DEF Sums
    <3> QED BY <2>5, <3>1, FS_AddElement
  <2>8. stats' \in [{"ok", "dedup", "cancelled", "parseErr"} -> Nat]
        /\ stats'[o] = stats[o] + 1 /\ \A p \in Final \ {o} : stats'[p] = stats[p]
    BY <2>2 DEF Sums, Final
  <2> QED BY <2>6, <2>7, <2>8 DEF Sums
<1> QED
  BY <1>1, <1>2, StatsSteps

LEMMA StreamedSteps ==
    ASSUME Control, [Next]_vars
    PROVE  \/ /\ streamed' = streamed
              /\ \A r \in GoodRows : submit'[r] \in {"accepted", "refused"}
                                     <=> submit[r] \in {"accepted", "refused"}
           \/ \E f \in Files, r \in GoodRows :
                /\ FileOf(r) = f /\ submit[r] = "sending"
                /\ \E w \in {"accepted", "refused"} : submit' = [submit EXCEPT ![r] = w]
                /\ streamed' = [streamed EXCEPT ![f] = @ + 1]
<1>1. ASSUME NEW f \in Files, Quiet(f) \/ Leave(f) \/ ReadFile(f)
      PROVE  UNCHANGED <<submit, streamed>>
  BY <1>1 DEF Quiet, Leave, ReadFile, Register, GateFree, GateCharge, GateReply, GateSkip,
     Open, OpenFails, ReceiveBad, EndOfStream, Wait, After, Publish, Read, ReadFails, Close,
     poolVars
<1>2. ASSUME NEW f \in Files, Receive(f)
      PROVE  /\ streamed' = streamed
             /\ \A r \in GoodRows : submit'[r] \in {"accepted", "refused"}
                                    <=> submit[r] \in {"accepted", "refused"}
  <2>1. streamed' = streamed
    BY <1>2 DEF Receive
  <2>2. submit[Current(f)] = "idle" /\ submit' = [submit EXCEPT ![Current(f)] = "sending"]
        /\ Current(f) \in GoodRows
    BY <1>2, ReceiveSteps
  <2> QED BY <2>1, <2>2 DEF Control
<1>3. ASSUME NEW f \in Files, Submits(f)
      PROVE  \E r \in GoodRows :
               /\ FileOf(r) = f /\ submit[r] = "sending"
               /\ \E w \in {"accepted", "refused"} : submit' = [submit EXCEPT ![r] = w]
               /\ streamed' = [streamed EXCEPT ![f] = @ + 1]
  <2>1. streamed' = [streamed EXCEPT ![f] = @ + 1]
    BY <1>3 DEF Submits, SubmitQueued, SubmitRefused, SubmitHandedOver, Streamed
  <2> QED BY <1>3, <2>1, SubmitSteps
<1>4. ASSUME NEW e \in Executors, TakeRow(e) \/ Settles(e) \/ Release(e)
      PROVE  UNCHANGED <<submit, streamed>>
  BY <1>4 DEF TakeRow, Settles, Release, Pool!Take, Pool!Finish, CancelCheck, Duplicate,
     AddIfNew, Processed, ProcessCancelled, poolVars, fileVars
<1>5. ASSUME \/ Resizes \/ Cancels \/ StartRun \/ StopPool \/ Drain \/ Summary
             \/ UNCHANGED vars
      PROVE  UNCHANGED <<submit, streamed>>
  <2>1. submit' = submit
    BY <1>5, OtherSteps
  <2>2. streamed' = streamed
    BY <1>5 DEF Resizes, StartWorker, ReplAdd, ReplRemove, ExitWorker, Cancels, Interrupt,
     CancelFile, StartRun, StopPool, Drain, Summary, vars, fileVars
  <2> QED BY <2>1, <2>2
<1> QED
  BY <1>1, <1>2, <1>3, <1>4, <1>5, Steps

LEMMA StreamedStep ==
    ASSUME Control, Sums, [Next]_vars
    PROVE  /\ streamed' \in [Files -> Nat]
           /\ \A f \in Files : streamed'[f] = Cardinality(Returned(f)')
<1>1. CASE /\ streamed' = streamed
           /\ \A r \in GoodRows : submit'[r] \in {"accepted", "refused"}
                                  <=> submit[r] \in {"accepted", "refused"}
  <2>1. \A f \in Files : Returned(f)' = Returned(f)
    BY <1>1, RowsOfFacts DEF Returned
  <2> QED BY <1>1, <2>1 DEF Sums
<1>2. ASSUME NEW f \in Files, NEW r \in GoodRows, FileOf(r) = f, submit[r] = "sending",
             NEW w \in {"accepted", "refused"}, submit' = [submit EXCEPT ![r] = w],
             streamed' = [streamed EXCEPT ![f] = @ + 1]
      PROVE  /\ streamed' \in [Files -> Nat]
             /\ \A g \in Files : streamed'[g] = Cardinality(Returned(g)')
  <2>1. \A s \in GoodRows : submit'[s] = IF s = r THEN w ELSE submit[s]
    BY <1>2 DEF Control
  <2>2. \A g \in Files : \A s \in RowsOf(g) : s \in GoodRows /\ FileOf(s) = g
    BY RowsOfFacts
  <2>3. r \in RowsOf(f)
    BY <1>2 DEF RowsOf
  <2>4. Returned(f)' = Returned(f) \cup {r} /\ r \notin Returned(f)
    BY <1>2, <2>1, <2>2, <2>3 DEF Returned
  <2>5. \A g \in Files \ {f} : Returned(g)' = Returned(g)
    BY <1>2, <2>1, <2>2 DEF Returned
  <2>6. IsFiniteSet(Returned(f))
    BY RowsAreFinite, FS_Subset DEF Returned
  <2>7. Cardinality(Returned(f)') = streamed[f] + 1
    BY <2>4, <2>6, FS_AddElement DEF Sums
  <2>8. /\ streamed' \in [Files -> Nat]
        /\ streamed'[f] = streamed[f] + 1 /\ \A g \in Files \ {f} : streamed'[g] = streamed[g]
    BY <1>2 DEF Sums
  <2> QED BY <2>5, <2>7, <2>8 DEF Sums
<1> QED
  BY <1>1, <1>2, StreamedSteps

LEMMA SumsHold == Spec => []Sums
<1>1. Init => Sums
  <2> SUFFICES ASSUME Init PROVE Sums
    OBVIOUS
  <2>1. \A f \in Files : Returned(f) = {}
    BY DEF Init, Pool!Init, Returned, RowsOf
  <2>2. \A o \in Final : With(o) = {}
    BY DEF Init, With, Final
  <2>3. stats \in [{"ok", "dedup", "cancelled", "parseErr"} -> Nat]
        /\ \A o \in Final : stats[o] = 0
    BY DEF Init, Final
  <2>4. streamed = [f \in Files |-> 0]
    BY DEF Init
  <2> QED
    BY <2>1, <2>2, <2>3, <2>4, FS_EmptySet DEF Sums
<1>2. Control /\ Placed /\ Chained /\ Sums /\ [Next]_vars => Sums'
  BY StatsStep, StreamedStep DEF Sums
<1> QED
  BY <1>1, <1>2, ControlHolds, PlacedHolds, ChainedHolds, PTL DEF Spec

(* When Run returns, every record that was streamed is in one of the       *)
(* counters of the statistics or was refused by Submit, and in one only    *)
(* (runner.go:165-180, handlers.go). *)
THEOREM RecordsAreAccounted == Spec => []RecordsAccounted
<1>1. Control /\ Placed /\ NoneDue /\ Chained /\ Sums => RecordsAccounted
  <2> DEFINE refused == {r \in GoodRows : submit[r] = "refused"}
             all == {r \in GoodRows : submit[r] \in {"accepted", "refused"}}
  <2> SUFFICES ASSUME Control, Placed, NoneDue, Chained, Sums, AllFilesDone
               PROVE  stats.ok + stats.dedup + stats.cancelled
                        + Cardinality(UNION {Refused(f) : f \in Files})
                      = SumFunctionOnSet(streamed, Files)
    BY DEF RecordsAccounted
  <2>1. UNION {Refused(f) : f \in Files} = refused
    BY RowFacts, RowsOfFacts DEF Refused
  <2>2. SumFunctionOnSet(streamed, Files) = Cardinality(all)
    <3> DEFINE A == [f \in Files |-> Returned(f)]
    <3>1. Sizes(streamed, A, Files)
      BY RowsAreFinite, FS_Subset DEF Returned, Sums, Sizes
    <3>2. Splits(all, A, Files)
      BY RowFacts, RowsOfFacts DEF Returned, Splits
    <3> HIDE DEF A, all
    <3> QED BY <3>1, <3>2, IngestAssumption, SumCounts
  <2>3. all = With("ok") \cup With("dedup") \cup With("cancelled") \cup refused
    <3>1. ASSUME NEW r \in GoodRows, submit[r] = "accepted" PROVE outcome[r] \in Final
      <4>1. ~ Due(r)
        BY RowFacts DEF NoneDue, AllFilesDone
      <4>2. r \in finished
        BY <3>1, <4>1 DEF Due
      <4> QED BY <4>2 DEF Chained, Outcomes, Final
    <3>2. ASSUME NEW r \in GoodRows, outcome[r] # "none" PROVE submit[r] = "accepted"
      BY <3>2 DEF Chained, Placed, WithExecutor
    <3> QED BY <3>1, <3>2 DEF With, Final
  <2>4. /\ \A r \in refused : outcome[r] = "none"
        /\ IsFiniteSet(refused)
    BY AllRowsAreFinite, FS_Subset DEF Chained, Placed, WithExecutor
  <2>5. \A o \in Final : IsFiniteSet(With(o)) /\ stats[o] = Cardinality(With(o))
    BY AllRowsAreFinite, FS_Subset DEF With, Sums
  <2> DEFINE X == With("ok")
             Y == With("dedup")
             Z == With("cancelled")
  <2>6. /\ X \cap Y = {} /\ (X \cup Y) \cap Z = {} /\ (X \cup Y \cup Z) \cap refused = {}
        /\ IsFiniteSet(X) /\ IsFiniteSet(Y) /\ IsFiniteSet(Z)
        /\ stats.ok = Cardinality(X) /\ stats.dedup = Cardinality(Y)
        /\ stats.cancelled = Cardinality(Z)
    BY <2>4, <2>5 DEF With, Final
  <2> HIDE DEF X, Y, Z, refused, all
  <2>7. IsFiniteSet(X \cup Y) /\ Cardinality(X \cup Y) = Cardinality(X) + Cardinality(Y)
    BY <2>6, DisjointUnion
  <2>8. /\ IsFiniteSet(X \cup Y \cup Z)
        /\ Cardinality(X \cup Y \cup Z) = Cardinality(X) + Cardinality(Y) + Cardinality(Z)
    BY <2>6, <2>7, DisjointUnion
  <2>9. Cardinality(X \cup Y \cup Z \cup refused)
          = Cardinality(X) + Cardinality(Y) + Cardinality(Z) + Cardinality(refused)
    <3> DEFINE U == X \cup Y \cup Z
    <3>1. /\ IsFiniteSet(U) /\ IsFiniteSet(refused) /\ U \cap refused = {}
          /\ Cardinality(U) = Cardinality(X) + Cardinality(Y) + Cardinality(Z)
      BY <2>4, <2>6, <2>8
    <3> HIDE DEF U
    <3>2. Cardinality(U \cup refused) = Cardinality(U) + Cardinality(refused)
      BY <3>1, DisjointUnion
    <3> QED BY <3>1, <3>2 DEF U
  <2>10. all = X \cup Y \cup Z \cup refused
    BY <2>3 DEF X, Y, Z
  <2> QED BY <2>1, <2>2, <2>6, <2>9, <2>10
<1> QED
  BY <1>1, ControlHolds, PlacedHolds, NoneDueHolds, ChainedHolds, SumsHold, PTL

-----------------------------------------------------------------------------
(* The store of e-mails *)

InWork(r) == \E e \in Executors : running[e] = r /\ stage[e] = "work"
Admitted(r) == outcome[r] = "ok" \/ InWork(r)
Tried(r) == outcome[r] \in {"ok", "cancelled"} \/ InWork(r)

(* Each key in the store has a row that was admitted with it, and one at   *)
(* most that was not cancelled since. *)
Stored ==
    /\ \A r \in GoodRows : Admitted(r) => Email(r) \in seen
    /\ \A r, s \in GoodRows :
         r # s /\ Admitted(r) /\ Admitted(s) => Email(r) # Email(s)
    /\ \A k \in seen : \E s \in GoodRows : Email(s) = k /\ Tried(s)
    /\ \A r \in GoodRows : outcome[r] = "dedup" => Email(r) = Blank \/ Email(r) \in seen

(* What a step does to the rows in the store. *)
LEMMA StoreSteps ==
    ASSUME Control, Discipline, Placed, NoneDue, Chained, [Next]_vars
    PROVE  \/ /\ seen' = seen
              /\ \A r \in GoodRows : /\ Admitted(r)' => Admitted(r)
                                     /\ Tried(r) => Tried(r)'
                                     /\ outcome'[r] = "dedup" =>
                                          outcome[r] = "dedup" \/ Known(Email(r))
           \/ \E s \in GoodRows :
                /\ ~ Known(Email(s)) /\ seen' = seen \cup {Email(s)}
                /\ outcome' = outcome
                /\ \A r \in GoodRows : InWork(r)' <=> InWork(r) \/ r = s
<1> DEFINE Kept == /\ seen' = seen
                   /\ \A r \in GoodRows : /\ Admitted(r)' => Admitted(r)
                                          /\ Tried(r) => Tried(r)'
                                          /\ outcome'[r] = "dedup" =>
                                               outcome[r] = "dedup" \/ Known(Email(r))
           Grown == \E s \in GoodRows :
                /\ ~ Known(Email(s)) /\ seen' = seen \cup {Email(s)}
                /\ outcome' = outcome
                /\ \A r \in GoodRows : InWork(r)' <=> InWork(r) \/ r = s
<1>1. ASSUME UNCHANGED <<seen, outcome>>, \A r \in GoodRows : InWork(r)' <=> InWork(r)
      PROVE  Kept
  BY <1>1 DEF Admitted, Tried
<1>2. ASSUME UNCHANGED <<running, stage>> PROVE \A r \in GoodRows : InWork(r)' <=> InWork(r)
  BY <1>2 DEF InWork
<1>3. ASSUME NEW f \in Files, Quiet(f) \/ Leave(f) \/ ReadFile(f) \/ Receive(f) PROVE Kept
  BY <1>1, <1>2, <1>3, QuietSteps, LeaveSteps, ReadSteps, ReceiveSteps DEF poolVars,
     chainVars
<1>4. CASE \/ Resizes \/ Cancels \/ StartRun \/ StopPool \/ Drain \/ Summary
           \/ UNCHANGED vars
  BY <1>1, <1>2, <1>4, OtherSteps
(* An executor that takes a row, or ends one, has none at work. *)
<1>5. ASSUME NEW e \in Executors, stage[e] # "work", NEW w \in {"idle", "begin", "end"},
             stage' = [stage EXCEPT ![e] = w],
             \A d \in Executors \ {e} : running'[d] = running[d]
      PROVE  \A r \in GoodRows : InWork(r)' <=> InWork(r)
  BY <1>5 DEF InWork, Chained
<1>6. ASSUME NEW f \in Files, Submits(f) PROVE Kept
  <2>1. UNCHANGED <<seen, outcome>>
    BY <1>6, SubmitSteps
  <2>2. PICK r \in GoodRows :
          \/ UNCHANGED <<running, stage>>
          \/ \E e \in Executors :
               /\ Pool!Handoff(r, e)
               /\ running' = [running EXCEPT ![e] = r]
               /\ stage' = [stage EXCEPT ![e] = "begin"]
    BY <1>6, SubmitSteps
  <2>3. \A e \in Executors : Pool!Handoff(r, e) => stage[e] = "idle"
    BY DEF Pool!Handoff, Pool!Receiving, Chained
  <2>4. \A s \in GoodRows : InWork(s)' <=> InWork(s)
    BY <1>2, <1>5, <2>2, <2>3 DEF Placed
  <2> QED
    BY <1>1, <2>1, <2>4
<1>7. ASSUME NEW e \in Executors, TakeRow(e) \/ Release(e) PROVE Kept
  <2>1. /\ UNCHANGED <<seen, outcome>> /\ stage[e] # "work"
        /\ \E w \in {"idle", "begin"} : stage' = [stage EXCEPT ![e] = w]
        /\ \A d \in Executors \ {e} : running'[d] = running[d]
    BY <1>7 DEF TakeRow, Release, Pool!Take, Pool!Finish, Pool!Receiving, Chained, Placed
  <2>2. \A s \in GoodRows : InWork(s)' <=> InWork(s)
    BY <1>5, <2>1
  <2> QED
    BY <1>1, <2>1, <2>2
<1>8. ASSUME NEW e \in Executors, Settles(e) PROVE Kept \/ Grown
  <2> DEFINE s == running[e]
  <2>1. running' = running
    BY <1>8, SettleSteps DEF poolVars
  <2>2. stage[e] \in {"begin", "work"} /\ s \in GoodRows /\ outcome[s] = "none"
    BY <1>8, SettleSteps DEF AddIfNew, Chained, Placed
  <2>3. CASE AddIfNew(e)
    <3>1. /\ ~ Known(Email(s)) /\ seen' = seen \cup {Email(s)} /\ outcome' = outcome
          /\ stage' = [stage EXCEPT ![e] = "work"]
      BY <2>3 DEF AddIfNew, Key
    <3>2. \A r \in GoodRows : InWork(r)' <=> InWork(r) \/ r = s
      BY <2>1, <3>1 DEF InWork, Chained
    <3> QED
      BY <2>2, <3>1, <3>2
  <2>4. ASSUME NEW o \in {"ok", "dedup", "cancelled"}, Settle(e, o), seen' = seen,
               o = "ok" => stage[e] = "work",
               o = "dedup" => Known(Key(e)) /\ stage[e] = "begin"
        PROVE  Kept
    <3>1. /\ outcome' = [outcome EXCEPT ![s] = o]
          /\ stage' = [stage EXCEPT ![e] = "end"]
      BY <2>4 DEF Settle
    <3>2. \A r \in GoodRows : outcome'[r] = IF r = s THEN o ELSE outcome[r]
      BY <3>1 DEF Chained
    <3>3. \A r \in GoodRows : InWork(r)' <=> InWork(r) /\ r # s
      BY <2>1, <2>2, <3>1, RowFacts DEF InWork, Chained, Placed
    <3>4. stage[e] = "work" => InWork(s)
      BY DEF InWork
    <3>5. o = "dedup" => Known(Email(s)) /\ ~ InWork(s)
      BY <2>2, <2>4, RowFacts DEF Key, InWork, Placed
    <3> HIDE DEF s
    <3>6. ASSUME NEW r \in GoodRows
          PROVE  /\ Admitted(r)' => Admitted(r)
                 /\ Tried(r) => Tried(r)'
                 /\ outcome'[r] = "dedup" => outcome[r] = "dedup" \/ Known(Email(r))
      BY <2>2, <2>4, <3>2, <3>3, <3>4, <3>5 DEF Admitted, Tried
    <3> QED
      BY <2>4, <3>6
  <2> QED
    BY <1>8, <2>3, <2>4, SettleSteps
<1> QED
  BY <1>3, <1>4, <1>6, <1>7, <1>8, Steps

LEMMA StoredStep ==
    ASSUME Control, Discipline, Placed, NoneDue, Chained, Stored, [Next]_vars
    PROVE  Stored'
<1>1. CASE /\ seen' = seen
           /\ \A r \in GoodRows : /\ Admitted(r)' => Admitted(r)
                                  /\ Tried(r) => Tried(r)'
                                  /\ outcome'[r] = "dedup" =>
                                       outcome[r] = "dedup" \/ Known(Email(r))
  BY <1>1 DEF Stored, Known
<1>2. ASSUME NEW s \in GoodRows, ~ Known(Email(s)), seen' = seen \cup {Email(s)},
             outcome' = outcome, \A r \in GoodRows : InWork(r)' <=> InWork(r) \/ r = s
      PROVE  Stored'
  <2>1. Email(s) \notin seen
    BY <1>2 DEF Known
  <2>2. \A r \in GoodRows : /\ Admitted(r)' <=> Admitted(r) \/ r = s
                            /\ Tried(r)' <=> Tried(r) \/ r = s
    BY <1>2 DEF Admitted, Tried
  <2> QED
    BY <1>2, <2>1, <2>2 DEF Stored
<1> QED
  BY <1>1, <1>2, StoreSteps

(* The DedupStore admits an e-mail once, whichever files and workers its   *)
(* rows meet in (dedup.go:31-44), and refuses it only for a row it knows. *)
THEOREM EmailsAreProcessedOnce == Spec => []ProcessedOnce
<1>1. Init => Stored
  BY DEF Init, Pool!Init, Stored, Admitted, Tried, InWork
<1>2. Control /\ Discipline /\ Placed /\ NoneDue /\ Chained /\ Stored /\ [Next]_vars
        => Stored'
  BY StoredStep
<1>3. Chained /\ Placed /\ Stored => ProcessedOnce
  <2> SUFFICES ASSUME Chained, Placed, Stored PROVE ProcessedOnce
    OBVIOUS
  <2>1. ASSUME NEW r \in GoodRows, outcome[r] = "dedup", Email(r) # Blank
        PROVE  \E s \in GoodRows \ {r} : Email(s) = Email(r) /\ Tried(s)
    <3>1. PICK s \in GoodRows : Email(s) = Email(r) /\ Tried(s)
      BY <2>1 DEF Stored
    <3>2. ~ Tried(r)
      BY <2>1 DEF Tried, InWork, Chained
    <3> QED
      BY <3>1, <3>2
  <2> QED
    BY <2>1 DEF ProcessedOnce, Stored, Admitted, Tried, InWork
<1> QED
  BY <1>1, <1>2, <1>3, ControlHolds, PlacedHolds, NoneDueHolds, ChainedHolds, PTL DEF Spec

-----------------------------------------------------------------------------
(* The names of the active files *)

(* The steps that leave every file where it is. *)
LEMMA StandingSteps ==
    ASSUME \/ \E e \in Executors : TakeRow(e) \/ Settles(e) \/ Release(e)
           \/ Resizes \/ Cancels \/ StartRun \/ StopPool \/ Drain \/ Summary
           \/ UNCHANGED vars
    PROVE  UNCHANGED <<submit, pc, src, pos, cancels, files, reserved, billed, lost>>
<1> USE DEF poolVars, fileVars
<1>1. ASSUME NEW e \in Executors, TakeRow(e) \/ Settles(e) \/ Release(e)
      PROVE  UNCHANGED <<submit, pc, src, pos, cancels, files, reserved, billed, lost>>
  BY <1>1, SettleSteps DEF TakeRow, Release, Pool!Take, Pool!Finish
<1>2. CASE Resizes
  BY <1>2 DEF Resizes, StartWorker, ReplAdd, ReplRemove, ExitWorker, Pool!AddWorker,
     Pool!RemoveWorker, Pool!Exit
<1>3. CASE Cancels \/ UNCHANGED vars
  BY <1>3 DEF Cancels, Interrupt, CancelFile, vars
<1>4. CASE StartRun \/ StopPool \/ Drain \/ Summary
  BY <1>4 DEF StartRun, StopPool, Drain, Summary, Pool!StopCall, Pool!StopDrain,
     Pool!StopReturn
<1> QED
  BY <1>1, <1>2, <1>3, <1>4

Named == cancels \in [Names -> Files \cup {NoFile}] /\ NamesTheRightFile

(* A file comes or goes, and with it the entry of its name. *)
LEMMA EntryChanges ==
    ASSUME pc \in [Files -> Places], Named, NEW f \in Files,
           NEW w \in Places \ {"start"}, pc' = [pc EXCEPT ![f] = w],
           cancels' = [cancels EXCEPT ![Base[f]] = IF w = "done" THEN NoFile ELSE f]
    PROVE  Named'
<1>1. /\ pc'[f] = w /\ \A g \in Files \ {f} : pc'[g] = pc[g]
      /\ \A g \in Files : Base[g] \in Names
  BY DEF Names
<1>2. /\ cancels' \in [Names -> Files \cup {NoFile}]
      /\ cancels'[Base[f]] = IF w = "done" THEN NoFile ELSE f
      /\ \A n \in Names \ {Base[f]} : cancels'[n] = cancels[n]
  BY <1>1 DEF Named
<1>3. ASSUME NEW n \in Names, cancels'[n] # NoFile
      PROVE  (Active(cancels[n]) /\ Base[cancels[n]] = n)'
  <2>1. CASE n = Base[f]
    <3>1. w # "done" /\ cancels'[n] = f
      BY <1>2, <1>3, <2>1
    <3> QED BY <1>1, <2>1, <3>1 DEF Active
  <2>2. CASE n # Base[f]
    <3>1. /\ cancels[n] \in Files /\ Base[cancels[n]] = n /\ cancels[n] # f
          /\ pc[cancels[n]] \notin {"start", "done"} /\ cancels'[n] = cancels[n]
      BY <1>2, <1>3, <2>2 DEF Named, NamesTheRightFile, Active
    <3> QED BY <1>1, <3>1 DEF Active
  <2> QED BY <2>1, <2>2
<1>4. ASSUME NEW g \in Files, Active(g)', SoleOfItsName(g)' PROVE (cancels[Base[g]] = g)'
  <2>1. CASE g = f
    BY <1>1, <1>2, <1>4, <2>1 DEF Active
  <2>2. CASE g # f
    <3>1. Base[g] # Base[f]
      BY <1>1, <1>4, <2>2 DEF SoleOfItsName
    <3>2. Active(g) /\ SoleOfItsName(g)
      BY <1>1, <1>4, <2>2, <3>1 DEF Active, SoleOfItsName
    <3> QED BY <1>1, <1>2, <3>1, <3>2 DEF Named, NamesTheRightFile
  <2> QED BY <2>1, <2>2
<1> QED
  BY <1>2, <1>3, <1>4 DEF Named, NamesTheRightFile

LEMMA NamedStep ==
    ASSUME Control, Named, [Next]_vars PROVE Named'
<1> USE IngestAssumption DEF Control, Named, NamesTheRightFile, Active, SoleOfItsName, Goto
<1>1. ASSUME NEW f \in Files, Quiet(f), ~ Register(f) PROVE Named'
  <2>1. cancels' = cancels
    BY <1>1 DEF Quiet, GateFree, GateCharge, GateReply, GateSkip, Open, OpenFails,
       ReceiveBad, EndOfStream, Wait, After, Publish
  <2>2. pc[f] # "start"
    BY <1>1 DEF Quiet, GateFree, GateCharge, GateReply, GateSkip, Open, OpenFails,
       ReceiveBad, Receiving, EndOfStream, Wait, After, Publish
  <2>3. pc' = [pc EXCEPT ![f] = pc'[f]] /\ pc'[f] \notin {"start", "done"} /\ pc[f] # "done"
    BY <1>1, <2>2 DEF Quiet, GateFree, GateCharge, GateReply, GateSkip, Open, OpenFails,
       ReceiveBad, Receiving, EndOfStream, Wait, After, Publish
  <2> QED
    BY <2>1, <2>2, <2>3
<1>2. ASSUME NEW f \in Files, Register(f) PROVE Named'
  <2>1. PICK w \in {"gate", "open"} : pc' = [pc EXCEPT ![f] = w]
    BY <1>2 DEF Register
  <2>2. cancels' = [cancels EXCEPT ![Base[f]] = IF w = "done" THEN NoFile ELSE f]
    BY <1>2 DEF Register, Registered
  <2> QED
    BY <2>1, <2>2, EntryChanges DEF Places
<1>3. ASSUME NEW f \in Files, Leave(f) PROVE Named'
  <2>1. /\ cancels' = [cancels EXCEPT ![Base[f]] = NoFile] /\ pc[f] = "leave"
        /\ pc' = [pc EXCEPT ![f] = "done"]
    BY <1>3 DEF Leave, Unregistered
  <2> QED
    BY <2>1, EntryChanges DEF Places
<1>4. ASSUME NEW f \in Files, ReadFile(f) \/ Receive(f) \/ Submits(f) PROVE Named'
  <2>1. cancels' = cancels
    BY <1>4 DEF ReadFile, Read, ReadFails, Close, Receive, Submits, SubmitQueued,
       SubmitRefused, SubmitHandedOver
  <2>2. pc' = pc \/ (pc[f] \in {"recv", "submit"} /\ \E w \in {"recv", "submit"} :
                       pc' = [pc EXCEPT ![f] = w])
    BY <1>4, ReadSteps, ReceiveSteps, SubmitSteps
  <2>3. \A g \in Files : /\ pc'[g] \notin {"start", "done"} <=> pc[g] \notin {"start", "done"}
                         /\ pc'[g] = "start" <=> pc[g] = "start"
    BY <2>2
  <2> QED
    BY <2>1, <2>3
<1>5. CASE UNCHANGED <<pc, cancels>>
  BY <1>5
<1> QED
  BY <1>1, <1>2, <1>3, <1>4, <1>5, StandingSteps, Steps

(* Whatever basenames the files share, an entry of r.cancels is an active  *)
(* file of that name, and an active file can be cancelled as long as no    *)
(* other one of its name was started (runner.go:70-81, :123-130). *)
THEOREM NamesAreRight == Spec => []NamesTheRightFile
<1>1. Init => Named
  BY IngestAssumption DEF Init, Named, NamesTheRightFile, Active, Names
<1>2. Control /\ Named /\ [Next]_vars => Named'
  BY NamedStep
<1>3. Named => NamesTheRightFile
  BY DEF Named
<1> QED
  BY <1>1, <1>2, <1>3, ControlHolds, PTL DEF Spec

-----------------------------------------------------------------------------
(* What a file is charged *)

(* There are no more rows that parse than lines, which is what is charged. *)
LEMMA LinesCoverRows ==
    ASSUME NEW f \in Files
    PROVE  DataLines[f] \in Nat /\ Cardinality(RowsOf(f)) <= DataLines[f]
<1>1. DataLines[f] \in Nat /\ Len(Rows[f]) \in Nat
      /\ (f \notin BadHeader => Len(Rows[f]) <= DataLines[f])
  BY TextFacts
<1>2. CASE f \in BadHeader
  <2>1. \A r \in RowsOf(f) : Email(r) = Bad
    <3>1. Rows[f] = <<Bad>>
      BY <1>2 DEF Rows
    <3> QED BY <3>1 DEF RowsOf, GoodRows, RowIds, FileOf, Email
  <2>2. RowsOf(f) = {}
    BY <2>1, RowsOfFacts
  <2> QED BY <1>1, <2>2, FS_EmptySet
<1>3. CASE f \notin BadHeader
  <2> DEFINE P == {f} \X (1 .. Len(Rows[f]))
  <2>1. IsFiniteSet({f}) /\ Cardinality({f}) = 1
    BY FS_Singleton
  <2>2. IsFiniteSet(1 .. Len(Rows[f])) /\ Cardinality(1 .. Len(Rows[f])) = Len(Rows[f])
    <3> DEFINE n == Len(Rows[f])
    <3>1. n \in Nat
      BY <1>1
    <3> HIDE DEF n
    <3>2. IsFiniteSet(1 .. n) /\ Cardinality(1 .. n) = IF 1 > n THEN 0 ELSE n - 1 + 1
      BY <3>1, FS_Interval
    <3>3. Cardinality(1 .. n) = n
      BY <3>1, <3>2
    <3> QED BY <3>2, <3>3 DEF n
  <2>3. IsFiniteSet(P) /\ Cardinality(P) = 1 * Len(Rows[f])
    <3> DEFINE A == {f}
               B == 1 .. Len(Rows[f])
    <3>1. /\ IsFiniteSet(A) /\ Cardinality(A) = 1
          /\ IsFiniteSet(B) /\ Cardinality(B) = Len(Rows[f]) /\ P = A \X B
      BY <2>1, <2>2
    <3> HIDE DEF A, B, P
    <3>2. IsFiniteSet(A \X B) /\ Cardinality(A \X B) = Cardinality(A) * Cardinality(B)
      BY <3>1, FS_Product
    <3> QED BY <3>1, <3>2, Zenon
  <2>4. RowsOf(f) \subseteq P
    BY DEF RowsOf, GoodRows, RowIds, FileOf
  <2> HIDE DEF P
  <2>5. Cardinality(RowsOf(f)) <= Cardinality(P) /\ IsFiniteSet(RowsOf(f))
    BY <2>3, <2>4, FS_Subset
  <2>6. Cardinality(RowsOf(f)) \in Nat
    BY <2>5, FS_CardinalityType
  <2> QED BY <1>1, <1>3, <2>3, <2>5, <2>6
<1> QED
  BY <1>2, <1>3

BeforeStream == {"start", "gate", "reply", "open"}
AfterStream == {"wait", "after", "publish"}
Cancelled(f) == rootDone \/ f \in cancelled

(* Where a file is before and after its stream, and where its reader is.   *)
(* A row that was read was submitted, unless it is still to be sent.       *)
Streaming ==
    /\ files \subseteq Files
    /\ \A f \in files : pc[f] \in {"leave", "done"}
    /\ \A f \in Files :
         pc[f] \in BeforeStream \/ (pc[f] \in {"leave", "done"} /\ f \notin files) =>
           \A r \in RowsOf(f) : submit[r] = "idle"
    /\ \A f \in Files : src[f] \in {"loop", "send", "fail"} => pc[f] \in {"recv", "submit"}
    /\ \A f \in Files : pc[f] \in AfterStream \/ f \in files => src[f] = "closed"
    /\ \A f \in Files : src[f] = "closed" => pos[f] = Len(Rows[f]) \/ Cancelled(f)
    /\ \A f \in Files : \A r \in RowsOf(f) :
         r[2] <= pos[f] /\ submit[r] = "idle" =>
           (r[2] = pos[f] /\ src[f] = "send") \/ Cancelled(f)

LEMMA StreamingStep ==
    ASSUME Control, Discipline, Streaming, [Next]_vars PROVE Streaming'
<1> USE IngestAssumption
<1>0. \A f \in Files : Cancelled(f) => Cancelled(f)'
  BY CancelsGrow DEF Cancelled
<1>1. ASSUME NEW f \in Files, Quiet(f) PROVE Streaming'
  <2>1. UNCHANGED <<submit, pos>> /\ pc[f] \notin {"submit", "leave", "done"}
    BY <1>1, QuietSteps DEF poolVars
  <2>2. CASE Register(f) \/ GateFree(f) \/ GateCharge(f) \/ GateReply(f) \/ GateSkip(f)
             \/ OpenFails(f)
    <3>1. /\ pc[f] \in BeforeStream
          /\ \E w \in BeforeStream \cup {"leave"} : pc' = [pc EXCEPT ![f] = w]
          /\ UNCHANGED <<src, files>>
      BY <2>2 DEF Register, GateFree, GateCharge, GateReply, GateSkip, OpenFails, Goto,
         BeforeStream
    <3> QED
      BY <1>0, <2>1, <3>1 DEF Streaming, Control, BeforeStream, AfterStream
  <2>3. CASE Open(f)
    <3>1. /\ pc[f] = "open" /\ pc' = [pc EXCEPT ![f] = "recv"]
          /\ src' = [src EXCEPT ![f] = "loop"] /\ files' = files
      BY <2>3 DEF Open, Goto
    <3> QED
      BY <1>0, <2>1, <3>1 DEF Streaming, Control, BeforeStream, AfterStream
  <2>4. CASE ReceiveBad(f)
    <3>1. /\ pc[f] = "recv" /\ pc' = pc /\ files' = files
          /\ src[f] = "fail" \/ (src[f] = "send" /\ Email(Current(f)) = Bad)
          /\ src' = [src EXCEPT ![f] = "loop"]
      BY <2>4 DEF ReceiveBad, Receiving
    <3>2. \A r \in RowsOf(f) : r[2] = pos[f] => r = Current(f) /\ Email(r) # Bad
      BY RowsOfFacts DEF Current
    <3> QED
      BY <1>0, <2>1, <3>1, <3>2 DEF Streaming, Control, BeforeStream, AfterStream
  <2>5. CASE EndOfStream(f) \/ Wait(f) \/ After(f)
    <3>1. /\ pc[f] \in {"recv", "wait", "after"}
          /\ \E w \in AfterStream : pc' = [pc EXCEPT ![f] = w]
          /\ pc[f] = "recv" => src[f] = "closed"
          /\ UNCHANGED <<src, files>>
      BY <2>5 DEF EndOfStream, Wait, After, Goto, AfterStream
    <3> QED
      BY <1>0, <2>1, <3>1 DEF Streaming, Control, BeforeStream, AfterStream
  <2>6. CASE Publish(f)
    <3>1. /\ pc[f] = "publish" /\ pc' = [pc EXCEPT ![f] = "leave"]
          /\ files' = files \cup {f} /\ src' = src
      BY <2>6 DEF Publish, Goto
    <3> QED
      BY <1>0, <2>1, <3>1 DEF Streaming, Control, BeforeStream, AfterStream
  <2> QED
    BY <1>1, <2>2, <2>3, <2>4, <2>5, <2>6 DEF Quiet
<1>2. ASSUME NEW f \in Files, Leave(f) PROVE Streaming'
  <2>1. /\ UNCHANGED <<submit, src, pos, files>>
        /\ pc[f] = "leave" /\ pc' = [pc EXCEPT ![f] = "done"]
    BY <1>2, LeaveSteps DEF Leave, poolVars
  <2> QED
    BY <1>0, <2>1 DEF Streaming, Control, BeforeStream, AfterStream
<1>3. ASSUME NEW f \in Files, ReadFile(f) PROVE Streaming'
  <2>1. UNCHANGED <<submit, pc, files>>
    BY <1>3, ReadSteps DEF poolVars, ReadFile, Read, ReadFails, Close
  <2>2. CASE Read(f)
    <3>1. /\ src[f] = "loop" /\ src' = [src EXCEPT ![f] = "send"]
          /\ pos' = [pos EXCEPT ![f] = @ + 1]
      BY <2>2 DEF Read
    <3>2. \A r \in RowsOf(f) : r[2] <= pos[f] + 1 => r[2] <= pos[f] \/ r[2] = pos[f] + 1
      BY RowsOfFacts DEF Control
    <3> QED
      BY <1>0, <2>1, <3>1, <3>2 DEF Streaming, Control, BeforeStream, AfterStream
  <2>3. CASE ReadFails(f)
    <3>1. src[f] = "loop" /\ src' = [src EXCEPT ![f] = "fail"] /\ pos' = pos
      BY <2>3 DEF ReadFails
    <3> QED
      BY <1>0, <2>1, <3>1 DEF Streaming, Control, BeforeStream, AfterStream
  <2>4. CASE Close(f)
    <3>1. /\ src[f] \in {"loop", "send", "fail"} /\ src' = [src EXCEPT ![f] = "closed"]
          /\ pos' = pos
          /\ (src[f] = "loop" /\ AtEnd(f)) \/ FctxDone(f)
      BY <2>4 DEF Close, StreamEnds
    <3>2. (src[f] = "loop" /\ AtEnd(f)) \/ Cancelled(f)
      BY <3>1 DEF Streaming, FctxDone, Cancelled
    <3> QED
      BY <1>0, <2>1, <3>1, <3>2 DEF Streaming, Control, BeforeStream, AfterStream, AtEnd
  <2> QED
    BY <1>3, <2>2, <2>3, <2>4 DEF ReadFile
<1>4. ASSUME NEW f \in Files, Receive(f) PROVE Streaming'
  <2>1. /\ Current(f) \in GoodRows /\ FileOf(Current(f)) = f
        /\ submit' = [submit EXCEPT ![Current(f)] = "sending"]
        /\ pc[f] = "recv" /\ pc' = [pc EXCEPT ![f] = "submit"]
        /\ src[f] = "send" /\ src' = [src EXCEPT ![f] = "loop"]
        /\ UNCHANGED <<pos, files>>
    BY <1>4, ReceiveSteps DEF Receive
  <2>2. \A r \in RowsOf(f) : r[2] = pos[f] => r = Current(f)
    BY RowsOfFacts DEF Current
  <2>3. \A g \in Files : \A r \in RowsOf(g) : r \in GoodRows /\ (g # f => r # Current(f))
    BY <2>1, RowsOfFacts
  <2> QED
    BY <1>0, <2>1, <2>2, <2>3 DEF Streaming, Control, BeforeStream, AfterStream
<1>5. ASSUME NEW f \in Files, Submits(f) PROVE Streaming'
  <2>1. /\ pc[f] = "submit" /\ pc' = [pc EXCEPT ![f] = "recv"]
        /\ UNCHANGED <<src, pos, files>>
        /\ \E r \in GoodRows, w \in {"refused", "accepted"} :
             FileOf(r) = f /\ submit[r] = "sending" /\ submit' = [submit EXCEPT ![r] = w]
    BY <1>5, SubmitSteps DEF Submits, SubmitQueued, SubmitRefused, SubmitHandedOver
  <2>2. \A g \in Files : \A s \in RowsOf(g) :
          /\ submit'[s] = "idle" => submit[s] = "idle"
          /\ g # f => submit'[s] = submit[s]
    BY <2>1, RowsOfFacts DEF Control
  <2> QED
    BY <1>0, <2>1, <2>2 DEF Streaming, Control, BeforeStream, AfterStream
<1>6. CASE UNCHANGED <<submit, pc, src, pos, files>>
  BY <1>0, <1>6 DEF Streaming
<1> QED
  BY <1>1, <1>2, <1>3, <1>4, <1>5, <1>6, StandingSteps, Steps

LEMMA StreamingHolds == Spec => []Streaming
<1>1. Init => Streaming
  BY RowsOfFacts DEF Init, Pool!Init, Streaming, BeforeStream, AfterStream
<1>2. Control /\ Discipline /\ Streaming /\ [Next]_vars => Streaming'
  BY StreamingStep
<1> QED
  BY <1>1, <1>2, ControlHolds, PTL DEF Spec

(* The counter handled never exceeds the rows of the file, and is zero     *)
(* while none was submitted. *)
LEMMA HandledIsBounded ==
    ASSUME Placed, Chained, Tally, NEW f \in Files
    PROVE  /\ handled[f] \in Nat /\ handled[f] <= DataLines[f]
           /\ (\A r \in RowsOf(f) : submit[r] = "idle") => handled[f] = 0
<1>1. CountedRows(f) \subseteq RowsOf(f)
  BY DEF CountedRows, RowsWith
<1>2. IsFiniteSet(RowsOf(f))
  BY RowsAreFinite
<1>4. IsFiniteSet(CountedRows(f)) /\ Cardinality(CountedRows(f)) <= Cardinality(RowsOf(f))
  BY <1>1, <1>2, FS_Subset
<1>5. Cardinality(RowsOf(f)) \in Nat
  BY <1>2, FS_CardinalityType
<1>6. Cardinality(CountedRows(f)) \in Nat
  BY <1>4, FS_CardinalityType
<1>3. ASSUME \A r \in RowsOf(f) : submit[r] = "idle" PROVE CountedRows(f) = {}
  <2>1. \A r \in RowsOf(f) : outcome[r] = "none"
    BY <1>3, RowsOfFacts DEF Chained, Placed, WithExecutor
  <2> QED
    BY <2>1 DEF CountedRows, RowsWith
<1> QED
  BY <1>3, <1>4, <1>5, <1>6, FS_EmptySet, LinesCoverRows DEF Tally

(* What a file was charged, at each place. *)
Bill(f) ==
    /\ pc[f] \in {"start", "gate"} => reserved[f] = 0 /\ billed[f] = 0
    /\ pc[f] = "reply" => reserved[f] = 0 /\ billed[f] = DataLines[f]
    /\ pc[f] \in {"open", "recv", "submit", "wait", "after"} =>
         reserved[f] = DataLines[f] /\ billed[f] = DataLines[f]
    /\ pc[f] \in {"publish", "leave", "done"} =>
         billed[f] >= handled[f] /\ (billed[f] = handled[f] \/ Cancelled(f) \/ f \in lost)

Billing ==
    /\ reserved \in [Files -> Nat]
    /\ billed \in [Files -> Nat]
    /\ Gated => \A f \in Files : Bill(f)

(* AfterFile leaves a file that was charged its lines charged what it       *)
(* handled, unless its context is done or the call fails. *)
LEMMA AfterFileSettles ==
    ASSUME Gated, Billing, NEW f \in Files, pc[f] \in {"open", "after"},
           NEW n \in Nat, n <= DataLines[f], DataLines[f] \in Nat, AfterFile(f, n)
    PROVE  /\ billed' \in [Files -> Nat] /\ lost \subseteq lost'
           /\ \A g \in Files \ {f} : billed'[g] = billed[g]
           /\ billed'[f] >= n
           /\ billed'[f] = n \/ Cancelled(f) \/ f \in lost'
<1>1. reserved[f] = DataLines[f] /\ billed[f] = DataLines[f] /\ billed \in [Files -> Nat]
  BY DEF Billing, Bill
<1>2. FctxDone(f) <=> Cancelled(f)
  BY DEF FctxDone, Cancelled
<1>3. CASE billed' = Refund(f, n) /\ UNCHANGED lost
  <2>1. CASE Refundable(f, n)
    <3>1. billed[f] - (reserved[f] - n) = n
      BY <1>1
    <3>2. billed' = [billed EXCEPT ![f] = n]
      BY <1>3, <2>1, <3>1 DEF Refund
    <3> QED BY <1>1, <1>3, <3>2
  <2>2. CASE ~ Refundable(f, n)
    BY <1>1, <1>2, <1>3, <2>2 DEF Refund, Refundable
  <2> QED BY <2>1, <2>2
<1>4. CASE Refundable(f, n) /\ billed' \in {billed, Refund(f, n)} /\ lost' = Lost(f)
  <2>1. lost' = lost \cup {f}
    BY <1>4 DEF Refundable, Lost
  <2>2. billed' = billed \/ billed' = [billed EXCEPT ![f] = n]
    <3>1. billed[f] - (reserved[f] - n) = n
      BY <1>1
    <3> QED BY <1>4, <3>1 DEF Refund
  <2>3. billed' \in [Files -> Nat] /\ \A g \in Files \ {f} : billed'[g] = billed[g]
    BY <1>1, <2>2
  <2>4. billed'[f] \in {n, DataLines[f]}
    BY <1>1, <2>2
  <2> QED BY <2>1, <2>3, <2>4
<1> QED
  BY <1>3, <1>4 DEF AfterFile

LEMMA BillingStep ==
    ASSUME Control, Discipline, Placed, NoneDue, Chained, Tally, Streaming, Billing,
           [Next]_vars
    PROVE  Billing'
<1>1. \A f \in Files : /\ DataLines[f] \in Nat /\ handled[f] \in Nat
                       /\ handled[f] <= DataLines[f]
                       /\ reserved[f] \in Nat /\ billed[f] \in Nat
                       /\ pc[f] \in {"gate", "reply", "open"} => handled[f] = 0
  BY HandledIsBounded, LinesCoverRows DEF Billing, Streaming, BeforeStream
<1>2. \A f \in Files : Cancelled(f) => Cancelled(f)'
  BY CancelsGrow DEF Cancelled
<1>3. ASSUME NEW f \in Files, Quiet(f) PROVE Billing'
  <2>1. /\ handled' = handled /\ pc[f] \notin {"submit", "leave", "done"}
        /\ \A g \in Files \ {f} : pc'[g] = pc[g]
    BY <1>3, QuietSteps DEF Control
  <2>2. ASSUME reserved' \in [Files -> Nat], billed' \in [Files -> Nat], lost \subseteq lost',
               \A g \in Files \ {f} : reserved'[g] = reserved[g] /\ billed'[g] = billed[g],
               Gated => Bill(f)'
        PROVE  Billing'
    <3>1. ASSUME Gated, NEW g \in Files \ {f} PROVE Bill(g)'
      BY <1>2, <2>1, <2>2, <3>1 DEF Billing, Bill
    <3> QED BY <2>2, <3>1 DEF Billing
  <2>3. CASE Register(f) \/ GateFree(f) \/ Open(f) \/ ReceiveBad(f) \/ EndOfStream(f)
             \/ Wait(f) \/ Publish(f)
    <3>1. UNCHANGED <<reserved, billed, lost>>
      BY <2>3 DEF Register, GateFree, Open, ReceiveBad, EndOfStream, Wait, Publish
    <3>2. \/ pc'[f] = pc[f]
          \/ pc[f] = "start" /\ pc'[f] = IF Gated THEN "gate" ELSE "open"
          \/ pc[f] = "gate" /\ DataLines[f] = 0 /\ pc'[f] = "open"
          \/ pc[f] \in {"open", "recv", "wait"} /\ pc'[f] \in {"recv", "wait", "after"}
          \/ pc[f] = "publish" /\ pc'[f] = "leave"
      BY <2>3 DEF Register, GateFree, Open, ReceiveBad, EndOfStream, Wait, Publish, Goto,
         Control
    <3>3. Gated => Bill(f)'
      BY <1>1, <1>2, <2>1, <3>1, <3>2 DEF Billing, Bill
    <3> QED
      BY <2>2, <3>1, <3>3 DEF Billing
  <2>4. CASE GateCharge(f)
    <3>1. /\ pc[f] = "gate" /\ pc'[f] = "reply"
          /\ billed' = [billed EXCEPT ![f] = DataLines[f]]
          /\ UNCHANGED <<reserved, lost>>
      BY <2>4 DEF GateCharge, Goto, Control
    <3>2. /\ billed' \in [Files -> Nat] /\ billed'[f] = DataLines[f]
          /\ \A g \in Files \ {f} : billed'[g] = billed[g]
      BY <1>1, <3>1 DEF Billing
    <3>3. Gated => Bill(f)'
      BY <3>1, <3>2 DEF Billing, Bill
    <3> QED
      BY <2>2, <3>1, <3>2, <3>3 DEF Billing
  <2>5. CASE GateReply(f)
    <3>1. /\ pc[f] = "reply" /\ pc'[f] = "open"
          /\ reserved' = [reserved EXCEPT ![f] = DataLines[f]]
          /\ UNCHANGED <<billed, lost>>
      BY <2>5 DEF GateReply, Goto, Control
    <3>2. /\ reserved' \in [Files -> Nat] /\ reserved'[f] = DataLines[f]
          /\ \A g \in Files \ {f} : reserved'[g] = reserved[g]
      BY <1>1, <3>1 DEF Billing
    <3>3. Gated => Bill(f)'
      BY <3>1, <3>2 DEF Billing, Bill
    <3> QED
      BY <2>2, <3>1, <3>2, <3>3 DEF Billing
  <2>6. CASE GateSkip(f)
    <3>1. /\ pc'[f] = "leave" /\ UNCHANGED <<reserved, billed>> /\ lost \subseteq lost'
          /\ pc[f] = "gate" \/ (pc[f] = "reply" /\ (Cancelled(f) \/ f \in lost'))
      BY <2>6 DEF GateSkip, Goto, Control, Lost, FctxDone, Cancelled
    <3>2. Gated => Bill(f)'
      BY <1>1, <1>2, <2>1, <3>1 DEF Billing, Bill
    <3> QED
      BY <2>2, <3>1, <3>2 DEF Billing
  <2>7. ASSUME NEW n \in Nat, n = handled[f], AfterFile(f, n), pc[f] \in {"open", "after"},
               pc'[f] \in {"publish", "leave"}, UNCHANGED reserved
        PROVE  Billing'
    <3>1. CASE Gated
      <4>1. /\ billed' \in [Files -> Nat] /\ lost \subseteq lost' /\ billed'[f] >= n
            /\ \A g \in Files \ {f} : billed'[g] = billed[g]
            /\ billed'[f] = n \/ Cancelled(f) \/ f \in lost'
        BY <1>1, <2>7, <3>1, AfterFileSettles
      <4>2. Bill(f)'
        BY <1>2, <2>1, <2>7, <4>1 DEF Bill
      <4> QED
        BY <2>2, <2>7, <4>1, <4>2 DEF Billing
    <3>2. CASE ~ Gated
      BY <2>2, <2>7, <3>2 DEF AfterFile, Refund, Refundable, Billing
    <3> QED
      BY <3>1, <3>2
  <2>8. CASE OpenFails(f)
    <3>1. /\ pc[f] = "open" /\ pc'[f] = "leave" /\ AfterFile(f, 0) /\ UNCHANGED reserved
      BY <2>8 DEF OpenFails, Goto, Control
    <3> QED BY <1>1, <2>7, <3>1
  <2>9. CASE After(f)
    <3>1. /\ pc[f] = "after" /\ pc'[f] = "publish" /\ AfterFile(f, handled[f])
          /\ UNCHANGED reserved
      BY <2>9 DEF After, Goto, Control
    <3> QED BY <1>1, <2>7, <3>1
  <2> QED
    BY <1>3, <2>3, <2>4, <2>5, <2>6, <2>8, <2>9 DEF Quiet
<1>4. ASSUME NEW f \in Files, Leave(f) PROVE Billing'
  <2>1. /\ pc[f] = "leave" /\ pc' = [pc EXCEPT ![f] = "done"]
        /\ UNCHANGED <<reserved, billed, lost, handled>>
    BY <1>4, LeaveSteps DEF Leave
  <2> QED
    BY <1>1, <1>2, <2>1 DEF Billing, Bill, Control
<1>5. ASSUME NEW f \in Files, ReadFile(f) PROVE Billing'
  <2>1. UNCHANGED <<reserved, billed, lost, handled, pc>>
    BY <1>5, ReadSteps DEF ReadFile, Read, ReadFails, Close
  <2> QED
    BY <1>2, <2>1 DEF Billing, Bill
<1>6. ASSUME NEW f \in Files, Receive(f) \/ Submits(f) PROVE Billing'
  <2>1. UNCHANGED <<reserved, billed, lost, handled>>
    BY <1>6 DEF Receive, Submits, SubmitQueued, SubmitRefused, SubmitHandedOver, chainVars
  <2>2. \/ pc[f] = "recv" /\ pc' = [pc EXCEPT ![f] = "submit"]
        \/ pc[f] = "submit" /\ pc' = [pc EXCEPT ![f] = "recv"]
    BY <1>6, ReceiveSteps, SubmitSteps
  <2> QED
    BY <1>2, <2>1, <2>2 DEF Billing, Bill, Control
<1>7. CASE UNCHANGED <<pc, reserved, billed, lost>>
  <2>1. \A f \in Files : pc[f] \in {"publish", "leave", "done"} => handled'[f] = handled[f]
    <3>1. CASE UNCHANGED <<outcome, handled>>
      BY <3>1
    <3>2. ASSUME NEW e \in Executors, NEW o \in {"ok", "dedup", "cancelled"},
                 stage[e] \in {"begin", "work"}, Settle(e, o)
          PROVE  \A f \in Files : pc[f] \in {"publish", "leave", "done"} => handled'[f] = handled[f]
      <4>1. running[e] # NoRow
        BY <3>2 DEF Chained
      <4>2. pc[FileOf(running[e])] \in {"recv", "submit", "wait"}
        BY <4>1, RunnersAreWanted
      <4>3. \A f \in Files : pc[f] \in {"publish", "leave", "done"} => f # FileOf(running[e])
        BY <4>2
      <4> QED
        BY <3>2, <4>3 DEF Settle, Tally
    <3> QED
      BY <3>1, <3>2, OutcomeSteps
  <2> QED
    BY <1>1, <1>2, <1>7, <2>1 DEF Billing, Bill
<1> QED
  BY <1>3, <1>4, <1>5, <1>6, <1>7, StandingSteps, Steps

LEMMA BillingHolds == Spec => []Billing
<1>1. Init => Billing
  BY DEF Init, Billing, Bill
<1>2. Control /\ Discipline /\ Placed /\ NoneDue /\ Chained /\ Tally /\ Streaming /\ Billing
        /\ [Next]_vars => Billing'
  BY BillingStep
<1> QED
  BY <1>1, <1>2, ControlHolds, PlacedHolds, NoneDueHolds, ChainedHolds, TallyHolds,
     StreamingHolds, PTL DEF Spec

(* The token service never charged a file less than it handled, cancelled  *)
(* or not: what the gate reserves covers every row (cmd/ingest/tokens.go). *)
THEOREM BillIsNeverLow == Spec => []NeverUnderbilled
<1>1. Control /\ Placed /\ Chained /\ Tally /\ Streaming /\ Billing => NeverUnderbilled
  <2> SUFFICES ASSUME Control, Placed, Chained, Tally, Streaming, Billing, Gated,
                      NEW f \in Files, reserved[f] > 0
               PROVE  billed[f] >= handled[f]
    BY DEF NeverUnderbilled
  <2>1. /\ handled[f] <= DataLines[f] /\ handled[f] \in Nat /\ billed[f] \in Nat
        /\ (\A r \in RowsOf(f) : submit[r] = "idle") => handled[f] = 0
    BY HandledIsBounded DEF Billing
  <2>2. CASE pc[f] \in {"start", "gate", "reply"}
    BY <2>2 DEF Billing, Bill
  <2>3. CASE pc[f] \in {"open", "recv", "submit", "wait", "after"}
    BY <2>1, <2>3 DEF Billing, Bill
  <2>4. CASE pc[f] \in {"publish", "leave", "done"}
    BY <2>4 DEF Billing, Bill
  <2> QED
    BY <2>2, <2>3, <2>4 DEF Control, Places
<1> QED
  BY <1>1, ControlHolds, PlacedHolds, ChainedHolds, TallyHolds, StreamingHolds, BillingHolds,
     PTL

(* A file that nothing cancelled is charged the rows it handled, unless    *)
(* the token service failed to answer one of its calls, and all rows of a  *)
(* file that was streamed are handled (BeforeFile and AfterFile,           *)
(* cmd/ingest/tokens.go). *)
THEOREM BillIsExact == Spec => []BilledExactly
<1>1. Control /\ Placed /\ NoneDue /\ Chained /\ CancelIsolated /\ Tally /\ Streaming
        /\ Billing => BilledExactly
  <2> SUFFICES ASSUME Control, Placed, NoneDue, Chained, CancelIsolated, Tally, Streaming,
                      Billing, NEW f \in Files, pc[f] = "done", ~ rootDone,
                      f \notin cancelled
               PROVE  /\ Gated /\ f \notin lost => billed[f] = handled[f]
                      /\ f \in files => handled[f] = Cardinality(RowsOf(f))
    BY DEF BilledExactly
  <2>1. ~ Cancelled(f)
    BY DEF Cancelled
  <2> SUFFICES ASSUME f \in files PROVE handled[f] = Cardinality(RowsOf(f))
    BY <2>1 DEF Billing, Bill
  <2>2. src[f] = "closed" /\ pos[f] = Len(Rows[f])
    BY <2>1 DEF Streaming
  <2>3. ASSUME NEW r \in RowsOf(f) PROVE Counts(outcome[r])
    <3>1. /\ r \in GoodRows /\ FileOf(r) = f /\ r[2] \in 1 .. Len(Rows[f])
      BY RowsOfFacts
    <3>2. submit[r] # "idle"
      BY <2>1, <2>2, <3>1, IngestAssumption DEF Streaming
    <3>3. submit[r] # "refused" /\ outcome[r] # "cancelled"
      BY <3>1 DEF CancelIsolated
    <3>4. ~ Due(r)
      BY <3>1 DEF NoneDue
    <3>5. r \in finished
      BY <3>1, <3>2, <3>3, <3>4 DEF Due, Control
    <3> QED
      BY <3>1, <3>3, <3>5 DEF Chained, Outcomes, Counts
  <2>4. CountedRows(f) = RowsOf(f)
    BY <2>3 DEF CountedRows, RowsWith, Counts
  <2> QED
    BY <2>4 DEF Tally
<1> QED
  BY <1>1, ControlHolds, PlacedHolds, NoneDueHolds, ChainedHolds, CancellationIsIsolated,
     TallyHolds, StreamingHolds, BillingHolds, PTL
=============================================================================
