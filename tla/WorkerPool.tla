----------------------------- MODULE WorkerPool -----------------------------
(***************************************************************************)
(* The worker pool of src/internal/pool/pool.go: a channel of jobs, a      *)
(* stack of workers that can be resized while it runs, Submit, Stop and    *)
(* the cancellation of the contexts they listen to.                        *)
(*                                                                         *)
(* The core actions constrain only the pool's own variables (poolVars), so *)
(* that IngestRun can conjoin them with the steps of the caller.  Next     *)
(* closes the system with an environment that cancels contexts at will.    *)
(***************************************************************************)
EXTENDS Integers, FiniteSets, SequencesExt

CONSTANTS
    Jobs,        \* the jobs that are ever submitted, one Submit call each
    NoJob,       \* the absence of a job
    MaxWorkers,  \* bound: how many workers are ever added
    QueueSize,   \* capacity of the jobs channel; 0 makes it unbuffered
    Contract     \* how much of Stop's contract the callers honour

(* "none": nothing.  "call": no goroutine is inside Submit when Stop is    *)
(* called, which is the contract as it is written.  "closed": besides, no  *)
(* Submit is started after that, which is how cmd/ingest uses the pool.    *)
ASSUME PoolAssumption ==
    /\ NoJob \notin Jobs
    /\ MaxWorkers \in Nat
    /\ QueueSize \in Nat
    /\ Contract \in {"none", "call", "closed"}

VARIABLES
    workers,   \* p.workers: the stack of worker ids
    nextID,    \* p.nextID
    alive,     \* the workers whose run has not returned (the count of p.wg)
    quit,      \* the workers whose quit channel is closed
    running,   \* the job each executor is in; 0 is the drain loop of Stop
    jobs,      \* the buffer of the p.jobs channel
    stop,      \* p.stop is closed
    submit,    \* where each Submit call is
    stopPc,    \* where the first call of Stop is
    finished,  \* jobs whose function has returned
    rootDone,  \* p.rootCtx is done
    ctxDone    \* the jobs whose own context is done

poolVars == <<workers, nextID, alive, quit, running, jobs, stop, submit,
              stopPc, finished>>
envVars == <<rootDone, ctxDone>>
vars == <<workers, nextID, alive, quit, running, jobs, stop, submit,
          stopPc, finished, rootDone, ctxDone>>

Workers == 1 .. MaxWorkers
Executors == 0 .. MaxWorkers

Queued == ToSet(jobs)
OnStack == ToSet(workers)
In(where) == {j \in Jobs : submit[j] = where}
Executing == {j \in Jobs : \E e \in Executors : running[e] = j}

(* Mistakes that the properties below tell from the code: each definition   *)
(* of this block is a wrong version of the one its name starts with. *)
NewIDBeforeIncrement == nextID
RestWithHead == jobs
SignalledNobody(w) == quit
ReceivingWhileBusy(e) == IF e = 0 THEN stopPc = "draining" ELSE e \in alive
AtSelectWhileBusy(w) == w \in alive
RefuseCauseIgnoresRoot(j) == stop \/ j \in ctxDone
ExitCauseIgnoresQuit(w) == stop \/ rootDone
ExitCauseIgnoresStop(w) == w \in quit \/ rootDone
ExitCauseSharesQuit(w) == quit # {} \/ stop \/ rootDone
DrainedUnseen == TRUE

Init ==
    /\ workers = <<>>
    /\ nextID = 0
    /\ alive = {}
    /\ quit = {}
    /\ running = [e \in Executors |-> NoJob]
    /\ jobs = <<>>
    /\ stop = FALSE
    /\ submit = [j \in Jobs |-> "idle"]
    /\ stopPc = "off"
    /\ finished = {}
    /\ rootDone = FALSE
    /\ ctxDone = {}

-----------------------------------------------------------------------------
(* Resizing *)

NewID == nextID + 1

AddWorker ==
    /\ nextID < MaxWorkers
    /\ nextID' = nextID + 1
    /\ workers' = Append(workers, NewID)
    /\ alive' = alive \cup {NewID}
    /\ UNCHANGED <<quit, running, jobs, stop, submit, stopPc, finished>>

Popped == Front(workers)
Signalled(w) == quit \cup {w}

(* The quit channel is closed after p.mu is released.  The close needs     *)
(* nothing more, and a worker whose quit is closed may still take a job,   *)
(* so a close a moment later shows no behaviour that this step does not.   *)
RemoveWorker ==
    /\ workers # <<>>
    /\ workers' = Popped
    /\ quit' = Signalled(Last(workers))
    /\ UNCHANGED <<nextID, alive, running, jobs, stop, submit, stopPc, finished>>

-----------------------------------------------------------------------------
(* Submit: one goroutine per call, blocked in a select with four cases *)

SubmitCall(j) ==
    /\ submit[j] = "idle"
    /\ Contract = "closed" => ~stop
    /\ submit' = [submit EXCEPT ![j] = "sending"]
    /\ UNCHANGED <<workers, nextID, alive, quit, running, jobs, stop, stopPc,
                   finished>>

Enqueue(j) ==
    /\ submit[j] = "sending"
    /\ Len(jobs) < QueueSize
    /\ jobs' = Append(jobs, j)
    /\ submit' = [submit EXCEPT ![j] = "accepted"]
    /\ UNCHANGED <<workers, nextID, alive, quit, running, stop, stopPc, finished>>

(* e is at a receive on p.jobs: a worker in the select of run, or Stop in  *)
(* its drain loop *)
Receiving(e) ==
    /\ running[e] = NoJob
    /\ IF e = 0 THEN stopPc = "draining" ELSE e \in alive

(* Without a buffer a send completes only with a receiver. *)
Handoff(j, e) ==
    /\ QueueSize = 0
    /\ submit[j] = "sending"
    /\ Receiving(e)
    /\ running' = [running EXCEPT ![e] = j]
    /\ submit' = [submit EXCEPT ![j] = "accepted"]
    /\ UNCHANGED <<workers, nextID, alive, quit, jobs, stop, stopPc, finished>>

RefuseCause(j) == stop \/ rootDone \/ j \in ctxDone

Refuse(j) ==
    /\ submit[j] = "sending"
    /\ RefuseCause(j)
    /\ submit' = [submit EXCEPT ![j] = "refused"]
    /\ UNCHANGED <<workers, nextID, alive, quit, running, jobs, stop, stopPc,
                   finished>>

-----------------------------------------------------------------------------
(* run, the loop of a worker *)

Rest == Tail(jobs)

(* A receive from the buffer: by a worker, or by Stop draining (e = 0). *)
Take(e) ==
    /\ Receiving(e)
    /\ jobs # <<>>
    /\ running' = [running EXCEPT ![e] = Head(jobs)]
    /\ jobs' = Rest
    /\ UNCHANGED <<workers, nextID, alive, quit, stop, submit, stopPc, finished>>

ExitCause(w) == w \in quit \/ stop \/ rootDone

(* w is at its select, not in a job. *)
AtSelect(w) == w \in alive /\ running[w] = NoJob

(* The select has no order: a worker told to leave may take a job instead. *)
Exit(w) ==
    /\ AtSelect(w)
    /\ ExitCause(w)
    /\ alive' = alive \ {w}
    /\ UNCHANGED <<workers, nextID, quit, running, jobs, stop, submit, stopPc,
                   finished>>

Finish(e) ==
    /\ running[e] # NoJob
    /\ finished' = finished \cup {running[e]}
    /\ running' = [running EXCEPT ![e] = NoJob]
    /\ UNCHANGED <<workers, nextID, alive, quit, jobs, stop, submit, stopPc>>

-----------------------------------------------------------------------------
(* Stop.  Only the first call does anything: a later one finds p.stop      *)
(* closed and returns at once, a stuttering step. *)

StopCall ==
    /\ stopPc = "off"
    /\ Contract # "none" => In("sending") = {}
    /\ stop' = TRUE
    /\ stopPc' = "waiting"
    /\ UNCHANGED <<workers, nextID, alive, quit, running, jobs, submit, finished>>

AllExited == alive = {}

StopDrain ==
    /\ stopPc = "waiting"
    /\ AllExited
    /\ stopPc' = "draining"
    /\ UNCHANGED <<workers, nextID, alive, quit, running, jobs, stop, submit,
                   finished>>

Drained == jobs = <<>>

StopReturn ==
    /\ stopPc = "draining"
    /\ running[0] = NoJob
    /\ Drained
    /\ stopPc' = "returned"
    /\ UNCHANGED <<workers, nextID, alive, quit, running, jobs, stop, submit,
                   finished>>

-----------------------------------------------------------------------------
(* The environment: a signal or a caller cancels contexts.  One context    *)
(* may serve several jobs, and those derived from the root go with it. *)

Cancel ==
    /\ rootDone' \in {rootDone, TRUE}
    /\ \E js \in SUBSET Jobs : ctxDone' = ctxDone \cup js
    /\ UNCHANGED poolVars

-----------------------------------------------------------------------------
Submits(j) == Enqueue(j) \/ Refuse(j) \/ \E e \in Executors : Handoff(j, e)
Works(w) == Take(w) \/ Exit(w)
Stops == StopDrain \/ Take(0) \/ StopReturn

PoolNext ==
    \/ AddWorker
    \/ RemoveWorker
    \/ \E j \in Jobs : SubmitCall(j) \/ Enqueue(j) \/ Refuse(j)
    \/ \E j \in Jobs, e \in Executors : Handoff(j, e)
    \/ \E e \in Executors : Take(e) \/ Finish(e)
    \/ \E w \in Workers : Exit(w)
    \/ StopCall \/ StopDrain \/ StopReturn

Next ==
    \/ PoolNext /\ UNCHANGED envVars
    \/ Cancel

Spec == Init /\ [][Next]_vars

(* The goroutines that exist are scheduled and the functions submitted     *)
(* return; nobody has to call, to resize or to cancel anything. *)
Fairness ==
    /\ \A j \in Jobs : WF_vars(Submits(j) /\ UNCHANGED envVars)
    /\ \A w \in Workers : WF_vars(Works(w) /\ UNCHANGED envVars)
    /\ \A e \in Executors : WF_vars(Finish(e) /\ UNCHANGED envVars)
    /\ WF_vars(Stops /\ UNCHANGED envVars)

FairSpec == Spec /\ Fairness

-----------------------------------------------------------------------------
(* Every variable keeps its type.  Worker ids start at 1, because WorkerID *)
(* answers 0 outside the pool. *)
TypeOK ==
    /\ workers \in Seq(Workers)
    /\ nextID \in 0 .. MaxWorkers
    /\ alive \subseteq Workers
    /\ quit \subseteq Workers
    /\ running \in [Executors -> Jobs \cup {NoJob}]
    /\ jobs \in Seq(Jobs)
    /\ stop \in BOOLEAN
    /\ submit \in [Jobs -> {"idle", "sending", "accepted", "refused"}]
    /\ stopPc \in {"off", "waiting", "draining", "returned"}
    /\ finished \subseteq Jobs
    /\ rootDone \in BOOLEAN
    /\ ctxDone \subseteq Jobs

(* A job Submit accepted is in exactly one place - once in the channel,    *)
(* with one executor, or finished - and a job it did not accept is in      *)
(* none: no job is lost, run twice, or run after Submit returned an error. *)
OnePlace ==
    /\ In("accepted") = Queued \cup Executing \cup finished
    /\ Queued \cap Executing = {}
    /\ Queued \cap finished = {}
    /\ Executing \cap finished = {}
    /\ IsInjective(jobs)
    /\ \A d, e \in Executors :
         d # e /\ running[d] # NoJob => running[d] # running[e]

(* The stack holds each worker that can still be removed exactly once, in  *)
(* order of age, and none whose quit channel is closed: RemoveWorker never *)
(* closes a channel twice (a panic), and every live worker that nobody     *)
(* removed can still be removed. *)
StackExact ==
    /\ \A i, k \in DOMAIN workers : i < k => workers[i] < workers[k]
    /\ OnStack \cap quit = {}
    /\ alive \subseteq OnStack \cup quit
    /\ \A w \in OnStack \cup quit : w <= nextID

(* A job is only ever with an executor that exists: a worker that has not  *)
(* left, or Stop while it drains. *)
ExecutorExists ==
    \A e \in Executors :
        running[e] # NoJob =>
            IF e = 0 THEN stopPc = "draining" ELSE e \in alive

(* When callers neither are in Submit at the call of Stop nor start one    *)
(* later, a return of Stop leaves nothing behind: no Submit in progress    *)
(* and nothing in the channel; a job not finished is with a worker that    *)
(* AddWorker started after the wait. *)
StopSettles ==
    Contract = "closed" /\ stopPc = "returned" =>
        /\ In("sending") = {}
        /\ jobs = <<>>
        /\ In("accepted") \ finished = {running[w] : w \in alive} \ {NoJob}

(* A Submit whose cause to give up has come returns, even with the channel *)
(* full and no worker left. *)
SubmitReturns ==
    \A j \in Jobs :
        submit[j] = "sending" /\ (stop \/ rootDone \/ j \in ctxDone)
            ~> submit[j] # "sending"

(* Stop returns: the workers leave, and the drain ends. *)
StopTerminates == stop ~> stopPc = "returned"

(* Under the full contract no accepted job outlives Stop: each one runs,   *)
(* whether or not the root context was cancelled before. *)
StopRunsAll ==
    \A j \in Jobs :
        Contract = "closed" /\ submit[j] = "accepted" /\ stop ~> j \in finished

(* A removed worker leaves, though it may take jobs on its way. *)
RemovedLeaves == \A w \in Workers : w \in quit ~> w \notin alive

(* An accepted job runs, unless the pool is left without workers to run it *)
(* or the root context is cancelled. *)
QueuedRuns ==
    \A j \in Jobs :
        submit[j] = "accepted" ~> j \in finished \/ workers = <<>> \/ rootDone

(* Under the full contract nobody is inside Submit once Stop was called,   *)
(* so what Stop found drained stays drained. *)
StopOrder ==
    /\ stop <=> stopPc # "off"
    /\ Contract = "closed" /\ stop => In("sending") = {}
    /\ Contract = "closed" /\ stopPc = "returned" => jobs = <<>>

Ledger == INSTANCE JobLedger WITH
    offered <- In("sending"),
    pending <- Queued,
    executing <- Executing,
    refused <- In("refused"),
    settled <- stopPc = "returned"

(* The pool implements the ledger of jobs: see JobLedger. *)
ImplementsLedger == Ledger!Spec
=============================================================================
