----------------------------- MODULE IngestRun -----------------------------
(***************************************************************************)
(* One run of cmd/ingest: main starts the pool's workers, Runner.Run       *)
(* starts one goroutine per file (runFile), each file has a goroutine that *)
(* reads it (CSVProcessor.Stream), the workers run the handler chain, the  *)
(* REPL resizes the pool and cancels files by name, a signal cancels the   *)
(* root context, and main stops the pool when Run returns.                 *)
(*                                                                         *)
(* The pool is the module WorkerPool: a row of a file is a job.            *)
(***************************************************************************)
EXTENDS Integers, FiniteSets, SequencesExt

CONSTANTS
    Files,        \* the paths given to Run
    Text,         \* [Files -> its lines after the header, each one of these:]
                  \*   an e-mail, for the line on which a row starts,
    Bad,          \*   a line that is a row which does not parse,
    Skip,         \*   a blank line,
    More,         \*   or a line that goes on with a quoted field
    Blank,        \* an e-mail that is empty once trimmed
    Base,         \* [Files -> its basename]
    BadHeader,    \* the files whose header is wrong
    Missing,      \* the files that may be gone when Stream opens them
    Broken,       \* the files whose reads fail, for ever, after these lines
    NoRow,        \* the absence of a row
    NoFile,       \* the absence of a file
    Gated,        \* a token gate is set (-grpc-addr)
    InitWorkers,  \* -workers
    MaxWorkers,   \* bound: how many workers are ever added
    MinWorkers,   \* the REPL does not remove workers below this number
    QueueSize,    \* -queue
    MayCancel,    \* the files the REPL or -cancel may name
    MayInterrupt  \* SIGINT, SIGTERM or the REPL's quit may come

(* What csv.Reader makes of the lines: a wrong header is one bad record.   *)
IsRow(line) == line \notin {Skip, More}
RowsIn(lines) ==
    LET UpTo[i \in 0 .. Len(lines)] ==
            IF i = 0 THEN <<>>
            ELSE IF IsRow(lines[i]) THEN Append(UpTo[i - 1], lines[i])
            ELSE UpTo[i - 1]
    IN  UpTo[Len(lines)]
Rows == [f \in Files |-> IF f \in BadHeader THEN <<Bad>> ELSE RowsIn(Text[f])]

(* countDataRows counts lines, less the header. *)
DataLines == [f \in Files |-> Len(Text[f])]

RowIds == UNION {{f} \X (1 .. Len(Rows[f])) : f \in Files}
FileOf(r) == r[1]
Email(r) == Rows[r[1]][r[2]]
GoodRows == {r \in RowIds : Email(r) # Bad}
RowsOf(f) == {r \in GoodRows : FileOf(r) = f}
Emails == {Email(r) : r \in GoodRows} \ {Blank}
Names == {Base[f] : f \in Files}

ASSUME IngestAssumption ==
    /\ IsFiniteSet(Files)
    /\ \A f \in Files : Text[f] \in Seq(Range(Text[f]))
    /\ \A f \in Files : Text[f] = <<>> \/ Text[f][1] # More
    /\ BadHeader \cap Broken = {}
    /\ MaxWorkers \in Nat /\ QueueSize \in Nat
    /\ InitWorkers <= MaxWorkers
    /\ NoRow \notin RowIds /\ NoFile \notin Files

VARIABLES
    workers, nextID, alive, quit, running, jobs, stop, submit, stopPc,
    finished,   \* the pool's variables: see WorkerPool
    rootDone,   \* the root context is done
    main,       \* where runIngest is
    pc,         \* where runFile is, for each file
    src,        \* where the goroutine that reads the file is
    pos,        \* how many rows of the file were read
    cancels,    \* r.cancels: the file whose cancel function a name has
    cancelled,  \* the files whose cancel function was called
    wg,         \* the WaitGroup jobs of each runFile
    streamed,   \* the counter streamed of each runFile
    handled,    \* the counter handled of each runFile
    files,      \* r.files: the files listed as finished
    reserved,   \* what BeforeFile returned for each file
    billed,     \* what the token service has charged for each file
    lost,       \* the files of which it failed to answer a call in time
    stage,      \* where each executor is in the handler chain
    seen,       \* the keys of the DedupStore
    stats,      \* the counters of handler.Stats
    outcome     \* the outcome of each row

poolVars == <<workers, nextID, alive, quit, running, jobs, stop, submit,
              stopPc, finished>>
fileVars == <<pc, src, pos, cancels, cancelled, wg, streamed, files, reserved,
              billed, lost>>
chainVars == <<stage, seen, stats, outcome, handled>>
vars == <<poolVars, rootDone, main, fileVars, chainVars>>

(* fctx is derived from the root context; runFile cancels it on return. *)
FctxDone(f) == rootDone \/ f \in cancelled \/ pc[f] = "done"

Pool == INSTANCE WorkerPool WITH
    Jobs <- GoodRows, NoJob <- NoRow, Contract <- "none",
    ctxDone <- {r \in GoodRows : FctxDone(FileOf(r))}

Executors == 0 .. MaxWorkers

AtEnd(f) == pos[f] = Len(Rows[f])

(* Mistakes that the properties below tell from the code: each definition   *)
(* of this block is a wrong version of the one its name starts with. *)
AllFilesDoneButOne == \E f \in Files : pc[f] = "done"
RefundEverything(f, n) == IF Gated /\ reserved[f] > n /\ ~FctxDone(f)
                          THEN [billed EXCEPT ![f] = @ - reserved[f]]
                          ELSE billed
StreamEndsAtEOF(f) == src[f] = "loop" /\ AtEnd(f) /\ f \notin Broken
DroppedNever(f) == wg
JobsDoneUnseen(f) == TRUE
UnregisteredNot(f) == cancels
RowCancelledByAny(e) == e = 0 \/ rootDone \/ cancelled # {}
TalliedUnlessCancelled(o) == IF o = "cancelled" THEN stats
                             ELSE [stats EXCEPT ![o] = @ + 1]
KnownIfBlank(key) == key = Blank

Init ==
    /\ main = "start"
    /\ pc = [f \in Files |-> "start"]
    /\ src = [f \in Files |-> "off"]
    /\ pos = [f \in Files |-> 0]
    /\ cancels = [n \in Names |-> NoFile]
    /\ cancelled = {}
    /\ wg = [f \in Files |-> 0]
    /\ streamed = [f \in Files |-> 0]
    /\ handled = [f \in Files |-> 0]
    /\ files = {}
    /\ reserved = [f \in Files |-> 0]
    /\ billed = [f \in Files |-> 0]
    /\ lost = {}
    /\ stage = [e \in Executors |-> "idle"]
    /\ seen = {}
    /\ stats = [ok |-> 0, dedup |-> 0, cancelled |-> 0, parseErr |-> 0]
    /\ outcome = [r \in GoodRows |-> "none"]
    /\ Pool!Init

-----------------------------------------------------------------------------
(* main: runIngest *)

(* p.Start(cfg.workers), one AddWorker at a time. *)
StartWorker ==
    /\ main = "start"
    /\ nextID < InitWorkers
    /\ Pool!AddWorker
    /\ UNCHANGED <<rootDone, main, fileVars, chainVars>>

StartRun ==
    /\ main = "start"
    /\ nextID >= InitWorkers
    /\ main' = "run"
    /\ UNCHANGED <<poolVars, rootDone, fileVars, chainVars>>

(* fwg.Wait in Run *)
AllFilesDone == \A f \in Files : pc[f] = "done"

(* Run has returned; main calls p.Stop. *)
StopPool ==
    /\ main = "run"
    /\ AllFilesDone
    /\ Pool!StopCall
    /\ main' = "stop"
    /\ UNCHANGED <<rootDone, fileVars, chainVars>>

Drain ==
    /\ Pool!StopDrain
    /\ UNCHANGED <<rootDone, main, fileVars, chainVars>>

(* Stop has returned; the summary is printed and the process ends. *)
Summary ==
    /\ main = "stop"
    /\ Pool!StopReturn
    /\ main' = "done"
    /\ UNCHANGED <<rootDone, fileVars, chainVars>>

-----------------------------------------------------------------------------
(* The operator: the REPL, -cancel and signals *)

Running == main \in {"run", "stop"}

ReplAdd ==
    /\ Running
    /\ Pool!AddWorker
    /\ UNCHANGED <<rootDone, main, fileVars, chainVars>>

ReplRemove ==
    /\ Running
    /\ Len(workers) > MinWorkers
    /\ Pool!RemoveWorker
    /\ UNCHANGED <<rootDone, main, fileVars, chainVars>>

(* CancelFile: the entry of the name is looked up, its function called.    *)
(* Without an entry it returns false and nothing changes. *)
CancelFile(n) ==
    /\ Running
    /\ cancels[n] # NoFile
    /\ cancels[n] \in MayCancel \ cancelled
    /\ cancelled' = cancelled \cup {cancels[n]}
    /\ UNCHANGED <<poolVars, rootDone, main, chainVars, pc, src, pos, cancels, wg,
                   streamed, files, reserved, billed, lost>>

Interrupt ==
    /\ MayInterrupt
    /\ Running
    /\ ~rootDone
    /\ rootDone' = TRUE
    /\ UNCHANGED <<poolVars, main, fileVars, chainVars>>

-----------------------------------------------------------------------------
(* runFile, up to the stream *)

Goto(f, where) == pc' = [pc EXCEPT ![f] = where]

Registered(f) == [cancels EXCEPT ![Base[f]] = f]

Register(f) ==
    /\ main = "run"
    /\ pc[f] = "start"
    /\ cancels' = Registered(f)
    /\ Goto(f, IF Gated THEN "gate" ELSE "open")
    /\ UNCHANGED <<poolVars, rootDone, main, chainVars, src, pos, cancelled, wg,
                   streamed, files, reserved, billed, lost>>

(* BeforeFile of a file without data rows: no call, nothing reserved. *)
GateFree(f) ==
    /\ pc[f] = "gate"
    /\ DataLines[f] = 0
    /\ Goto(f, "open")
    /\ UNCHANGED <<poolVars, rootDone, main, chainVars, src, pos, cancels,
                   cancelled, wg, streamed, files, reserved, billed, lost>>

(* The token service grants the request of BeforeFile and charges it.      *)
(* gRPC does not send a request whose context is done. *)
GateCharge(f) ==
    /\ pc[f] = "gate"
    /\ DataLines[f] > 0
    /\ ~FctxDone(f)
    /\ billed' = [billed EXCEPT ![f] = DataLines[f]]
    /\ Goto(f, "reply")
    /\ UNCHANGED <<poolVars, rootDone, main, chainVars, src, pos, cancels,
                   cancelled, wg, streamed, files, reserved, lost>>

GateReply(f) ==
    /\ pc[f] = "reply"
    /\ reserved' = [reserved EXCEPT ![f] = DataLines[f]]
    /\ Goto(f, "open")
    /\ UNCHANGED <<poolVars, rootDone, main, chainVars, src, pos, cancels,
                   cancelled, wg, streamed, files, billed, lost>>

(* A call on a context that is not done fails all the same when the        *)
(* service or the connection goes down, and nobody tries again. *)
Lost(f) == IF FctxDone(f) THEN lost ELSE lost \cup {f}

(* BeforeFile returns an error and the file is skipped: the request was    *)
(* denied or could not be made, or it was charged and the reply is lost,   *)
(* to the end of its context or to a failure. *)
GateSkip(f) ==
    /\ \/ pc[f] = "gate" /\ DataLines[f] > 0 /\ UNCHANGED lost
       \/ pc[f] = "reply" /\ lost' = Lost(f)
    /\ Goto(f, "leave")
    /\ UNCHANGED <<poolVars, rootDone, main, chainVars, src, pos, cancels,
                   cancelled, wg, streamed, files, reserved, billed>>

Open(f) ==
    /\ pc[f] = "open"
    /\ src' = [src EXCEPT ![f] = "loop"]
    /\ Goto(f, "recv")
    /\ UNCHANGED <<poolVars, rootDone, main, chainVars, pos, cancels, cancelled,
                   wg, streamed, files, reserved, billed, lost>>

(* AfterFile: what was reserved and not handled is returned to the bucket, *)
(* by a call that a done context keeps from being sent.  A call that is    *)
(* sent may fail, before it reached the bucket or after; this is logged.   *)
Refundable(f, n) == Gated /\ reserved[f] > n /\ ~FctxDone(f)
Refund(f, n) == IF Refundable(f, n) THEN [billed EXCEPT ![f] = @ - (reserved[f] - n)]
                ELSE billed

AfterFile(f, n) ==
    \/ billed' = Refund(f, n) /\ UNCHANGED lost
    \/ Refundable(f, n) /\ billed' \in {billed, Refund(f, n)} /\ lost' = Lost(f)

OpenFails(f) ==
    /\ pc[f] = "open"
    /\ f \in Missing
    /\ AfterFile(f, 0)
    /\ Goto(f, "leave")
    /\ UNCHANGED <<poolVars, rootDone, main, chainVars, src, pos, cancels,
                   cancelled, wg, streamed, files, reserved>>

-----------------------------------------------------------------------------
(* The goroutine that reads the file: streamRows, nextRow, sendRecord.  A  *)
(* wrong header is one bad record, read without a look at the context. *)

Read(f) ==
    /\ src[f] = "loop"
    /\ ~AtEnd(f)
    /\ f \in BadHeader \/ ~FctxDone(f)
    /\ pos' = [pos EXCEPT ![f] = @ + 1]
    /\ src' = [src EXCEPT ![f] = "send"]
    /\ UNCHANGED <<poolVars, rootDone, main, chainVars, pc, cancels, cancelled,
                   wg, streamed, files, reserved, billed, lost>>

(* An error that is not the end of the file is one more bad record, and    *)
(* the loop goes on. *)
ReadFails(f) ==
    /\ src[f] = "loop"
    /\ AtEnd(f) /\ f \in Broken
    /\ ~FctxDone(f)
    /\ src' = [src EXCEPT ![f] = "fail"]
    /\ UNCHANGED <<poolVars, rootDone, main, chainVars, pc, pos, cancels, cancelled,
                   wg, streamed, files, reserved, billed, lost>>

(* End of file; or the context is done, in the loop or while sending. *)
StreamEnds(f) ==
    \/ src[f] = "loop" /\ AtEnd(f) /\ f \notin Broken
    \/ src[f] \in {"loop", "send", "fail"} /\ FctxDone(f)

Close(f) ==
    /\ StreamEnds(f)
    /\ src' = [src EXCEPT ![f] = "closed"]
    /\ UNCHANGED <<poolVars, rootDone, main, chainVars, pc, pos, cancels,
                   cancelled, wg, streamed, files, reserved, billed, lost>>

-----------------------------------------------------------------------------
(* runFile, the loop over the stream *)

Current(f) == <<f, pos[f]>>

(* The rendezvous on the stream, with the runner at its receive. *)
Receiving(f) == pc[f] = "recv" /\ src[f] = "send"

(* Failed reads are left out of the count, which would grow for ever. *)
ReceiveBad(f) ==
    /\ \/ /\ Receiving(f)
          /\ Email(Current(f)) = Bad
          /\ stats' = [stats EXCEPT !.parseErr = @ + 1]
       \/ /\ pc[f] = "recv" /\ src[f] = "fail"
          /\ UNCHANGED stats
    /\ src' = [src EXCEPT ![f] = "loop"]
    /\ UNCHANGED <<poolVars, rootDone, main, pc, pos, cancels, cancelled, wg,
                   streamed, files, reserved, billed, lost, stage, seen, outcome,
                   handled>>

(* jobs.Add(1) *)
Added(f) == [wg EXCEPT ![f] = @ + 1]

(* The record is counted and submitted. *)
Receive(f) ==
    /\ Receiving(f)
    /\ Email(Current(f)) # Bad
    /\ src' = [src EXCEPT ![f] = "loop"]
    /\ wg' = Added(f)
    /\ Goto(f, "submit")
    /\ Pool!SubmitCall(Current(f))
    /\ UNCHANGED <<rootDone, main, chainVars, pos, cancels, cancelled, streamed,
                   files, reserved, billed, lost>>

(* The row a file is submitting; its reader may be a row ahead. *)
Submitting(f) == {r \in RowsOf(f) : submit[r] = "sending"}

(* Submit returned, with or without an error. *)
Streamed(f) == streamed' = [streamed EXCEPT ![f] = @ + 1]

SubmitQueued(f) ==
    /\ pc[f] = "submit"
    /\ \E r \in Submitting(f) : Pool!Enqueue(r)
    /\ Streamed(f)
    /\ Goto(f, "recv")
    /\ UNCHANGED <<rootDone, main, chainVars, src, pos, cancels, cancelled, wg,
                   files, reserved, billed, lost>>

SubmitHandedOver(f, e) ==
    /\ pc[f] = "submit"
    /\ \E r \in Submitting(f) : Pool!Handoff(r, e)
    /\ stage' = [stage EXCEPT ![e] = "begin"]
    /\ Streamed(f)
    /\ Goto(f, "recv")
    /\ UNCHANGED <<rootDone, main, src, pos, cancels, cancelled, wg, files,
                   reserved, billed, lost, seen, stats, outcome, handled>>

(* Submit returned an error: the closure will not run, jobs.Done is called *)
(* in its place. *)
Dropped(f) == [wg EXCEPT ![f] = @ - 1]

SubmitRefused(f) ==
    /\ pc[f] = "submit"
    /\ \E r \in Submitting(f) : Pool!Refuse(r)
    /\ wg' = Dropped(f)
    /\ Streamed(f)
    /\ Goto(f, "recv")
    /\ UNCHANGED <<rootDone, main, chainVars, src, pos, cancels, cancelled, files,
                   reserved, billed, lost>>

-----------------------------------------------------------------------------
(* runFile, after the stream *)

EndOfStream(f) ==
    /\ pc[f] = "recv"
    /\ src[f] = "closed"
    /\ Goto(f, "wait")
    /\ UNCHANGED <<poolVars, rootDone, main, chainVars, src, pos, cancels,
                   cancelled, wg, streamed, files, reserved, billed, lost>>

JobsDone(f) == wg[f] = 0

Wait(f) ==
    /\ pc[f] = "wait"
    /\ JobsDone(f)
    /\ Goto(f, "after")
    /\ UNCHANGED <<poolVars, rootDone, main, chainVars, src, pos, cancels,
                   cancelled, wg, streamed, files, reserved, billed, lost>>

After(f) ==
    /\ pc[f] = "after"
    /\ AfterFile(f, handled[f])
    /\ Goto(f, "publish")
    /\ UNCHANGED <<poolVars, rootDone, main, chainVars, src, pos, cancels,
                   cancelled, wg, streamed, files, reserved>>

Publish(f) ==
    /\ pc[f] = "publish"
    /\ files' = files \cup {f}
    /\ Goto(f, "leave")
    /\ UNCHANGED <<poolVars, rootDone, main, chainVars, src, pos, cancels,
                   cancelled, wg, streamed, reserved, billed, lost>>

(* The deferred calls: delete(r.cancels, name), whoever put the entry      *)
(* there, then fcancel. *)
Unregistered(f) == [cancels EXCEPT ![Base[f]] = NoFile]

Leave(f) ==
    /\ pc[f] = "leave"
    /\ cancels' = Unregistered(f)
    /\ Goto(f, "done")
    /\ UNCHANGED <<poolVars, rootDone, main, chainVars, src, pos, cancelled, wg,
                   streamed, files, reserved, billed, lost>>

-----------------------------------------------------------------------------
(* The executors: a worker, or Stop in its drain loop (executor 0) *)

TakeRow(e) ==
    /\ Pool!Take(e)
    /\ stage' = [stage EXCEPT ![e] = "begin"]
    /\ UNCHANGED <<rootDone, main, fileVars, seen, stats, outcome, handled>>

ExitWorker(w) ==
    /\ Pool!Exit(w)
    /\ UNCHANGED <<rootDone, main, fileVars, chainVars>>

(* The context a row runs under; Stop drains under a cancelled one. *)
RowCancelled(e) == e = 0 \/ FctxDone(FileOf(running[e]))

(* WithMetrics, and handled.Add in the closure of runFile: the outcome o   *)
(* is counted.  jobs.Done comes in a later step, Release. *)
Counts(o) == o \in {"ok", "dedup"}
Tallied(o) == [stats EXCEPT ![o] = @ + 1]

Settle(e, o) ==
    /\ outcome' = [outcome EXCEPT ![running[e]] = o]
    /\ stats' = Tallied(o)
    /\ handled' = IF Counts(o) THEN [handled EXCEPT ![FileOf(running[e])] = @ + 1]
                  ELSE handled
    /\ stage' = [stage EXCEPT ![e] = "end"]

(* WithCancelCheck *)
CancelCheck(e) ==
    /\ stage[e] = "begin"
    /\ RowCancelled(e)
    /\ Settle(e, "cancelled")
    /\ UNCHANGED <<poolVars, rootDone, main, fileVars, seen>>

Key(e) == Email(running[e])

(* AddIfNew answers false to a blank key. *)
Known(key) == key = Blank \/ key \in seen

(* WithDedup.  A context that ends between the check and here changes      *)
(* nothing that this order of the two does not show. *)
Duplicate(e) ==
    /\ stage[e] = "begin"
    /\ ~RowCancelled(e)
    /\ Known(Key(e))
    /\ Settle(e, "dedup")
    /\ UNCHANGED <<poolVars, rootDone, main, fileVars, seen>>

AddIfNew(e) ==
    /\ stage[e] = "begin"
    /\ ~RowCancelled(e)
    /\ ~Known(Key(e))
    /\ seen' = seen \cup {Key(e)}
    /\ stage' = [stage EXCEPT ![e] = "work"]
    /\ UNCHANGED <<poolVars, rootDone, main, fileVars, stats, outcome, handled>>

(* WithProcess: the sleep ends, or the context does; with both, either. *)
Processed(e) ==
    /\ stage[e] = "work"
    /\ Settle(e, "ok")
    /\ UNCHANGED <<poolVars, rootDone, main, fileVars, seen>>

ProcessCancelled(e) ==
    /\ stage[e] = "work"
    /\ RowCancelled(e)
    /\ Settle(e, "cancelled")
    /\ UNCHANGED <<poolVars, rootDone, main, fileVars, seen>>

(* The deferred jobs.Done, and the return to the loop of the worker. *)
Released(f) == [wg EXCEPT ![f] = @ - 1]

Release(e) ==
    /\ stage[e] = "end"
    /\ wg' = Released(FileOf(running[e]))
    /\ Pool!Finish(e)
    /\ stage' = [stage EXCEPT ![e] = "idle"]
    /\ UNCHANGED <<rootDone, main, pc, src, pos, cancels, cancelled, streamed,
                   files, reserved, billed, lost, seen, stats, outcome, handled>>

-----------------------------------------------------------------------------
Operator == ReplAdd \/ ReplRemove \/ (\E n \in Names : CancelFile(n)) \/ Interrupt

Main == StartWorker \/ StartRun \/ StopPool \/ Drain \/ Summary

RunFile(f) ==
    \/ Register(f)
    \/ GateFree(f) \/ GateCharge(f) \/ GateReply(f) \/ GateSkip(f)
    \/ Open(f) \/ OpenFails(f)
    \/ ReceiveBad(f) \/ Receive(f)
    \/ SubmitQueued(f) \/ SubmitRefused(f)
    \/ \E e \in Executors : SubmitHandedOver(f, e)
    \/ EndOfStream(f) \/ Wait(f) \/ After(f) \/ Publish(f) \/ Leave(f)

ReadFile(f) == Read(f) \/ ReadFails(f) \/ Close(f)

Chain(e) ==
    \/ CancelCheck(e) \/ Duplicate(e) \/ AddIfNew(e)
    \/ Processed(e) \/ ProcessCancelled(e) \/ Release(e)

Next ==
    \/ Operator
    \/ Main
    \/ \E f \in Files : RunFile(f) \/ ReadFile(f)
    \/ \E w \in 1 .. MaxWorkers : ExitWorker(w)
    \/ \E e \in Executors : TakeRow(e)
    \/ \E e \in Executors : Chain(e)

Spec == Init /\ [][Next]_vars

(* Every goroutine is scheduled; the operator need not do anything. *)
Fairness ==
    /\ WF_vars(Main \/ TakeRow(0))
    /\ \A f \in Files : WF_vars(RunFile(f)) /\ WF_vars(ReadFile(f))
    /\ \A w \in 1 .. MaxWorkers : WF_vars(TakeRow(w) \/ ExitWorker(w))
    /\ \A e \in Executors : WF_vars(Chain(e))

FairSpec == Spec /\ Fairness

-----------------------------------------------------------------------------
Outcomes == {"none", "ok", "dedup", "cancelled"}

RowsWith(f, o) == {r \in RowsOf(f) : outcome[r] = o}
Unfinished(f) ==
    {r \in RowsOf(f) :
        \/ submit[r] = "sending"
        \/ submit[r] = "accepted" /\ r \notin finished}

(* The WaitGroup of a file counts exactly its rows that are still to be    *)
(* settled: the one being submitted, and those accepted and not finished.  *)
(* So it is never negative, which would be a panic. *)
WaitGroupExact == \A f \in Files : wg[f] = Cardinality(Unfinished(f))

(* Once runFile is past jobs.Wait, no row of the file is in the queue or   *)
(* with a worker: the numbers it publishes and settles with the token      *)
(* service can no longer change. *)
SettledWhenPublished ==
    \A f \in Files :
        pc[f] \in {"after", "publish", "leave", "done"} =>
            /\ Unfinished(f) = {}
            /\ handled[f] = Cardinality(RowsWith(f, "ok") \cup RowsWith(f, "dedup"))

(* Two rows with the same e-mail are never both processed, whichever       *)
(* workers and files they meet in; and a row is only a duplicate of an     *)
(* e-mail that some row was admitted with. *)
ProcessedOnce ==
    /\ \A r, s \in GoodRows :
         r # s /\ outcome[r] = "ok" /\ outcome[s] = "ok" => Email(r) # Email(s)
    /\ \A r \in GoodRows :
         outcome[r] = "dedup" =>
            \/ Email(r) = Blank
            \/ \E s \in GoodRows \ {r} :
                 /\ Email(s) = Email(r)
                 /\ \/ outcome[s] \in {"ok", "cancelled"}
                    \/ \E e \in Executors : running[e] = s /\ stage[e] = "work"

(* Each record of a finished file is accounted for once: in the statistics *)
(* if it reached a worker, and otherwise it is one Submit refused. *)
Refused(f) == {r \in RowsOf(f) : submit[r] = "refused"}

RecordsAccounted ==
    AllFilesDone =>
        stats.ok + stats.dedup + stats.cancelled
            + Cardinality(UNION {Refused(f) : f \in Files})
        = SumFunctionOnSet(streamed, Files)

(* Cancelling a file cancels no row of another one: a row ends cancelled   *)
(* only if its own file was, or the whole run. *)
CancelIsolated ==
    \A r \in GoodRows :
        outcome[r] = "cancelled" \/ submit[r] = "refused" =>
            rootDone \/ FileOf(r) \in cancelled

(* Where nothing was cancelled or interrupted and the token service failed *)
(* no call, every file that has ended is charged exactly the rows it       *)
(* handled: skipped, gone when it was opened, or streamed.  With or        *)
(* without such a failure, a file that was streamed has all its rows       *)
(* handled, none refused or lost. *)
BilledExactly ==
    \A f \in Files :
        pc[f] = "done" /\ ~rootDone /\ f \notin cancelled =>
            /\ Gated /\ f \notin lost => billed[f] = handled[f]
            /\ f \in files => handled[f] = Cardinality(RowsOf(f))

(* No file is ever charged less than it handled. *)
NeverUnderbilled ==
    Gated => \A f \in Files : reserved[f] > 0 => billed[f] >= handled[f]

(* A name cancels only an active file of that name: no entry outlives its  *)
(* file, whoever of several files with one basename put it there and       *)
(* whoever deletes it.  And an active file can be cancelled by its name,   *)
(* unless another file of the same name was started. *)
Active(f) == pc[f] \notin {"start", "done"}
SoleOfItsName(f) == \A g \in Files \ {f} : Base[g] = Base[f] => pc[g] = "start"

NamesTheRightFile ==
    /\ \A n \in Names :
         cancels[n] # NoFile => Active(cancels[n]) /\ Base[cancels[n]] = n
    /\ \A f \in Files : Active(f) /\ SoleOfItsName(f) => cancels[Base[f]] = f

Contracted == INSTANCE WorkerPool WITH
    Jobs <- GoodRows, NoJob <- NoRow, Contract <- "closed",
    ctxDone <- {r \in GoodRows : FctxDone(FileOf(r))}

(* cmd/ingest honours the contract of Stop: it uses the pool as WorkerPool *)
(* describes it under the strictest contract, so what is proved of that    *)
(* holds here. *)
KeepsStopContract == Contracted!Spec

(* The operator may remove every worker and add others, any number of      *)
(* times, but leaves one in the end. *)
WorkerStays == <>[](workers # <<>>)

(* Every file finishes, and then Run and main return: whatever is          *)
(* cancelled, and however the pool is resized, if a worker is there in the *)
(* end and no signal comes.  Only a file whose reads fail for ever waits   *)
(* to be cancelled, and no other file waits for it. *)
RunReturns ==
    WorkerStays =>
        /\ \A f \in Files \ Broken : <>(pc[f] = "done")
        /\ (\A f \in Broken : <>(f \in cancelled)) => <>(main = "done")

(* The same in the presence of signals: the comment on Run                 *)
(* (runner.go:102-104) says it returns when every file has finished        *)
(* (completed, cancelled or gate-skipped). *)
InterruptedRunReturns == rootDone ~> main = "done"

(* A cancelled file finishes, if a worker is there in the end to end the   *)
(* rows it has in the queue. *)
CancelFinishes ==
    WorkerStays => \A f \in Files : f \in cancelled ~> pc[f] = "done"

(* README.md:28-29 and tokens.go:20-22: unused tokens are refunded, so     *)
(* that cancelled rows do not permanently bill the user.  Stated for files *)
(* whose calls the token service answered. *)
CancelledRowsRefunded ==
    \A f \in files \ lost : Gated /\ pc[f] = "done" => billed[f] = handled[f]
=============================================================================
