----------------------------- MODULE ApiServer -----------------------------
(***************************************************************************)
(* cmd/api: one process with an HTTP server and a gRPC server over a token *)
(* store, from its start to its end, and started again.  HTTP requests go  *)
(* through the chain of HttpChain; what the user service answers is any of *)
(* its outcomes (UserService models the service).  The token calls of gRPC *)
(* are here in full, with clients who may never see the reply.             *)
(***************************************************************************)
EXTENDS TokenStore, HttpChain, FiniteSets

CONSTANTS
    Rpcs,          \* slots for calls of gRPC
    Https,         \* slots for HTTP requests
    RpcRequests,   \* what a gRPC client may ask
    HttpRequests,  \* what an HTTP client may ask
    Sources,       \* what a process may find as its configuration
    MaxTime,       \* bound: ticks of the clock
    MaxBoots       \* bound: starts of the process

RpcRequest ==
    [method : {"get", "take", "return"}, user : UserIds \cup {NoId}, count : Int, decodes : BOOLEAN]
    \cup [method : {"user", "list"}, user : UserIds \cup {NoId}, decodes : BOOLEAN]

ASSUME ServerAssumption ==
    /\ RpcRequests \subseteq RpcRequest
    /\ HttpRequests \subseteq HttpRequest
    /\ IsFiniteSet(Rpcs)
    /\ IsFiniteSet(Sources) /\ \A s \in Sources : IsSource(s)
    /\ MaxTime \in Nat /\ MaxBoots \in Nat

VARIABLES
    now,      \* time.Now()
    boots,    \* starts of the process so far
    life,     \* where main is
    ended,    \* how the last process ended
    serving,  \* the listeners that accept
    listener, \* the HTTP goroutine: "off", "open", "failed", "closed"
    done,     \* ctx is done: a signal, or cancel() of that goroutine
    rpc,      \* for each slot of gRPC, the call in it
    http,     \* for each slot of HTTP, the request in it
    held,     \* for each user, tokens granted less tokens given back
    known     \* for each user, the tokens its clients know they hold

process == <<boots, life, ended, serving, listener, done>>
vars == <<now, process, rpc, http, held, known, storeVars>>

RpcInServer == {"receiving", "accepted", "looking", "answered"}
HttpInServer == {"accepted", "inside"}

NoRpc == [pc |-> "idle"]
Opened == [pc |-> "receiving"]
NoHttp == [pc |-> "idle"]

(* Mistakes that the properties tell from the code: each definition of     *)
(* this block is a wrong version of the one its name starts with. *)
DrainedAtOnce == TRUE
CancelForgotten == UNCHANGED done
VerdictAlways(b, n) == TRUE

Init ==
    /\ now = 0 /\ boots = 0
    /\ life = "down" /\ ended = "never"
    /\ serving = {} /\ listener = "off" /\ done = FALSE
    /\ rpc = [c \in Rpcs |-> NoRpc]
    /\ http = [h \in Https |-> NoHttp]
    /\ held = [u \in UserIds |-> 0]
    /\ known = [u \in UserIds |-> 0]
    /\ config = Defaults /\ heap = <<>> /\ store = [u \in UserIds |-> 0]

Tick ==
    /\ now < MaxTime
    /\ now' = now + 1
    /\ UNCHANGED <<process, rpc, http, held, known, storeVars>>

-----------------------------------------------------------------------------
(* The process *)

(* Its end takes the token store with it and cuts off what is in progress. *)
ProcessEnds(how) ==
    /\ life' = "down" /\ ended' = how
    /\ serving' = {} /\ listener' = "off" /\ done' = FALSE
    /\ rpc' = [c \in Rpcs |->
                 IF rpc[c].pc \in RpcInServer THEN NoRpc ELSE rpc[c]]
    /\ http' = [h \in Https |->
                  IF http[h].pc \in HttpInServer THEN NoHttp ELSE http[h]]
    /\ heap' = <<>> /\ store' = [u \in UserIds |-> 0]
    /\ UNCHANGED <<now, boots, held, known, config>>

(* main up to the go statement.  The repository may fail to load, and the  *)
(* configuration must. *)
Start ==
    /\ life = "down" /\ boots < MaxBoots
    /\ boots' = boots + 1
    /\ \E s \in Sources :
         \/ /\ Loads(s)
            /\ NewStore(Merged(s))
            /\ life' = "starting" /\ ended' = "never"
         \/ /\ ended' = "failed"
            /\ UNCHANGED <<life, storeVars>>
    /\ UNCHANGED <<now, serving, listener, done, rpc, http, held, known>>

(* srv.ListenAndServe in its goroutine: it listens, or it finds that       *)
(* Shutdown was first. *)
ListenHTTP ==
    /\ life # "down" /\ listener = "off"
    /\ IF life = "closing" THEN listener' = "closed" /\ UNCHANGED serving
       ELSE listener' = "open" /\ serving' = serving \cup {"http"}
    /\ UNCHANGED <<now, boots, life, ended, done, rpc, http, held, known, storeVars>>

(* It cannot listen, or the listener breaks.  In this case requests still  *)
(* come on the connections there are. *)
ListenFails ==
    /\ life \notin {"down", "closing"} /\ listener \in {"off", "open"}
    /\ listener' = "failed"
    /\ UNCHANGED <<now, boots, life, ended, serving, done, rpc, http, held, known, storeVars>>

CancelContext == done' = TRUE

CancelAfterFailure ==
    /\ listener = "failed" /\ ~done
    /\ CancelContext
    /\ UNCHANGED <<now, boots, life, ended, serving, listener, rpc, http, held, known, storeVars>>

(* An empty -grpc-addr leaves gRPC out. *)
StartGRPC ==
    /\ life = "starting"
    /\ life' = "serving"
    /\ serving' \in {serving, serving \cup {"grpc"}}
    /\ UNCHANGED <<now, boots, ended, listener, done, rpc, http, held, known, storeVars>>

(* startGRPC cannot listen: os.Exit(1), whatever HTTP is doing. *)
StartGRPCFails ==
    /\ life = "starting"
    /\ ProcessEnds("failed")

Signal ==
    /\ life # "down" /\ ~done
    /\ done' = TRUE
    /\ UNCHANGED <<now, boots, life, ended, serving, listener, rpc, http, held, known, storeVars>>

(* GracefulStop: no new calls, and those in progress are waited for,       *)
(* without a limit.  HTTP goes on meanwhile. *)
GracefulStop ==
    /\ life = "serving" /\ done
    /\ life' = "draining" /\ serving' = serving \ {"grpc"}
    /\ UNCHANGED <<now, boots, ended, listener, done, rpc, http, held, known, storeVars>>

Drained == \A c \in Rpcs : rpc[c].pc \notin RpcInServer

ShutdownCall ==
    /\ life = "draining" /\ Drained
    /\ life' = "closing" /\ serving' = {}
    /\ UNCHANGED <<now, boots, ended, listener, done, rpc, http, held, known, storeVars>>

(* Shutdown returns when no request is in progress, or at its timeout;     *)
(* main returns in either case. *)
Idle == \A h \in Https : http[h].pc \notin HttpInServer

ShutdownReturns == life = "closing" /\ Idle /\ ProcessEnds("clean")
ShutdownTimesOut == life = "closing" /\ ~Idle /\ ProcessEnds("timeout")

(* The process is killed, anywhere. *)
Kill == life # "down" /\ ProcessEnds("killed")

-----------------------------------------------------------------------------
(* gRPC *)

Here(c, where) == rpc[c].pc = where
Asked(c) == rpc[c].req

(* A handler returns its answer to the interceptor, which logs the call. *)
Answered(c, status, grant) ==
    rpc' = [rpc EXCEPT ![c] =
              [pc |-> "answered", req |-> Asked(c), place |-> 0,
               status |-> status, grant |-> grant, logged |-> 1]]

(* A client opens a call.  The server then waits for its message, without  *)
(* a limit, and for as long is the call in progress. *)
RpcOpen(c) ==
    /\ Here(c, "idle")
    /\ "grpc" \in serving
    /\ rpc' = [rpc EXCEPT ![c] = Opened]
    /\ UNCHANGED <<now, process, http, held, known, storeVars>>

(* The client goes away before the message is complete. *)
RpcAbandon(c) ==
    /\ Here(c, "receiving")
    /\ rpc' = [rpc EXCEPT ![c] = NoRpc]
    /\ UNCHANGED <<now, process, http, held, known, storeVars>>

(* The message arrives.  A client gives back what it knows it holds. *)
RpcCall(c) ==
    /\ Here(c, "receiving")
    /\ \E r \in RpcRequests :
         /\ rpc' = [rpc EXCEPT ![c] = [pc |-> "accepted", req |-> r, place |-> 0]]
         /\ IF r.method = "return" /\ r.user # NoId /\ r.count >= 0
            THEN /\ r.count <= known[r.user]
                 /\ known' = [known EXCEPT ![r.user] = @ - r.count]
            ELSE UNCHANGED known
    /\ UNCHANGED <<now, process, http, held, storeVars>>

(* The generated handlers: what does not decode reaches no interceptor. *)
Undecodable(c) ==
    /\ Here(c, "accepted") /\ ~Asked(c).decodes
    /\ rpc' = [rpc EXCEPT ![c] =
                 [pc |-> "answered", req |-> Asked(c), place |-> 0,
                  status |-> "Internal", grant |-> 0, logged |-> 0]]
    /\ UNCHANGED <<now, process, http, held, known, storeVars>>

IsTokenCall(r) == r.method \in {"get", "take", "return"}
Refuses(r) == r.user = NoId \/ (r.method # "get" /\ r.count < 0)

(* GetTokens, TakeTokens and ReturnTokens check their arguments, of which  *)
(* GetTokens has no count, and look the bucket up, under the lock of the   *)
(* store. *)
RefuseTokenCall(c) ==
    /\ Here(c, "accepted") /\ Asked(c).decodes
    /\ IsTokenCall(Asked(c)) /\ Refuses(Asked(c))
    /\ Answered(c, "InvalidArgument", 0)
    /\ UNCHANGED <<now, process, http, held, known, storeVars>>

LookUp(c) ==
    /\ Here(c, "accepted") /\ Asked(c).decodes
    /\ IsTokenCall(Asked(c)) /\ ~Refuses(Asked(c))
    /\ rpc' = [rpc EXCEPT ![c].pc = "looking", ![c].place = Place(Asked(c).user)]
    /\ ForUser(Asked(c).user, now)
    /\ UNCHANGED <<now, process, http, held, known>>

(* The method of the bucket, under the lock of the bucket. *)
Using(c, method) == Here(c, "looking") /\ Asked(c).method = method
Bucket(c) == Fresh(rpc[c].place, now)
Verdict(b, n) == Bkt!Grants(b, n)

GetTokens(c) ==
    /\ Using(c, "get")
    /\ SetBucket(rpc[c].place, Bucket(c))
    /\ Answered(c, "OK", 0)
    /\ UNCHANGED <<now, process, http, held, known>>

TakeTokens(c) ==
    LET n == Asked(c).count
        granted == Bkt!Grants(Bucket(c), n)
    IN  /\ Using(c, "take")
        /\ SetBucket(rpc[c].place, IF granted THEN Bkt!Spent(Bucket(c), n) ELSE Bucket(c))
        /\ Answered(c, "OK", IF Verdict(Bucket(c), n) THEN n ELSE 0)
        /\ held' = [held EXCEPT ![Asked(c).user] = IF granted THEN @ + n ELSE @]
        /\ UNCHANGED <<now, process, http, known>>

ReturnTokens(c) ==
    LET n == Asked(c).count
    IN  /\ Using(c, "return")
        /\ SetBucket(rpc[c].place, Bkt!Credited(Bucket(c), n))
        /\ Answered(c, "OK", 0)
        /\ held' = [held EXCEPT ![Asked(c).user] = @ - n]
        /\ UNCHANGED <<now, process, http, known>>

(* GetUser and ListUsers *)
RpcOutcomes(r) ==
    IF r.method = "list" THEN ServiceOutcomes.list
    ELSE IF r.user = NoId THEN {"invalid_user"}
    ELSE ServiceOutcomes.get

AskService(c) ==
    /\ Here(c, "accepted") /\ Asked(c).decodes /\ ~IsTokenCall(Asked(c))
    /\ \E o \in RpcOutcomes(Asked(c)) :
         Answered(c, GrpcStatus(o), 0)
    /\ UNCHANGED <<now, process, http, held, known, storeVars>>

(* The client takes the reply, or has gone. *)
RpcReply(c) ==
    /\ Here(c, "answered")
    /\ rpc' = [rpc EXCEPT ![c] = NoRpc]
    /\ \/ rpc[c].grant > 0
          /\ known' = [known EXCEPT ![Asked(c).user] = @ + rpc[c].grant]
       \/ UNCHANGED known
    /\ UNCHANGED <<now, process, http, held, storeVars>>

RpcHandler(c) ==
    \/ Undecodable(c) \/ RefuseTokenCall(c) \/ LookUp(c)
    \/ GetTokens(c) \/ TakeTokens(c) \/ ReturnTokens(c)
    \/ AskService(c)

RpcClient(c) == RpcOpen(c) \/ RpcAbandon(c) \/ RpcCall(c) \/ RpcReply(c)

-----------------------------------------------------------------------------
(* HTTP *)

Request(h) == http[h].req
Completed(r, status, outcome, lines) ==
    [pc |-> "done", req |-> r, status |-> status, outcome |-> outcome, logged |-> lines]

HttpCall(h) ==
    /\ http[h].pc \notin HttpInServer
    /\ "http" \in serving
    /\ \E r \in HttpRequests :
         http' = [http EXCEPT ![h] = [pc |-> "accepted", req |-> r]]
    /\ UNCHANGED <<now, process, rpc, held, known, storeVars>>

(* A parameter that does not bind is answered before any middleware. *)
RouterError(h) ==
    /\ http[h].pc = "accepted" /\ ~Binds(Request(h))
    /\ http' = [http EXCEPT ![h] = Completed(Request(h), 400, "unbound", 0)]
    /\ UNCHANGED <<now, process, rpc, held, known, storeVars>>

ValidationError(h) ==
    /\ http[h].pc = "accepted" /\ Binds(Request(h)) /\ ~ReachesHandler(Request(h))
    /\ http' = [http EXCEPT ![h] =
                  Completed(Request(h), 400, "invalid", LogLines(Request(h), FALSE))]
    /\ UNCHANGED <<now, process, rpc, held, known, storeVars>>

Dispatch(h) ==
    /\ http[h].pc = "accepted" /\ Binds(Request(h)) /\ ReachesHandler(Request(h))
    /\ http' = [http EXCEPT ![h].pc = "inside"]
    /\ UNCHANGED <<now, process, rpc, held, known, storeVars>>

(* The handler, and the way out.  A body that does not decode is answered  *)
(* like an invalid user; everything else asks the service, or panics. *)
HandlerOutcomes(r) ==
    IF r.op \in {"create", "update"} /\ ~r.decodes THEN {"invalid_user"}
    ELSE ServiceOutcomes[r.op] \cup {"panic"}

Handle(h) ==
    /\ http[h].pc = "inside"
    /\ \E o \in HandlerOutcomes(Request(h)) :
         http' = [http EXCEPT ![h] =
                    Completed(Request(h), StatusOut(Request(h), o), o, LogLines(Request(h), o = "panic"))]
    /\ UNCHANGED <<now, process, rpc, held, known, storeVars>>

Http(h) == RouterError(h) \/ ValidationError(h) \/ Dispatch(h) \/ Handle(h)

-----------------------------------------------------------------------------
Main ==
    \/ ListenHTTP \/ ListenFails \/ CancelAfterFailure
    \/ StartGRPC \/ StartGRPCFails
    \/ GracefulStop \/ ShutdownCall \/ ShutdownReturns \/ ShutdownTimesOut

Next ==
    \/ Tick \/ Start \/ Main \/ Signal \/ Kill
    \/ \E c \in Rpcs : RpcClient(c) \/ RpcHandler(c)
    \/ \E h \in Https : HttpCall(h) \/ Http(h)

Spec == Init /\ [][Next]_vars

(* main and the goroutine that listens go on, the timeout comes, and the   *)
(* handlers of gRPC return: they wait for nothing but two locks that are   *)
(* held for a moment.  Nothing is assumed of any client. *)
FairSpec ==
    /\ Spec
    /\ WF_vars(StartGRPC \/ StartGRPCFails) /\ WF_vars(CancelAfterFailure)
    /\ WF_vars(GracefulStop) /\ WF_vars(ShutdownCall)
    /\ WF_vars(ShutdownReturns \/ ShutdownTimesOut)
    /\ \A c \in Rpcs : WF_vars(RpcHandler(c))

-----------------------------------------------------------------------------
(* However the first calls for a user meet in ForUser, there is one bucket *)
(* for it, it is nobody else's, and it is what every call has in hand. *)
OneBucketPerUser ==
    /\ \A u, v \in UserIds : Found(u) /\ store[u] = store[v] => u = v
    /\ \A c \in Rpcs : Here(c, "looking") => rpc[c].place = store[Asked(c).user]

(* The rate limit across restarts, which forget the buckets: every start   *)
(* is worth one more capacity to a user, whatever the clients lost track   *)
(* of or give back to a process that did not grant it. *)
Usable == {Merged(s) : s \in {s \in Sources : Loads(s)}}
Most(field) == Max({0} \cup {cfg[field] : cfg \in Usable})
InBucket(u) == IF Found(u) THEN heap[store[u]].tokens ELSE 0

BudgetAcrossRestarts ==
    \A u \in UserIds :
        held[u] + InBucket(u) <= boots * Most("capacity") + now * Most("rate")

(* What the clients of a user know they hold, are about to learn or are    *)
(* giving back was granted and not given back before: no reply promises    *)
(* tokens that were not taken. *)
About(c, u) ==
    IF rpc[c].pc \in {"idle", "receiving"} \/ Asked(c).user # u \/ ~IsTokenCall(Asked(c)) THEN 0
    ELSE IF rpc[c].pc = "answered" THEN rpc[c].grant
    ELSE IF Asked(c).method = "return" /\ Asked(c).count > 0 THEN Asked(c).count ELSE 0

ClientsAreCovered ==
    \A u \in UserIds :
        known[u] + SumFunctionOnSet([c \in Rpcs |-> About(c, u)], Rpcs) <= held[u]

(* A graceful end cuts off no call of gRPC, and no request of HTTP unless  *)
(* the timeout of Shutdown came first.  Nothing comes in behind it: no     *)
(* call once the drain began, no request once Shutdown was called, even if *)
(* the goroutine that listens starts only then. *)
CutsOffNothing ==
    life = "closing" /\ life' = "down" /\ ended' # "killed" =>
        /\ rpc' = rpc
        /\ ended' = "clean" => http' = http

AdmitsNothing ==
    /\ life \in {"draining", "closing"} =>
         \A c \in Rpcs : Here(c, "idle") => rpc'[c] = rpc[c]
    /\ life = "closing" =>
         \A h \in Https : http[h].pc \notin HttpInServer => http'[h] = http[h]

GracefulEnd == [][CutsOffNothing /\ AdmitsNothing]_vars

(* A signal, or a failure to listen at any moment, ends the process, if    *)
(* every client of gRPC sends the message of the call it opened and takes  *)
(* the reply, or goes away.  One that does neither keeps the process alive *)
(* after a signal, for GracefulStop has no limit. *)
ClientsMoveOn ==
    \A c \in Rpcs : []<>(rpc[c].pc \notin {"receiving", "answered"})

SignalEnds == ClientsMoveOn => (done \/ listener = "failed" ~> life = "down")

(* Every request that reached its handler got one answer and one line in   *)
(* the log, the answer of a panic being a 500. *)
HandledIsLogged ==
    \A h \in Https :
        http[h].pc = "done" /\ http[h].outcome \notin {"unbound", "invalid"} =>
            /\ http[h].logged = 1
            /\ http[h].outcome = "panic" => http[h].status = 500

(* README.md:430-434: both transports read one vocabulary of errors.  What *)
(* one calls a fault of the server the other does, too. *)
TransportsAgree ==
    \A h \in Https :
        http[h].pc = "done" /\ http[h].outcome \in Outcomes =>
            (http[h].status >= 500 <=> GrpcStatus(http[h].outcome) = "Internal")

(* main.go:13 and middleware.go:99: the access log has one line for each   *)
(* completed request. *)
EveryRequestLogged ==
    \A h \in Https : http[h].pc = "done" => http[h].logged = 1
=============================================================================
