-------------------------- MODULE ApiServer_proofs --------------------------
(***************************************************************************)
(* Theorems about the server process: one bucket for each user, what the   *)
(* users are granted through any number of starts, an end that cuts off no *)
(* call of gRPC, and what HTTP answers and logs.                           *)
(***************************************************************************)
EXTENDS ApiServer, SequenceTheorems, BasicFacts, TLAPS

-----------------------------------------------------------------------------
(* The process, its listeners and its calls *)

Lives == {"down", "starting", "serving", "draining", "closing"}

(* A process that closes or has ended accepts nothing, and one that drains *)
(* no call of gRPC. *)
Listens ==
    /\ life \in Lives
    /\ life \in {"down", "closing"} => serving = {}
    /\ life = "draining" => "grpc" \notin serving

(* Calls are in a server that runs, and in none that closes. *)
CallsWhereServed ==
    life \in {"down", "closing"} => \A c \in Rpcs : rpc[c].pc \notin RpcInServer

Accepted == [pc : {"accepted"}, req : RpcRequests, place : {0}]
Looking == [pc : {"looking"}, req : RpcRequests, place : Nat]

Calls ==
    /\ rpc = [c \in Rpcs |-> rpc[c]]
    /\ \A c \in Rpcs :
         \/ rpc[c].pc \in {"idle", "receiving", "answered"}
         \/ rpc[c] \in Accepted
         \/ rpc[c] \in Looking

(* Buckets are never shared, and a call has that of its user in hand. *)
Stored ==
    /\ \E S : heap \in Seq(S)
    /\ store \in [UserIds -> 0 .. Len(heap)]
    /\ \A u, v \in UserIds : Found(u) /\ store[u] = store[v] => u = v
    /\ \A c \in Rpcs :
         Here(c, "looking") =>
            Asked(c).user \in UserIds /\ rpc[c].place = store[Asked(c).user]
            /\ rpc[c].place # 0

IInv == Listens /\ CallsWhereServed /\ Calls /\ Stored

LEMMA InitIInv == Init => IInv
<1> SUFFICES ASSUME Init PROVE IInv
  OBVIOUS
<1>1. heap \in Seq({}) /\ Len(heap) = 0
  BY DEF Init
<1>2. Stored
  BY <1>1 DEF Init, Stored, Found, Here, NoRpc
<1> QED
  BY <1>2 DEF Init, IInv, Listens, Lives, CallsWhereServed, Calls, NoRpc, RpcInServer

(* However a process ends, nothing of it is left. *)
LEMMA EndIInv ==
    ASSUME IInv, NEW how, ProcessEnds(how) PROVE IInv'
<1>1. \A c \in Rpcs : rpc'[c].pc \notin RpcInServer
  BY DEF ProcessEnds, NoRpc, RpcInServer
<1>2. heap' \in Seq({}) /\ Len(heap') = 0
  BY DEF ProcessEnds
<1>3. Stored'
  BY <1>1, <1>2 DEF ProcessEnds, Stored, Found, Here, RpcInServer
<1>4. Calls'
  BY <1>1 DEF ProcessEnds, IInv, Calls, Accepted, Looking, RpcInServer, NoRpc
<1>5. Listens' /\ CallsWhereServed'
  BY <1>1 DEF ProcessEnds, Listens, Lives, CallsWhereServed
<1> QED
  BY <1>3, <1>4, <1>5 DEF IInv

(* Steps of main that touch neither a call nor a bucket. *)
LEMMA MainIInv ==
    ASSUME IInv, UNCHANGED <<rpc, storeVars>>, Listens',
           life' \in {"down", "closing"} => life' = life \/ Drained
    PROVE IInv'
<1>1. Calls' /\ Stored'
  BY DEF IInv, Calls, Stored, storeVars, Found, Here, Asked
<1>2. CallsWhereServed'
  BY DEF IInv, CallsWhereServed, Drained
<1> QED
  BY <1>1, <1>2 DEF IInv

LEMMA StartIInv == ASSUME IInv, Start PROVE IInv'
<1>1. \A c \in Rpcs : rpc[c].pc \notin RpcInServer /\ rpc'[c] = rpc[c]
  BY DEF Start, IInv, CallsWhereServed
<1>2. Listens'
  BY DEF Start, IInv, Listens, Lives
<1>3. Calls'
  BY DEF Start, IInv, Calls
<1>4. CallsWhereServed'
  BY <1>1 DEF CallsWhereServed
<1>5. Stored'
  <2>1. CASE UNCHANGED storeVars
    BY <1>1, <2>1 DEF Start, IInv, Stored, storeVars, Found, Here, Asked
  <2>2. ASSUME NEW s, NewStore(s) PROVE Stored'
    <3>1. heap' \in Seq({}) /\ Len(heap') = 0 /\ store' = [u \in UserIds |-> 0]
      BY <2>2 DEF NewStore
    <3> QED
      BY <1>1, <3>1 DEF Stored, Found, Here, RpcInServer
  <2> QED
    BY <2>1, <2>2 DEF Start
<1> QED
  BY <1>2, <1>3, <1>4, <1>5 DEF IInv

(* A call is opened where gRPC is served, and its message comes to a        *)
(* server that has not closed. *)
LEMMA EntersIInv ==
    ASSUME IInv, NEW c \in Rpcs, NEW x, rpc' = [rpc EXCEPT ![c] = x],
           x = Opened \/ x \in Accepted, life \notin {"down", "closing"},
           UNCHANGED <<process, storeVars>>
    PROVE IInv'
<1>1. x.pc \in {"receiving", "accepted"} /\ rpc'[c] = x
      /\ \A d \in Rpcs \ {c} : rpc'[d] = rpc[d]
  BY DEF Opened, Accepted, IInv, Calls
<1>2. life' = life /\ serving' = serving
  BY DEF process
<1>3. Calls'
  BY <1>1 DEF IInv, Calls, Opened
<1>4. Stored'
  BY <1>1 DEF IInv, Stored, storeVars, Found, Here, Asked
<1> QED
  BY <1>2, <1>3, <1>4 DEF IInv, Listens, CallsWhereServed

LEMMA RpcOpenIInv == ASSUME IInv, NEW c \in Rpcs, RpcOpen(c) PROVE IInv'
<1>1. life \notin {"down", "closing"}
  BY DEF RpcOpen, IInv, Listens
<1> QED
  BY <1>1, EntersIInv DEF RpcOpen

LEMMA RpcCallIInv == ASSUME IInv, NEW c \in Rpcs, RpcCall(c) PROVE IInv'
<1>1. PICK r \in RpcRequests :
        rpc' = [rpc EXCEPT ![c] = [pc |-> "accepted", req |-> r, place |-> 0]]
  BY DEF RpcCall
<1> DEFINE x == [pc |-> "accepted", req |-> r, place |-> 0]
<1>2. x \in Accepted /\ rpc' = [rpc EXCEPT ![c] = x]
  BY <1>1 DEF Accepted
<1>3. life \notin {"down", "closing"}
  BY DEF RpcCall, Here, IInv, CallsWhereServed, RpcInServer
<1> HIDE DEF x
<1> QED
  BY <1>2, <1>3, EntersIInv DEF RpcCall

(* A call in the server is answered, or leaves it. *)
LEMMA LeavesIInv ==
    ASSUME IInv, NEW c \in Rpcs, UNCHANGED process, NEW x,
           rpc' = [rpc EXCEPT ![c] = x], x.pc \in {"idle", "answered"},
           rpc[c].pc \in RpcInServer, UNCHANGED store, Len(heap') = Len(heap), \E S : heap' \in Seq(S)
    PROVE IInv'
<1>0. rpc'[c] = x /\ \A d \in Rpcs \ {c} : rpc'[d] = rpc[d]
  BY DEF IInv, Calls
<1>1. Calls'
  BY DEF IInv, Calls
<1>2. Listens'
  BY DEF IInv, Listens, process
<1>3. CallsWhereServed'
  <2>1. life' = life
    BY DEF process
  <2>2. \A d \in Rpcs : rpc'[d].pc \in RpcInServer => rpc[d].pc \in RpcInServer
    BY <1>0 DEF RpcInServer
  <2> QED
    BY <2>1, <2>2 DEF IInv, CallsWhereServed
<1>4. Stored'
  BY <1>0 DEF IInv, Stored, Found, Here, Asked
<1> QED
  BY <1>1, <1>2, <1>3, <1>4 DEF IInv

LEMMA LookUpIInv == ASSUME IInv, NEW c \in Rpcs, LookUp(c) PROVE IInv'
<1> DEFINE u == Asked(c).user
           i == Place(u)
           b == Bkt!NewBucket(now)
<1>1. rpc[c] \in Accepted /\ rpc[c].req \in RpcRequests
  BY DEF LookUp, Here, IInv, Calls, Accepted, Looking
<1>2. u \in UserIds
  <2>1. rpc[c].req \in RpcRequest
    BY <1>1, ServerAssumption
  <2> QED
    BY <2>1 DEF RpcRequest, LookUp, Asked, Refuses
<1>3. PICK S : heap \in Seq(S)
  BY DEF IInv, Stored
<1>4. /\ heap' = IF Found(u) THEN heap ELSE Append(heap, b)
      /\ store' = [store EXCEPT ![u] = i] /\ UNCHANGED process
      /\ rpc' = [rpc EXCEPT ![c].pc = "looking", ![c].place = i]
  BY DEF LookUp, ForUser
<1> HIDE DEF b
<1>5. heap' \in Seq(S \cup {b}) /\ Len(heap') \in {Len(heap), Len(heap) + 1}
      /\ i \in 1 .. Len(heap') /\ Len(heap) \in Nat /\ Len(heap) <= Len(heap')
      /\ (~Found(u) => i = Len(heap) + 1) /\ (Found(u) => i = store[u])
  <2>1. CASE Found(u)
    <3>1. heap \in Seq(S \cup {b})
      BY <1>3
    <3> QED
      BY <1>2, <1>3, <1>4, <2>1, <3>1 DEF IInv, Stored, Found, Place
  <2>2. CASE ~Found(u)
    <3>1. heap \in Seq(S \cup {b})
      BY <1>3
    <3>2. Append(heap, b) \in Seq(S \cup {b}) /\ Len(Append(heap, b)) = Len(heap) + 1
      BY <3>1
    <3> QED
      BY <1>3, <1>4, <2>2, <3>2 DEF Place
  <2> QED
    BY <2>1, <2>2
<1>6. store' \in [UserIds -> 0 .. Len(heap')]
  BY <1>2, <1>4, <1>5 DEF IInv, Stored
<1>7. rpc'[c] \in Looking /\ rpc'[c].req = rpc[c].req /\ rpc'[c].place = i
      /\ \A d \in Rpcs \ {c} : rpc'[d] = rpc[d]
  <2>1. /\ rpc'[c] = [rpc[c] EXCEPT !.pc = "looking", !.place = i]
        /\ \A d \in Rpcs \ {c} : rpc'[d] = rpc[d]
    BY <1>4 DEF IInv, Calls
  <2>2. i \in Nat
    BY <1>5
  <2> HIDE DEF i
  <2> QED
    BY <1>1, <2>1, <2>2 DEF Accepted, Looking
<1>8. Calls'
  BY <1>4, <1>7 DEF IInv, Calls
<1>9. \A v \in UserIds \ {u} : store'[v] = store[v] /\ store'[v] # i
  BY <1>2, <1>4, <1>5 DEF IInv, Stored, Found
<1>10. store'[u] = i /\ i # 0
  BY <1>2, <1>4, <1>5 DEF IInv, Stored
<1>11. \A v, w \in UserIds : Found(v)' /\ store'[v] = store'[w] => v = w
  BY <1>9, <1>10 DEF IInv, Stored, Found
<1>12. \A d \in Rpcs :
         Here(d, "looking")' => Asked(d)'.user \in UserIds
            /\ rpc'[d].place = store'[Asked(d)'.user] /\ rpc'[d].place # 0
  <2>1. ASSUME NEW d \in Rpcs \ {c}, Here(d, "looking")'
        PROVE  Asked(d)'.user \in UserIds
               /\ rpc'[d].place = store'[Asked(d)'.user] /\ rpc'[d].place # 0
    <3>1. rpc'[d] = rpc[d] /\ Here(d, "looking")
      BY <1>7, <2>1 DEF Here
    <3>2. Asked(d).user \in UserIds /\ rpc[d].place = store[Asked(d).user]
          /\ rpc[d].place # 0
      BY <3>1 DEF IInv, Stored
    <3>3. store'[Asked(d).user] = store[Asked(d).user]
      BY <1>5, <1>9, <1>10, <3>2 DEF Found
    <3> QED
      BY <3>1, <3>2, <3>3 DEF Asked
  <2>2. Asked(c)'.user = u
    BY <1>7 DEF Asked
  <2> QED
    BY <1>2, <1>7, <1>10, <2>1, <2>2
<1>13. Stored'
  BY <1>5, <1>6, <1>11, <1>12 DEF Stored
<1>14. Listens' /\ CallsWhereServed'
  BY <1>1, <1>4 DEF IInv, Listens, CallsWhereServed, process, Accepted, RpcInServer
<1> QED
  BY <1>8, <1>13, <1>14 DEF IInv

(* The use of a bucket changes what is in it, not whose it is. *)
LEMMA UseIInv ==
    ASSUME IInv, NEW c \in Rpcs, Here(c, "looking"), NEW b, SetBucket(rpc[c].place, b),
           NEW status, NEW grant, Answered(c, status, grant), UNCHANGED process
    PROVE IInv'
<1>1. PICK S : heap \in Seq(S)
  BY DEF IInv, Stored
<1>2. heap \in Seq(S \cup {b}) /\ rpc[c].place \in 1 .. Len(heap)
  BY <1>1 DEF IInv, Stored
<1>3. heap' \in Seq(S \cup {b}) /\ Len(heap') = Len(heap)
  BY <1>2, ExceptSeq DEF SetBucket
<1> QED
  BY <1>3, LeavesIInv DEF SetBucket, Answered, Here, RpcInServer

LEMMA RpcIInv ==
    ASSUME IInv, NEW c \in Rpcs, RpcClient(c) \/ RpcHandler(c) PROVE IInv'
<1>0. \E S : heap \in Seq(S)
  BY DEF IInv, Stored
<1>1. CASE Undecodable(c)
  BY <1>0, <1>1, LeavesIInv DEF Undecodable, Here, RpcInServer, storeVars
<1>2. CASE RefuseTokenCall(c)
  BY <1>0, <1>2, LeavesIInv DEF RefuseTokenCall, Answered, Here, RpcInServer, storeVars
<1>3. CASE LookUp(c)
  BY <1>3, LookUpIInv
<1>4. CASE GetTokens(c)
  BY <1>4, UseIInv DEF GetTokens, Using
<1>5. CASE TakeTokens(c)
  BY <1>5, UseIInv DEF TakeTokens, Using
<1>6. CASE ReturnTokens(c)
  BY <1>6, UseIInv DEF ReturnTokens, Using
<1>7. CASE AskService(c)
  BY <1>0, <1>7, LeavesIInv DEF AskService, Answered, Here, RpcInServer, storeVars
<1>8. CASE RpcReply(c)
  BY <1>0, <1>8, LeavesIInv DEF RpcReply, NoRpc, Here, RpcInServer, storeVars
<1>9. CASE RpcAbandon(c)
  BY <1>0, <1>9, LeavesIInv DEF RpcAbandon, NoRpc, Here, RpcInServer, storeVars
<1> QED
  BY <1>1, <1>2, <1>3, <1>4, <1>5, <1>6, <1>7, <1>8, <1>9, RpcOpenIInv, RpcCallIInv
  DEF RpcClient, RpcHandler

LEMMA NextIInv == IInv /\ [Next]_vars => IInv'
<1> SUFFICES ASSUME IInv, [Next]_vars PROVE IInv'
  OBVIOUS
<1> USE DEF process, IInv, Listens, Lives
<1>1. CASE UNCHANGED vars
  BY <1>1, MainIInv DEF vars
<1>2. CASE Tick
  BY <1>2, MainIInv DEF Tick
<1>3. CASE Start
  BY <1>3, StartIInv
<1>4. CASE ListenHTTP \/ ListenFails \/ CancelAfterFailure
  BY <1>4, MainIInv DEF ListenHTTP, ListenFails, CancelAfterFailure
<1>5. CASE StartGRPC
  BY <1>5, MainIInv DEF StartGRPC
<1>6. CASE StartGRPCFails \/ ShutdownReturns \/ ShutdownTimesOut \/ Kill
  BY <1>6, EndIInv DEF StartGRPCFails, ShutdownReturns, ShutdownTimesOut, Kill
<1>7. CASE Signal
  BY <1>7, MainIInv DEF Signal
<1>8. CASE GracefulStop
  BY <1>8, MainIInv DEF GracefulStop
<1>9. CASE ShutdownCall
  BY <1>9, MainIInv DEF ShutdownCall
<1>10. ASSUME NEW c \in Rpcs, RpcClient(c) \/ RpcHandler(c) PROVE IInv'
  BY <1>10, RpcIInv
<1>11. ASSUME NEW h \in Https, HttpCall(h) \/ Http(h) PROVE IInv'
  <2>1. UNCHANGED <<process, rpc, storeVars>>
    BY <1>11 DEF HttpCall, Http, RouterError, ValidationError, Dispatch, Handle
  <2> QED
    BY <2>1, MainIInv
<1> QED
  BY <1>1, <1>2, <1>3, <1>4, <1>5, <1>6, <1>7, <1>8, <1>9, <1>10, <1>11
  DEF Next, Main

THEOREM IInvHolds == Spec => []IInv
<1> QED
  BY InitIInv, NextIInv, PTL DEF Spec

(* One bucket for each user, through any number of calls that meet in      *)
(* ForUser, and through restarts. *)
THEOREM BucketsAreNotShared == Spec => []OneBucketPerUser
<1>1. IInv => OneBucketPerUser
  BY DEF IInv, Stored, OneBucketPerUser
<1> QED
  BY <1>1, IInvHolds, PTL

Requests == http = [h \in Https |-> http[h]]

LEMMA RequestsHold == Spec => []Requests
<1>1. Init => Requests
  BY DEF Init, Requests
<1>2. Requests /\ [Next]_vars => Requests'
  BY DEF Requests, vars, Next, Main, Tick, Start, ListenHTTP, ListenFails,
     CancelAfterFailure, StartGRPC,
     StartGRPCFails, Signal, GracefulStop, ShutdownCall, ShutdownReturns,
     ShutdownTimesOut, Kill, ProcessEnds, RpcClient, RpcHandler, RpcOpen, RpcAbandon,
     RpcCall, Undecodable, RefuseTokenCall,
     LookUp, GetTokens, TakeTokens, ReturnTokens, AskService, RpcReply,
     HttpCall, Http, RouterError, ValidationError, Dispatch, Handle
<1> QED
  BY <1>1, <1>2, PTL DEF Spec

(* A graceful end cuts off no call of gRPC, and no HTTP request before the *)
(* timeout; and neither the drain nor Shutdown lets anything in behind it. *)
THEOREM EndIsGraceful == Spec => GracefulEnd
<1>1. ASSUME IInv, Requests, [Next]_vars PROVE CutsOffNothing
  <2> SUFFICES ASSUME life = "closing", life' = "down", ended' # "killed"
               PROVE CutsOffNothing
    BY DEF CutsOffNothing
  <2>1. ShutdownReturns \/ ShutdownTimesOut
    BY <1>1 DEF vars, process, Next, Main, Tick, Start, ListenHTTP, ListenFails,
       CancelAfterFailure, StartGRPC,
       StartGRPCFails, Signal, GracefulStop, ShutdownCall, Kill, ProcessEnds,
       RpcClient, RpcHandler, RpcOpen, RpcAbandon, RpcCall, Undecodable, RefuseTokenCall,
       LookUp, GetTokens, TakeTokens, ReturnTokens, AskService, RpcReply,
       HttpCall, Http, RouterError, ValidationError, Dispatch, Handle
  <2>2. rpc' = rpc
    BY <1>1, <2>1 DEF ShutdownReturns, ShutdownTimesOut, ProcessEnds, IInv, Calls,
       CallsWhereServed
  <2>3. ended' = "clean" => \A h \in Https : http[h].pc \notin HttpInServer
    BY <2>1 DEF ShutdownReturns, ShutdownTimesOut, ProcessEnds, Idle
  <2> QED
    BY <1>1, <2>1, <2>2, <2>3 DEF ShutdownReturns, ShutdownTimesOut, ProcessEnds, Requests,
       CutsOffNothing
<1>2. ASSUME IInv, Requests, [Next]_vars PROVE AdmitsNothing
  <2>1. life \in {"draining", "closing"} => "grpc" \notin serving
    BY <1>2 DEF IInv, Listens
  <2>2. life = "closing" => "http" \notin serving
    BY <1>2 DEF IInv, Listens
  <2>3. ASSUME NEW c \in Rpcs, Here(c, "idle"), "grpc" \notin serving PROVE rpc'[c] = rpc[c]
    <3>1. ASSUME NEW d \in Rpcs, NEW x, rpc' = [rpc EXCEPT ![d] = x], rpc[d].pc # "idle"
          PROVE  rpc'[c] = rpc[c]
      BY <1>2, <2>3, <3>1 DEF Here, IInv, Calls
    <3>2. ASSUME NEW d \in Rpcs, RpcClient(d) \/ RpcHandler(d) PROVE rpc'[c] = rpc[c]
      <4>1. rpc[d].pc # "idle"
        BY <2>3, <3>2 DEF RpcClient, RpcHandler, RpcOpen, RpcAbandon, RpcCall, RpcReply,
           Undecodable, RefuseTokenCall, LookUp, GetTokens, TakeTokens, ReturnTokens,
           AskService, Using, Here
      <4>2. \E x : rpc' = [rpc EXCEPT ![d] = x]
        <5>1. CASE RpcClient(d)
          BY <2>3, <5>1 DEF RpcClient, RpcOpen, RpcAbandon, RpcCall, RpcReply
        <5>2. CASE RpcHandler(d)
          BY <5>2 DEF RpcHandler, Undecodable, RefuseTokenCall, LookUp, GetTokens,
             TakeTokens, ReturnTokens, AskService, Answered
        <5> QED
          BY <3>2, <5>1, <5>2
      <4> QED
        BY <3>1, <4>1, <4>2
    <3>3. ASSUME NEW how, ProcessEnds(how) PROVE rpc'[c] = rpc[c]
      BY <2>3, <3>3 DEF ProcessEnds, Here, RpcInServer
    <3>4. CASE rpc' = rpc
      BY <3>4
    <3> QED
      BY <1>2, <3>2, <3>3, <3>4 DEF vars, Next, Main, Tick, Start, ListenHTTP, ListenFails,
         CancelAfterFailure, StartGRPC, StartGRPCFails, Signal, GracefulStop, ShutdownCall,
         ShutdownReturns, ShutdownTimesOut, Kill, HttpCall, Http, RouterError,
         ValidationError, Dispatch, Handle
  <2>4. ASSUME NEW h \in Https, http[h].pc \notin HttpInServer, "http" \notin serving
        PROVE  http'[h] = http[h]
    <3>1. ASSUME NEW g \in Https, HttpCall(g) \/ Http(g) PROVE http'[h] = http[h]
      <4>1. http[g].pc \in HttpInServer /\ \E x : http' = [http EXCEPT ![g] = x]
        <5>1. http[g].pc \in HttpInServer
          BY <2>4, <3>1 DEF HttpCall, Http, RouterError, ValidationError, Dispatch, Handle,
             HttpInServer
        <5>2. \E x : http' = [http EXCEPT ![g] = x]
          BY <2>4, <3>1 DEF HttpCall, Http, RouterError, ValidationError, Dispatch, Handle
        <5> QED
          BY <5>1, <5>2
      <4> QED
        BY <1>2, <2>4, <4>1 DEF Requests
    <3>2. ASSUME NEW how, ProcessEnds(how) PROVE http'[h] = http[h]
      BY <2>4, <3>2 DEF ProcessEnds
    <3>3. CASE http' = http
      BY <3>3
    <3> QED
      BY <1>2, <3>1, <3>2, <3>3 DEF vars, Next, Main, Tick, Start, ListenHTTP, ListenFails,
         CancelAfterFailure, StartGRPC, StartGRPCFails, Signal, GracefulStop, ShutdownCall,
         ShutdownReturns, ShutdownTimesOut, Kill, RpcClient, RpcHandler, RpcOpen, RpcAbandon,
         RpcCall, Undecodable, RefuseTokenCall, LookUp, GetTokens, TakeTokens, ReturnTokens,
         AskService, RpcReply
  <2> QED
    BY <2>1, <2>2, <2>3, <2>4 DEF AdmitsNothing
<1> QED
  BY <1>1, <1>2, IInvHolds, RequestsHold, PTL DEF Spec, GracefulEnd

-----------------------------------------------------------------------------
(* What the clients know *)

(* What a slot holds, and what the clients of a user have coming from it:  *)
(* About, of the slot's record. *)
IsCall(x) ==
    /\ x.pc \notin {"idle", "receiving"} => x.req \in RpcRequests
    /\ x.pc = "looking" => IsTokenCall(x.req) /\ ~Refuses(x.req)
    /\ x.pc = "answered" =>
         /\ x.grant \in Nat
         /\ x.grant > 0 => x.req.method = "take" /\ x.req.user \in UserIds

Owed(x, u) ==
    IF x.pc \in {"idle", "receiving"} \/ x.req.user # u \/ ~IsTokenCall(x.req) THEN 0
    ELSE IF x.pc = "answered" THEN x.grant
    ELSE IF x.req.method = "return" /\ x.req.count > 0 THEN x.req.count ELSE 0

OwedAll(u) == SumFunctionOnSet([c \in Rpcs |-> Owed(rpc[c], u)], Rpcs)

Balanced ==
    /\ known \in [UserIds -> Int] /\ held \in [UserIds -> Int]
    /\ \A c \in Rpcs : IsCall(rpc[c])
    /\ \A u \in UserIds : known[u] + OwedAll(u) <= held[u]

LEMMA RequestFacts ==
    ASSUME NEW r \in RpcRequests
    PROVE  /\ r.user \in UserIds \cup {NoId}
           /\ IsTokenCall(r) => r.count \in Int
<1>1. r \in RpcRequest
  BY ServerAssumption
<1> QED
  BY <1>1 DEF RpcRequest, IsTokenCall

LEMMA OwedIsNatural ==
    ASSUME NEW x, IsCall(x), NEW u PROVE Owed(x, u) \in Nat
BY RequestFacts DEF IsCall, Owed, IsTokenCall

(* One slot changes: what is known, owed and held must balance for it. *)
LEMMA SlotChanges ==
    ASSUME IInv, Balanced, NEW c \in Rpcs, NEW x, IsCall(x), rpc' = [rpc EXCEPT ![c] = x],
           known' \in [UserIds -> Int], held' \in [UserIds -> Int],
           \A u \in UserIds :
              known'[u] + Owed(x, u) - held'[u] <= known[u] + Owed(rpc[c], u) - held[u]
    PROVE  Balanced'
<1>1. rpc'[c] = x /\ \A d \in Rpcs \ {c} : rpc'[d] = rpc[d]
  BY DEF IInv, Calls
<1>2. \A d \in Rpcs : IsCall(rpc[d]) /\ IsCall(rpc'[d])
  BY <1>1 DEF Balanced
<1>3. ASSUME NEW u \in UserIds PROVE known'[u] + OwedAll(u)' <= held'[u]
  <2> DEFINE f == [d \in Rpcs |-> Owed(rpc[d], u)]
             g == [d \in Rpcs |-> Owed(rpc'[d], u)]
  <2>1. \A d \in Rpcs : f[d] \in Int /\ g[d] \in Int
    BY <1>2, OwedIsNatural
  <2>2. \A d \in Rpcs \ {c} : g[d] = f[d]
    BY <1>1
  <2>3. f[c] = Owed(rpc[c], u) /\ g[c] = Owed(x, u)
    BY <1>1
  <2>4. OwedAll(u) = SumFunctionOnSet(f, Rpcs) /\ OwedAll(u)' = SumFunctionOnSet(g, Rpcs)
    BY DEF OwedAll
  <2> HIDE DEF f, g
  <2>5. OwedAll(u)' = OwedAll(u) + (g[c] - f[c])
    BY <2>1, <2>2, <2>4, ServerAssumption, SumChanges
  <2>6. OwedAll(u) \in Int
    BY <2>1, <2>4, ServerAssumption, SumTakesOut
  <2>7. f[c] \in Int /\ g[c] \in Int
    BY <2>1
  <2>8. known[u] \in Int /\ held[u] \in Int /\ known[u] + OwedAll(u) <= held[u]
    BY DEF Balanced
  <2>9. known'[u] \in Int /\ held'[u] \in Int
        /\ known'[u] + g[c] - held'[u] <= known[u] + f[c] - held[u]
    BY <2>3
  <2> QED BY <2>5, <2>6, <2>7, <2>8, <2>9
<1> QED
  BY <1>2, <1>3 DEF Balanced

LEMMA BalancedEnds ==
    ASSUME IInv, Balanced, NEW how, ProcessEnds(how) PROVE Balanced'
<1>1. \A d \in Rpcs : rpc'[d] = IF rpc[d].pc \in RpcInServer THEN NoRpc ELSE rpc[d]
  BY DEF ProcessEnds
<1>2. \A d \in Rpcs : IsCall(rpc[d]) /\ IsCall(rpc'[d])
  BY <1>1 DEF Balanced, IsCall, NoRpc
<1>3. ASSUME NEW u \in UserIds PROVE known'[u] + OwedAll(u)' <= held'[u]
  <2> DEFINE f == [d \in Rpcs |-> Owed(rpc[d], u)]
             g == [d \in Rpcs |-> Owed(rpc'[d], u)]
  <2>1. \A d \in Rpcs : Owed(rpc[d], u) \in Nat /\ Owed(rpc'[d], u) \in Nat
    BY <1>2, OwedIsNatural
  <2>2. \A d \in Rpcs : Owed(rpc'[d], u) <= Owed(rpc[d], u)
    <3> SUFFICES ASSUME NEW d \in Rpcs PROVE Owed(rpc'[d], u) <= Owed(rpc[d], u)
      OBVIOUS
    <3>1. Owed(NoRpc, u) = 0
      BY DEF Owed, NoRpc
    <3> QED BY <1>1, <2>1, <3>1
  <2>3. \A d \in Rpcs : f[d] \in Int /\ g[d] \in Int /\ g[d] <= f[d]
    BY <2>1, <2>2
  <2>4. OwedAll(u) = SumFunctionOnSet(f, Rpcs) /\ OwedAll(u)' = SumFunctionOnSet(g, Rpcs)
    BY DEF OwedAll
  <2> HIDE DEF f, g
  <2>5. OwedAll(u)' <= OwedAll(u)
    BY <2>3, <2>4, ServerAssumption, SumIsMonotone
  <2>6. OwedAll(u) \in Int /\ OwedAll(u)' \in Int
    BY <2>3, <2>4, ServerAssumption, SumTakesOut
  <2>7. known[u] \in Int /\ held[u] \in Int /\ known[u] + OwedAll(u) <= held[u]
    BY DEF Balanced
  <2>8. known' = known /\ held' = held
    BY DEF ProcessEnds
  <2> QED BY <2>5, <2>6, <2>7, <2>8
<1> QED
  BY <1>2, <1>3 DEF Balanced, ProcessEnds

LEMMA InitBalanced == Init => Balanced
<1> SUFFICES ASSUME Init PROVE Balanced
  OBVIOUS
<1>1. \A c \in Rpcs : rpc[c] = NoRpc
  BY DEF Init
<1>2. \A c \in Rpcs : IsCall(rpc[c])
  BY <1>1 DEF IsCall, NoRpc
<1>3. ASSUME NEW u \in UserIds PROVE OwedAll(u) = 0
  <2> DEFINE f == [c \in Rpcs |-> Owed(rpc[c], u)]
  <2>1. \A c \in Rpcs : f[c] = 0
    BY <1>1 DEF Owed, NoRpc
  <2> HIDE DEF f
  <2>2. SumFunctionOnSet(f, Rpcs) = 0
    BY <2>1, ServerAssumption, SumOfZeros
  <2> QED BY <2>2 DEF OwedAll, f
<1> QED
  BY <1>2, <1>3 DEF Init, Balanced

(* A message comes in: what a client gives back, it no longer knows. *)
LEMMA CallBalanced ==
    ASSUME IInv, Balanced, NEW c \in Rpcs, RpcCall(c) PROVE Balanced'
<1>1. PICK r \in RpcRequests :
        /\ rpc' = [rpc EXCEPT ![c] = [pc |-> "accepted", req |-> r, place |-> 0]]
        /\ IF r.method = "return" /\ r.user # NoId /\ r.count >= 0
           THEN known' = [known EXCEPT ![r.user] = @ - r.count]
           ELSE UNCHANGED known
  BY DEF RpcCall
<1> DEFINE x == [pc |-> "accepted", req |-> r, place |-> 0]
<1>2. IsCall(x) /\ x.pc = "accepted" /\ x.req = r
  BY DEF IsCall
<1>3. rpc[c].pc = "receiving" /\ held' = held
  BY DEF RpcCall, Here
<1>4. \A u \in UserIds : Owed(rpc[c], u) = 0
  BY <1>3 DEF Owed
<1>5. rpc' = [rpc EXCEPT ![c] = x]
  BY <1>1
<1>6. r.user \in UserIds \cup {NoId} /\ (IsTokenCall(r) => r.count \in Int)
  BY RequestFacts
<1> HIDE DEF x
<1>7. /\ known' \in [UserIds -> Int] /\ held' \in [UserIds -> Int]
      /\ \A u \in UserIds : known'[u] + Owed(x, u) - held'[u] <= known[u] - held[u]
  <2>0. known \in [UserIds -> Int] /\ held \in [UserIds -> Int]
    BY DEF Balanced
  <2>1. CASE r.method = "return" /\ r.user # NoId /\ r.count >= 0
    <3>1. r.count \in Int /\ r.user \in UserIds
      BY <1>6, <2>1 DEF IsTokenCall
    <3>2. known' \in [UserIds -> Int]
          /\ \A u \in UserIds : known'[u] = IF u = r.user THEN known[u] - r.count ELSE known[u]
      BY <1>1, <2>0, <2>1, <3>1
    <3>3. \A u \in UserIds : Owed(x, u) = IF u = r.user THEN r.count ELSE 0
      BY <1>2, <2>1, <3>1 DEF Owed, IsTokenCall
    <3> QED BY <1>3, <2>0, <3>1, <3>2, <3>3
  <2>2. CASE ~(r.method = "return" /\ r.user # NoId /\ r.count >= 0)
    <3>1. known' = known
      BY <1>1, <2>2
    <3>2. \A u \in UserIds : Owed(x, u) = 0
      BY <1>2, <1>6, <2>2, StoreAssumption DEF Owed, IsTokenCall
    <3> QED BY <1>3, <2>0, <3>1, <3>2
  <2> QED BY <2>1, <2>2
<1>8. \A u \in UserIds :
        known'[u] + Owed(x, u) - held'[u] <= known[u] + Owed(rpc[c], u) - held[u]
  BY <1>4, <1>7 DEF Balanced
<1> QED
  BY <1>2, <1>5, <1>7, <1>8, SlotChanges

(* A call ends in the server: what its reply grants and its client gives    *)
(* back are what the ledger changes by. *)
LEMMA AnswerBalanced ==
    ASSUME IInv, Balanced, NEW c \in Rpcs, NEW x, rpc' = [rpc EXCEPT ![c] = x],
           x.pc = "answered", x.req = rpc[c].req, rpc[c].pc \in {"accepted", "looking"},
           UNCHANGED known, x.grant \in Nat,
           x.grant > 0 => x.req.method = "take" /\ x.req.user \in UserIds,
           held' \in [UserIds -> Int],
           \A u \in UserIds : held[u] + Owed(x, u) - Owed(rpc[c], u) <= held'[u]
    PROVE  Balanced'
<1>1. IsCall(x) /\ IsCall(rpc[c])
  <2>1. IsCall(rpc[c]) /\ rpc[c].pc \notin {"idle", "receiving"}
    BY DEF Balanced
  <2> QED BY <2>1 DEF IsCall
<1>2. \A u \in UserIds : Owed(x, u) \in Nat /\ Owed(rpc[c], u) \in Nat
  BY <1>1, OwedIsNatural
<1>3. known' \in [UserIds -> Int] /\ known' = known /\ held \in [UserIds -> Int]
  BY DEF Balanced
<1>4. \A u \in UserIds :
        known'[u] + Owed(x, u) - held'[u] <= known[u] + Owed(rpc[c], u) - held[u]
  BY <1>2, <1>3
<1> QED
  BY <1>1, <1>3, <1>4, SlotChanges

LEMMA EmptyAnswerBalanced ==
    ASSUME IInv, Balanced, NEW c \in Rpcs, NEW x, rpc' = [rpc EXCEPT ![c] = x],
           x.pc = "answered", x.req = rpc[c].req, rpc[c].pc \in {"accepted", "looking"},
           UNCHANGED <<known, held>>, x.grant = 0
    PROVE  Balanced'
<1>1. IsCall(rpc[c])
  BY DEF Balanced
<1>2. \A u \in UserIds : Owed(rpc[c], u) \in Nat /\ Owed(x, u) = 0
  BY <1>1, OwedIsNatural DEF Owed
<1>3. held' \in [UserIds -> Int] /\ held' = held
  BY DEF Balanced
<1>4. \A u \in UserIds : held[u] + Owed(x, u) - Owed(rpc[c], u) <= held'[u]
  BY <1>2, <1>3
<1>5. x.grant \in Nat /\ (x.grant > 0 => x.req.method = "take" /\ x.req.user \in UserIds)
  OBVIOUS
<1>6. UNCHANGED known
  OBVIOUS
<1> QED
  BY <1>3, <1>4, <1>5, <1>6, AnswerBalanced

LEMMA TakeBalanced ==
    ASSUME IInv, Balanced, NEW c \in Rpcs, TakeTokens(c) PROVE Balanced'
<1> DEFINE n == Asked(c).count
           user == Asked(c).user
           granted == Bkt!Grants(Bucket(c), n)
           grant == IF granted THEN n ELSE 0
           x == [pc |-> "answered", req |-> Asked(c), place |-> 0,
                 status |-> "OK", grant |-> grant, logged |-> 1]
<1>1. /\ rpc[c].pc = "looking" /\ Asked(c).method = "take" /\ UNCHANGED known
      /\ rpc' = [rpc EXCEPT ![c] = x]
      /\ held' = [held EXCEPT ![user] = IF granted THEN @ + n ELSE @]
  BY DEF TakeTokens, Using, Here, Answered, Verdict
<1>2. /\ Asked(c) \in RpcRequests /\ IsTokenCall(Asked(c)) /\ n \in Int /\ n >= 0
      /\ user \in UserIds
  <2>1. IsCall(rpc[c])
    BY DEF Balanced
  <2>2. Asked(c) \in RpcRequests /\ IsTokenCall(Asked(c)) /\ ~Refuses(Asked(c))
    BY <1>1, <2>1 DEF IsCall, Asked
  <2> QED BY <1>1, <2>2, RequestFacts DEF Refuses
<1>3. x.pc = "answered" /\ x.req = rpc[c].req /\ x.grant = grant /\ rpc[c].req = Asked(c)
  BY DEF Asked
<1>4. grant \in Nat
  BY <1>2
<1>5. held \in [UserIds -> Int]
  BY DEF Balanced
<1> HIDE DEF granted, n, user
<1>6. held' \in [UserIds -> Int]
      /\ \A u \in UserIds : held'[u] = IF u = user THEN held[u] + grant ELSE held[u]
  BY <1>1, <1>2, <1>5
<1> HIDE DEF x, grant
<1>7. \A u \in UserIds : Owed(x, u) = IF u = user THEN grant ELSE 0
  BY <1>2, <1>3 DEF Owed, user
<1>8. \A u \in UserIds : Owed(rpc[c], u) = 0
  BY <1>1 DEF Owed, Asked
<1>9. \A u \in UserIds : held[u] + Owed(x, u) - Owed(rpc[c], u) <= held'[u]
  BY <1>4, <1>5, <1>6, <1>7, <1>8
<1>10. x.grant \in Nat /\ (x.grant > 0 => x.req.method = "take" /\ x.req.user \in UserIds)
  BY <1>1, <1>2, <1>3, <1>4 DEF user
<1> QED
  BY <1>1, <1>3, <1>6, <1>9, <1>10, AnswerBalanced

LEMMA ReturnBalanced ==
    ASSUME IInv, Balanced, NEW c \in Rpcs, ReturnTokens(c) PROVE Balanced'
<1> DEFINE n == Asked(c).count
           user == Asked(c).user
           x == [pc |-> "answered", req |-> Asked(c), place |-> 0,
                 status |-> "OK", grant |-> 0, logged |-> 1]
<1>1. /\ rpc[c].pc = "looking" /\ Asked(c).method = "return" /\ UNCHANGED known
      /\ rpc' = [rpc EXCEPT ![c] = x]
      /\ held' = [held EXCEPT ![user] = @ - n]
  BY DEF ReturnTokens, Using, Here, Answered
<1>2. /\ Asked(c) \in RpcRequests /\ IsTokenCall(Asked(c)) /\ n \in Int /\ n >= 0
      /\ user \in UserIds
  <2>1. IsCall(rpc[c])
    BY DEF Balanced
  <2>2. Asked(c) \in RpcRequests /\ IsTokenCall(Asked(c)) /\ ~Refuses(Asked(c))
    BY <1>1, <2>1 DEF IsCall, Asked
  <2> QED BY <1>1, <2>2, RequestFacts DEF Refuses
<1>3. x.pc = "answered" /\ x.req = rpc[c].req /\ x.grant = 0
  BY DEF Asked
<1>4. held \in [UserIds -> Int]
  BY DEF Balanced
<1>5. \A u \in UserIds : Owed(rpc[c], u) = IF u = user THEN n ELSE 0
  BY <1>1, <1>2 DEF Owed, Asked
<1> HIDE DEF n, user
<1>6. held' \in [UserIds -> Int]
      /\ \A u \in UserIds : held'[u] = IF u = user THEN held[u] - n ELSE held[u]
  BY <1>1, <1>2, <1>4
<1> HIDE DEF x
<1>7. \A u \in UserIds : Owed(x, u) = 0
  BY <1>3 DEF Owed
<1>8. \A u \in UserIds : held[u] + Owed(x, u) - Owed(rpc[c], u) <= held'[u]
  BY <1>2, <1>4, <1>5, <1>6, <1>7
<1>9. x.grant \in Nat /\ (x.grant > 0 => x.req.method = "take" /\ x.req.user \in UserIds)
  BY <1>3
<1>10. rpc[c].pc \in RpcInServer
  BY <1>1 DEF RpcInServer
<1> QED
  BY <1>1, <1>3, <1>6, <1>8, <1>9, <1>10, AnswerBalanced

LEMMA ReplyBalanced ==
    ASSUME IInv, Balanced, NEW c \in Rpcs, RpcReply(c) PROVE Balanced'
<1>1. /\ rpc[c].pc = "answered" /\ rpc' = [rpc EXCEPT ![c] = NoRpc] /\ UNCHANGED held
      /\ \/ /\ rpc[c].grant > 0
            /\ known' = [known EXCEPT ![Asked(c).user] = @ + rpc[c].grant]
         \/ UNCHANGED known
  BY DEF RpcReply, Here
<1>2. IsCall(NoRpc) /\ \A u \in UserIds : Owed(NoRpc, u) = 0
  BY DEF IsCall, Owed, NoRpc
<1>3. known \in [UserIds -> Int] /\ held \in [UserIds -> Int] /\ held' = held
      /\ IsCall(rpc[c])
  BY <1>1 DEF Balanced
<1>4. \A u \in UserIds : Owed(rpc[c], u) \in Nat
  BY <1>3, OwedIsNatural
<1> DEFINE Fits == /\ known' \in [UserIds -> Int]
                   /\ \A u \in UserIds : known'[u] <= known[u] + Owed(rpc[c], u)
<1>5. Fits
  <2>1. CASE UNCHANGED known
    BY <1>3, <1>4, <2>1
  <2>2. CASE /\ rpc[c].grant > 0
             /\ known' = [known EXCEPT ![Asked(c).user] = @ + rpc[c].grant]
    <3>1. Asked(c).method = "take" /\ Asked(c).user \in UserIds /\ rpc[c].grant \in Nat
      BY <1>1, <1>3, <2>2 DEF IsCall, Asked
    <3>2. Owed(rpc[c], Asked(c).user) = rpc[c].grant
      BY <1>1, <3>1 DEF Owed, Asked, IsTokenCall
    <3> DEFINE user == Asked(c).user
               grant == rpc[c].grant
    <3> HIDE DEF user, grant
    <3>3. known' \in [UserIds -> Int]
          /\ \A u \in UserIds : known'[u] = IF u = user THEN known[u] + grant ELSE known[u]
      BY <1>3, <2>2, <3>1 DEF user, grant
    <3>4. Owed(rpc[c], user) = grant
      BY <3>2 DEF user, grant
    <3> QED BY <1>3, <1>4, <3>3, <3>4
  <2> QED BY <1>1, <2>1, <2>2
<1>6. \A u \in UserIds :
        known'[u] + Owed(NoRpc, u) - held'[u] <= known[u] + Owed(rpc[c], u) - held[u]
  BY <1>2, <1>3, <1>4, <1>5
<1> QED
  BY <1>1, <1>2, <1>3, <1>5, <1>6, SlotChanges

LEMMA LookUpBalanced ==
    ASSUME IInv, Balanced, NEW c \in Rpcs, LookUp(c) PROVE Balanced'
<1> DEFINE x == [rpc[c] EXCEPT !.pc = "looking", !.place = Place(Asked(c).user)]
<1>1. rpc[c] \in Accepted
  BY DEF LookUp, Here, IInv, Calls, Accepted, Looking
<1>2. rpc' = [rpc EXCEPT ![c] = x] /\ UNCHANGED <<known, held>>
  BY DEF LookUp
<1>3. x.pc = "looking" /\ x.req = rpc[c].req /\ rpc[c].pc = "accepted"
  BY <1>1 DEF Accepted
<1>4. IsTokenCall(rpc[c].req) /\ ~Refuses(rpc[c].req) /\ rpc[c].req \in RpcRequests
  BY <1>1 DEF LookUp, Asked, Accepted
<1> HIDE DEF x
<1>5. IsCall(x) /\ IsCall(rpc[c])
  BY <1>3, <1>4 DEF IsCall
<1>6. \A u \in UserIds : Owed(x, u) = Owed(rpc[c], u) /\ Owed(x, u) \in Nat
  BY <1>3, <1>5, OwedIsNatural DEF Owed
<1>7. /\ known' \in [UserIds -> Int] /\ held' \in [UserIds -> Int]
      /\ known' = known /\ held' = held
  BY <1>2 DEF Balanced
<1>8. \A u \in UserIds :
        known'[u] + Owed(x, u) - held'[u] <= known[u] + Owed(rpc[c], u) - held[u]
  BY <1>6, <1>7
<1> QED
  BY <1>2, <1>5, <1>7, <1>8, SlotChanges

(* A call without a message owes nothing. *)
LEMMA EmptyCallBalanced ==
    ASSUME IInv, Balanced, NEW c \in Rpcs, RpcOpen(c) \/ RpcAbandon(c) PROVE Balanced'
<1>1. PICK x \in {NoRpc, Opened} : rpc' = [rpc EXCEPT ![c] = x]
  BY DEF RpcOpen, RpcAbandon
<1>2. /\ IsCall(x) /\ rpc[c].pc \in {"idle", "receiving"} /\ UNCHANGED <<known, held>>
      /\ \A u \in UserIds : Owed(x, u) = 0 /\ Owed(rpc[c], u) = 0
  BY DEF RpcOpen, RpcAbandon, Here, NoRpc, Opened, IsCall, Owed
<1>3. /\ known' \in [UserIds -> Int] /\ held' \in [UserIds -> Int]
      /\ \A u \in UserIds :
           known'[u] + Owed(x, u) - held'[u] <= known[u] + Owed(rpc[c], u) - held[u]
  BY <1>2 DEF Balanced
<1> QED
  BY <1>1, <1>2, <1>3, SlotChanges

LEMMA StillBalanced ==
    ASSUME Balanced, UNCHANGED <<rpc, known, held>> PROVE Balanced'
BY DEF Balanced, OwedAll

LEMMA NextBalanced == IInv /\ Balanced /\ [Next]_vars => Balanced'
<1> SUFFICES ASSUME IInv, Balanced, [Next]_vars PROVE Balanced'
  OBVIOUS
<1>1. CASE \/ Tick \/ ListenHTTP \/ ListenFails \/ CancelAfterFailure \/ StartGRPC
           \/ GracefulStop \/ ShutdownCall \/ Signal \/ Start \/ UNCHANGED vars
  BY <1>1, StillBalanced DEF Tick, ListenHTTP, ListenFails, CancelAfterFailure, StartGRPC,
     GracefulStop, ShutdownCall,
     Signal, Start, vars
<1>2. CASE StartGRPCFails \/ ShutdownReturns \/ ShutdownTimesOut \/ Kill
  BY <1>2, BalancedEnds DEF StartGRPCFails, ShutdownReturns, ShutdownTimesOut, Kill
<1>3. ASSUME NEW h \in Https, HttpCall(h) \/ Http(h) PROVE Balanced'
  BY <1>3, StillBalanced DEF HttpCall, Http, RouterError, ValidationError, Dispatch, Handle
<1>4. ASSUME NEW c \in Rpcs, RpcClient(c) \/ RpcHandler(c) PROVE Balanced'
  <2>1. CASE Undecodable(c)
    <3> DEFINE x == [pc |-> "answered", req |-> Asked(c), place |-> 0,
                     status |-> "Internal", grant |-> 0, logged |-> 0]
    <3>1. /\ rpc' = [rpc EXCEPT ![c] = x] /\ rpc[c].pc \in {"accepted", "looking"}
          /\ x.pc = "answered" /\ x.req = rpc[c].req /\ x.grant = 0
          /\ UNCHANGED <<known, held>>
      BY <2>1 DEF Undecodable, Here, Asked
    <3> HIDE DEF x
    <3> QED BY <3>1, EmptyAnswerBalanced
  <2>2. ASSUME NEW status, Answered(c, status, 0), rpc[c].pc \in {"accepted", "looking"},
               UNCHANGED <<known, held>>
        PROVE  Balanced'
    <3> DEFINE x == [pc |-> "answered", req |-> Asked(c), place |-> 0,
                     status |-> status, grant |-> 0, logged |-> 1]
    <3>1. /\ rpc' = [rpc EXCEPT ![c] = x]
          /\ x.pc = "answered" /\ x.req = rpc[c].req /\ x.grant = 0
      BY <2>2 DEF Answered, Asked
    <3> HIDE DEF x
    <3> QED BY <2>2, <3>1, EmptyAnswerBalanced
  <2>3. CASE RefuseTokenCall(c) \/ GetTokens(c) \/ AskService(c)
    BY <2>2, <2>3 DEF RefuseTokenCall, GetTokens, Using, AskService, Here
  <2> QED
    BY <1>4, <2>1, <2>3, CallBalanced, LookUpBalanced, TakeBalanced, ReturnBalanced,
       ReplyBalanced, EmptyCallBalanced DEF RpcClient, RpcHandler
<1> QED
  BY <1>1, <1>2, <1>3, <1>4 DEF Next, Main

(* No reply promises tokens that were not taken: whatever calls are under  *)
(* way, cut off by the end of the process or never heard of again, what    *)
(* the clients of a user know, await and give back was granted to it. *)
THEOREM ClientsDoHoldTheirs == Spec => []ClientsAreCovered
<1>1. Balanced => ClientsAreCovered
  <2> SUFFICES ASSUME Balanced, NEW u \in UserIds
               PROVE known[u] + SumFunctionOnSet([c \in Rpcs |-> About(c, u)], Rpcs) <= held[u]
    BY DEF ClientsAreCovered
  <2>1. [c \in Rpcs |-> About(c, u)] = [c \in Rpcs |-> Owed(rpc[c], u)]
    BY DEF About, Owed, Asked
  <2> QED BY <2>1, Zenon DEF Balanced, OwedAll
<1> QED
  BY <1>1, InitBalanced, NextBalanced, IInvHolds, PTL DEF Spec

-----------------------------------------------------------------------------
(* What the buckets may still grant *)

(* What so many starts and so much time are worth to a user. *)
Worth(starts, time) == starts * Most("capacity") + time * Most("rate")

LEMMA MostFacts ==
    ASSUME NEW field \in Fields
    PROVE  Most(field) \in Nat /\ \A cfg \in Usable : cfg[field] \in Int /\ cfg[field] <= Most(field)
<1> DEFINE M == {0} \cup {cfg[field] : cfg \in Usable}
<1>1. \A cfg \in Usable : cfg \in [Fields -> Int]
  BY ServerAssumption, StoreAssumption DEF Usable, Merged, IsSource
<1>2. IsFiniteSet(Usable)
  <2>1. IsFiniteSet({s \in Sources : Loads(s)})
    BY ServerAssumption, FS_Subset
  <2> DEFINE S == {s \in Sources : Loads(s)}
             f == [s \in S |-> Merged(s)]
  <2>2. Usable = {f[s] : s \in S}
    BY DEF Usable
  <2> HIDE DEF f
  <2> QED BY <2>1, <2>2, ImageIsFinite
<1>3. IsFiniteSet({cfg[field] : cfg \in Usable})
  <2> DEFINE f == [cfg \in Usable |-> cfg[field]]
  <2>1. {cfg[field] : cfg \in Usable} = {f[cfg] : cfg \in Usable}
    OBVIOUS
  <2> HIDE DEF f
  <2> QED BY <1>2, <2>1, ImageIsFinite
<1>4. M \subseteq Int /\ 0 \in M
  BY <1>1
<1>5. IsFiniteSet(M)
  BY <1>3, FS_Singleton, FS_Union
<1>6. \A cfg \in Usable : cfg[field] \in M
  OBVIOUS
<1>7. Most(field) = Max(M)
  BY DEF Most
<1> HIDE DEF M
<1>8. Max(M) \in M /\ \A y \in M : y <= Max(M)
  BY <1>4, <1>5, MaxIsGreatest
<1>9. Most(field) \in Int /\ 0 <= Most(field)
  BY <1>4, <1>7, <1>8
<1>10. ASSUME NEW cfg \in Usable PROVE cfg[field] \in Int /\ cfg[field] <= Most(field)
  BY <1>4, <1>6, <1>7, <1>8
<1> QED
  BY <1>9, <1>10

LEMMA UsableFacts ==
    ASSUME NEW cfg \in Usable
    PROVE  /\ cfg.capacity \in Nat \ {0} /\ cfg.capacity <= Most("capacity")
           /\ cfg.rate \in Nat /\ cfg.rate <= Most("rate")
<1>1. "capacity" \in Fields /\ "rate" \in Fields
  BY DEF Fields
<1>2. cfg.capacity >= 1 /\ cfg.rate >= 0
  BY DEF Usable, Loads, Validated
<1> QED
  BY <1>1, <1>2, MostFacts

LEMMA WorthFacts ==
    ASSUME NEW n \in Int, NEW t \in Int
    PROVE  /\ Worth(n, t) \in Int
           /\ Worth(n + 1, t) = Worth(n, t) + Most("capacity")
           /\ Worth(n, t) <= Worth(n + 1, t)
           /\ \A d \in Nat : Worth(n, t + d) = Worth(n, t) + Most("rate") * d
                             /\ Worth(n, t) <= Worth(n, t + d)
<1> DEFINE C == Most("capacity")
           R == Most("rate")
<1>1. C \in Nat /\ R \in Nat
  BY MostFacts DEF Fields
<1>2. \A k, m \in Int : Worth(k, m) = C * k + R * m
  BY <1>1 DEF Worth
<1> HIDE DEF C, R
<1>3. C * n \in Int /\ R * t \in Int
  BY <1>1, Products
<1>4. C * (n + 1) = C * n + C
  BY <1>1, Products
<1>5. ASSUME NEW d \in Nat PROVE R * (t + d) = R * t + R * d /\ R * d \in Nat
  BY <1>1, Products
<1>6. Worth(n, t) = C * n + R * t /\ Worth(n + 1, t) = C * (n + 1) + R * t
  BY <1>2
<1>7. ASSUME NEW d \in Nat
      PROVE  Worth(n, t + d) = Worth(n, t) + R * d /\ Worth(n, t) <= Worth(n, t + d)
  <2>1. Worth(n, t + d) = C * n + R * (t + d)
    BY <1>2
  <2> QED BY <1>3, <1>5, <1>6, <2>1
<1>8. Worth(n, t) \in Int /\ Worth(n + 1, t) = Worth(n, t) + C /\ Worth(n, t) <= Worth(n + 1, t)
  BY <1>1, <1>3, <1>4, <1>6
<1> QED
  BY <1>7, <1>8 DEF C, R

LEMMA WorthLater ==
    ASSUME NEW n \in Int, NEW t \in Int, NEW s \in Int, t <= s
    PROVE  Worth(n, t) \in Int /\ Worth(n, s) \in Int /\ Worth(n, t) <= Worth(n, s)
<1>1. PICK d \in Nat : s = t + d
  <2>1. s - t \in Nat /\ s = t + (s - t)
    OBVIOUS
  <2> QED BY <2>1
<1> QED
  BY <1>1, WorthFacts

LEMMA WorthSooner ==
    ASSUME NEW n \in Int, NEW t \in Int
    PROVE  /\ Worth(n, t) \in Int /\ Worth(n - 1, t) \in Int
           /\ Worth(n, t) = Worth(n - 1, t) + Most("capacity")
           /\ Worth(n - 1, t) <= Worth(n, t)
<1>1. PICK m \in Int : m = n - 1
  OBVIOUS
<1>2. n = m + 1
  BY <1>1
<1> QED
  BY <1>1, <1>2, WorthFacts

(* A bucket that wrapped around is worth nothing, and is worth no less to  *)
(* its user than one that is empty. *)
Pos(tokens) == IF tokens > 0 THEN tokens ELSE 0

BucketsAt(time) == [tokens : Int, lastRefill : 0 .. time]

Affords(b, has) == has + Pos(b.tokens) <= Worth(boots, b.lastRefill)

Budgeted ==
    /\ now \in Nat /\ boots \in Nat /\ held \in [UserIds -> Int]
    /\ life # "down" => config \in Usable
    /\ life = "down" => \A u \in UserIds : ~Found(u)
    /\ \A u \in UserIds :
         IF Found(u) THEN heap[store[u]] \in BucketsAt(now) /\ Affords(heap[store[u]], held[u])
         ELSE held[u] <= Worth(IF life = "down" THEN boots ELSE boots - 1, now)

(* A refill gives what the time it uses up is worth. *)
LEMMA FreshAffords ==
    ASSUME config \in Usable, now \in Nat, boots \in Nat, NEW b \in BucketsAt(now),
           NEW has \in Int, Affords(b, has)
    PROVE  /\ Bkt!Refilled(b, now) \in BucketsAt(now)
           /\ Affords(Bkt!Refilled(b, now), has)
<1> DEFINE d == now - b.lastRefill
           add == Bkt!Accrued(d)
           used == Bkt!Consumed(add)
           num == config.rate
           t == b.tokens
           l == b.lastRefill
           w == Worth(boots, l)
<1>1. t \in Int /\ l \in 0 .. now /\ d \in Nat /\ l + d = now /\ d = now - l
      /\ b = [tokens |-> t, lastRefill |-> l]
  BY DEF BucketsAt
<1>2. num \in Nat /\ num <= Most("rate") /\ Most("rate") \in Nat
  BY UsableFacts, MostFacts DEF Fields
<1>3. has + Pos(t) <= w /\ w \in Int
  BY <1>1, WorthFacts DEF Affords
<1> DEFINE R == Most("rate")
<1>4. Worth(boots, now) = w + R * d /\ w <= Worth(boots, now) /\ Worth(boots, now) \in Int
  <2> HIDE DEF t, l, d, R
  <2>1. Worth(boots, l + d) = w + R * d /\ w <= Worth(boots, l + d)
    <3>1. boots \in Int /\ l \in Int /\ d \in Nat
      BY <1>1
    <3> QED BY <3>1, WorthFacts DEF R
  <2> QED BY <1>1, <2>1, WorthFacts
<1>5. CASE Bkt!FreshClock(b)
  <2>1. Bkt!Refilled(b, now) = [tokens |-> t, lastRefill |-> now]
    BY <1>1, <1>5 DEF Bkt!Refilled
  <2>2. has + Pos(t) <= Worth(boots, now)
    <3>1. Pos(t) \in Int
      BY <1>1 DEF Pos
    <3> HIDE DEF t, w
    <3> QED BY <1>3, <1>4, <3>1
  <2> HIDE DEF t
  <2> QED BY <1>1, <2>1, <2>2 DEF BucketsAt, Affords
<1>6. CASE ~Bkt!FreshClock(b)
  <2>1. num # 0
    BY <1>6 DEF Bkt!FreshClock
  <2>2. add = num * d /\ used = d /\ add \in Nat /\ num * d <= R * d /\ R * d \in Nat
    <3>1. add = (num * d) \div 1
      BY DEF Bkt!Accrued
    <3>2. used = (1 * add) \div num
      BY DEF Bkt!Consumed
    <3> HIDE DEF add, used, num, d, R
    <3>3. num * d \in Nat /\ num * d <= R * d /\ R * d \in Nat
      <4>1. num \in Nat /\ R \in Nat /\ num <= R /\ d \in Nat
        BY <1>1, <1>2 DEF R
      <4>2. d * num <= d * R /\ d * num \in Int /\ d * num >= 0 /\ d * R \in Int
        BY <4>1, Products
      <4>3. d * num = num * d /\ d * R = R * d
        BY <4>1
      <4> QED BY <4>2, <4>3
    <3>4. add = num * d
      BY <3>1, <3>3
    <3> DEFINE q == (num * d) \div num
               p == num * d
    <3>5. q \in Nat /\ num * q <= p /\ p < num * q + num
      BY <1>2, <2>1, <3>3, Division
    <3>6. used = q
      BY <3>2, <3>3, <3>4
    <3> HIDE DEF q
    <3>7. num * q <= num * d /\ num * d <= num * q + num /\ num * d # num * q + num
      BY <3>3, <3>5, <1>2, Products
    <3>8. q <= d
      BY <1>1, <1>2, <2>1, <3>5, <3>7, Cancelling
    <3>9. num * (q + 1) = num * q + num /\ num * (d - q) = num * d - num * q
      BY <1>1, <1>2, <3>5, Products
    <3>10. d <= q
      <4>1. CASE d >= q + 1
        <5>1. num * (q + 1) <= num * d
          BY <1>1, <1>2, <3>5, <4>1, Products
        <5>2. num * q \in Int
          BY <1>2, <3>5, Products
        <5> QED BY <1>2, <3>3, <3>7, <3>9, <5>1, <5>2
      <4> QED BY <1>1, <3>5, <4>1
    <3> QED BY <1>1, <3>3, <3>4, <3>5, <3>6, <3>8, <3>10
  <2> HIDE DEF add, used
  <2>3. CASE add <= 0
    <3>1. Bkt!Refilled(b, now) = b
      BY <1>6, <2>3 DEF Bkt!Refilled, add, d
    <3> QED BY <3>1
  <2>4. CASE ~(add <= 0)
    <3> DEFINE s == Bkt!Capped(t + add)
    <3>1. Bkt!Refilled(b, now) = [tokens |-> s, lastRefill |-> l + used]
      BY <1>6, <2>4 DEF Bkt!Refilled, add, used, d
    <3>2. s \in Int /\ s <= t + add
      BY <1>1, <2>2, UsableFacts DEF Bkt!Capped
    <3>3. l + used = now
      BY <1>1, <2>2
    <3> HIDE DEF s, t, d, num, w, R, l
    <3>4. Pos(s) <= Pos(t) + add /\ Pos(t) \in Int /\ Pos(s) \in Int
      BY <1>1, <2>2, <3>2 DEF Pos
    <3>5. has + Pos(s) <= Worth(boots, now)
      BY <1>3, <1>4, <2>2, <3>4
    <3> QED BY <1>1, <3>1, <3>2, <3>3, <3>5 DEF BucketsAt, Affords
  <2> QED BY <2>3, <2>4
<1> QED
  BY <1>5, <1>6

LEMMA LookingFacts ==
    ASSUME IInv, Balanced, NEW c \in Rpcs, Here(c, "looking")
    PROVE  /\ IsTokenCall(Asked(c)) /\ Asked(c).count \in Int
           /\ Asked(c).method # "get" => Asked(c).count >= 0
           /\ Asked(c).user \in UserIds /\ Found(Asked(c).user)
           /\ rpc[c].place = store[Asked(c).user] /\ rpc[c].place \in 1 .. Len(heap)
<1>1. Asked(c) \in RpcRequests /\ IsTokenCall(Asked(c)) /\ ~Refuses(Asked(c))
  BY DEF Balanced, IsCall, Here, Asked
<1>2. /\ Asked(c).count \in Int
      /\ Asked(c).method # "get" => Asked(c).count >= 0
  BY <1>1, RequestFacts DEF Refuses
<1>3. /\ Asked(c).user \in UserIds /\ rpc[c].place = store[Asked(c).user] /\ rpc[c].place # 0
      /\ store[Asked(c).user] \in 0 .. Len(heap)
  BY DEF IInv, Stored
<1> QED
  BY <1>1, <1>2, <1>3 DEF Found

(* Time and a new process only raise what may be granted. *)
LEMMA BudgetLater ==
    ASSUME Budgeted, UNCHANGED <<held, heap, store>>, now' \in {now, now + 1},
           boots' = boots, config' = config, life # "down", life' # "down"
    PROVE  Budgeted'
<1>1. now \in Nat /\ now' \in Nat /\ boots \in Nat /\ boots - 1 \in Int
  BY DEF Budgeted
<1>2. Worth(boots - 1, now) <= Worth(boots - 1, now') /\ Worth(boots - 1, now) \in Int
      /\ Worth(boots - 1, now') \in Int
  <2>1. now \in Int /\ now' \in Int /\ now <= now'
    BY <1>1
  <2> QED BY <1>1, <2>1, WorthLater
<1>3. ASSUME NEW u \in UserIds
      PROVE  IF Found(u) THEN heap[store[u]] \in BucketsAt(now') /\ Affords(heap[store[u]], held[u])
             ELSE held[u] <= Worth(boots - 1, now')
  <2>1. CASE Found(u)
    <3>1. heap[store[u]] \in BucketsAt(now) /\ Affords(heap[store[u]], held[u])
      BY <2>1 DEF Budgeted
    <3> QED BY <1>1, <2>1, <3>1 DEF BucketsAt
  <2>2. CASE ~Found(u)
    <3>1. held[u] <= Worth(boots - 1, now) /\ held[u] \in Int
      BY <2>2 DEF Budgeted
    <3> QED BY <1>2, <2>2, <3>1
  <2> QED BY <2>1, <2>2
<1>4. \A u \in UserIds : Found(u)' <=> Found(u)
  BY DEF Found
<1> QED
  BY <1>1, <1>3, <1>4 DEF Budgeted, Affords

(* Whatever a user holds when a process ends is within what was granted. *)
LEMMA BudgetAtEnd ==
    ASSUME Budgeted, NEW u \in UserIds, life # "down" PROVE held[u] <= Worth(boots, now)
<1>1. now \in Nat /\ boots \in Nat /\ held[u] \in Int
  BY DEF Budgeted
<1>2. Worth(boots, now) \in Int /\ Worth(boots - 1, now) \in Int
      /\ Worth(boots - 1, now) <= Worth(boots, now)
  <2>1. boots \in Int /\ now \in Int
    BY <1>1
  <2> QED BY <2>1, WorthSooner
<1>3. CASE ~Found(u)
  <2>1. held[u] <= Worth(boots - 1, now)
    BY <1>3 DEF Budgeted
  <2> QED BY <1>1, <1>2, <2>1
<1>4. CASE Found(u)
  <2> DEFINE b == heap[store[u]]
             l == b.lastRefill
  <2>1. b \in BucketsAt(now) /\ Affords(b, held[u])
    BY <1>4 DEF Budgeted
  <2>2. Pos(b.tokens) \in Nat /\ held[u] + Pos(b.tokens) <= Worth(boots, l) /\ l \in 0 .. now
    BY <2>1 DEF Affords, BucketsAt, Pos
  <2> HIDE DEF l
  <2>3. l \in Int /\ l <= now /\ now \in Int /\ boots \in Int
    BY <1>1, <2>2
  <2>4. Worth(boots, l) <= Worth(boots, now) /\ Worth(boots, l) \in Int
    BY <2>3, WorthLater
  <2> HIDE DEF b
  <2> QED BY <1>1, <1>2, <2>2, <2>4
<1> QED
  BY <1>3, <1>4

LEMMA BudgetEnds ==
    ASSUME Budgeted, NEW how, ProcessEnds(how), life # "down" PROVE Budgeted'
<1>1. \A u \in UserIds : ~Found(u)' /\ held'[u] = held[u]
  BY DEF ProcessEnds, Found
<1>2. now' = now /\ boots' = boots /\ held' = held /\ life' = "down"
  BY DEF ProcessEnds
<1>3. \A u \in UserIds : held[u] <= Worth(boots, now)
  BY BudgetAtEnd
<1> QED
  BY <1>1, <1>2, <1>3 DEF Budgeted

LEMMA BudgetStarts == ASSUME Budgeted, Start PROVE Budgeted'
<1>1. life = "down" /\ boots' = boots + 1 /\ now' = now /\ held' = held
  BY DEF Start
<1>2. now \in Nat /\ boots \in Nat /\ held \in [UserIds -> Int]
      /\ \A u \in UserIds : ~Found(u) /\ held[u] <= Worth(boots, now)
  BY <1>1 DEF Budgeted
<1>3. Worth(boots, now) \in Int /\ Worth(boots + 1, now) \in Int
      /\ Worth(boots, now) <= Worth(boots + 1, now)
  BY <1>2, WorthFacts
<1>4. CASE life' = "down" /\ UNCHANGED storeVars
  <2>1. \A u \in UserIds : ~Found(u)'
    BY <1>2, <1>4 DEF Found, storeVars
  <2>2. ASSUME NEW u \in UserIds PROVE held[u] <= Worth(boots + 1, now)
    <3>1. held[u] \in Int /\ held[u] <= Worth(boots, now)
      BY <1>2
    <3> QED BY <1>3, <3>1
  <2> QED BY <1>1, <1>2, <1>4, <2>1, <2>2 DEF Budgeted
<1>5. ASSUME NEW s \in Sources, Loads(s), NewStore(Merged(s)), life' = "starting"
      PROVE  Budgeted'
  <2>1. config' \in Usable /\ \A u \in UserIds : ~Found(u)'
    BY <1>5 DEF NewStore, Usable, Found
  <2>2. boots' - 1 = boots /\ boots' \in Nat
    BY <1>1, <1>2
  <2> QED BY <1>1, <1>2, <1>5, <2>1, <2>2 DEF Budgeted
<1> QED
  BY <1>1, <1>4, <1>5 DEF Start

(* A new bucket is worth what a start is. *)
LEMMA BudgetLookUp ==
    ASSUME IInv, Budgeted, NEW c \in Rpcs, LookUp(c) PROVE Budgeted'
<1> DEFINE b == Bkt!NewBucket(now)
<1>1. rpc[c].pc = "accepted" /\ rpc[c].req \in RpcRequests
  BY DEF LookUp, Here, IInv, Calls, Accepted, Looking
<1>2. PICK u \in UserIds : u = Asked(c).user
  BY <1>1, RequestFacts DEF LookUp, Asked, Refuses
<1>3. life # "down" /\ life' = life /\ boots' = boots /\ now' = now /\ held' = held
      /\ config' = config
  BY <1>1 DEF LookUp, IInv, CallsWhereServed, RpcInServer, process, ForUser
<1>4. /\ heap' = IF Found(u) THEN heap ELSE Append(heap, b)
      /\ store' = [store EXCEPT ![u] = Place(u)]
  BY <1>2 DEF LookUp, ForUser
<1>5. now \in Nat /\ boots \in Nat /\ held \in [UserIds -> Int] /\ config \in Usable
  BY <1>3 DEF Budgeted
<1>6. store \in [UserIds -> 0 .. Len(heap)] /\ Len(heap) \in Nat
  BY DEF IInv, Stored
<1>7. CASE Found(u)
  <2>1. heap' = heap /\ store' = store
    BY <1>2, <1>4, <1>6, <1>7 DEF Place
  <2> QED BY <1>3, <1>5, <2>1, BudgetLater
<1>8. CASE ~Found(u)
  <2>1. PICK S : heap \in Seq(S)
    BY DEF IInv, Stored
  <2>2. /\ \A i \in 1 .. Len(heap) : heap'[i] = heap[i]
        /\ heap'[Len(heap) + 1] = b
    <3> HIDE DEF b
    <3>1. heap \in Seq(S \cup {b}) /\ heap' = Append(heap, b)
      BY <1>4, <1>8, <2>1
    <3> QED BY <3>1, AppendProperties
  <2>3. store'[u] = Len(heap) + 1 /\ \A v \in UserIds \ {u} : store'[v] = store[v]
    BY <1>2, <1>4, <1>6, <1>8 DEF Place
  <2>4. Found(u)' /\ \A v \in UserIds \ {u} : Found(v)' <=> Found(v)
    BY <1>6, <2>3 DEF Found
  <2>5. \A v \in UserIds \ {u} : Found(v) => heap'[store'[v]] = heap[store[v]]
    BY <1>6, <2>2, <2>3 DEF Found
  <2>6. heap'[store'[u]] = b
    BY <2>2, <2>3
  <2>7. b \in BucketsAt(now) /\ Affords(b, held[u])
    <3>1. b = [tokens |-> config.capacity, lastRefill |-> now]
      BY DEF Bkt!NewBucket
    <3> DEFINE cap == config.capacity
               n == boots - 1
    <3>2. cap \in Nat \ {0} /\ cap <= Most("capacity") /\ Most("capacity") \in Nat
      BY <1>5, UsableFacts, MostFacts DEF Fields
    <3>3. held[u] <= Worth(n, now) /\ held[u] \in Int
      BY <1>2, <1>3, <1>5, <1>8 DEF Budgeted
    <3>4. boots \in Int /\ now \in Int
      BY <1>5
    <3>5. Worth(n, now) \in Int /\ Worth(boots, now) = Worth(n, now) + Most("capacity")
      BY <3>4, WorthSooner
    <3> HIDE DEF cap, n
    <3>6. held[u] + cap <= Worth(boots, now)
      BY <3>2, <3>3, <3>4, <3>5
    <3>7. Pos(cap) = cap
      BY <3>2 DEF Pos
    <3>8. b.tokens = cap /\ b.lastRefill = now
      BY <3>1 DEF cap
    <3>9. b \in BucketsAt(now)
      BY <1>5, <3>1, <3>2 DEF BucketsAt, cap
    <3> HIDE DEF b
    <3> QED BY <3>6, <3>7, <3>8, <3>9 DEF Affords
  <2> HIDE DEF b
  <2>8. ASSUME NEW v \in UserIds
        PROVE  IF Found(v)' THEN heap'[store'[v]] \in BucketsAt(now) /\ Affords(heap'[store'[v]], held[v])
               ELSE held[v] <= Worth(boots - 1, now)
    <3>1. CASE v = u
      BY <2>4, <2>6, <2>7, <3>1
    <3>2. CASE v # u
      BY <1>3, <2>4, <2>5, <3>2 DEF Budgeted
    <3> QED BY <3>1, <3>2
  <2> QED BY <1>3, <1>5, <2>8 DEF Budgeted, Affords
<1> QED
  BY <1>7, <1>8

(* A method of a bucket whose user then holds no more than it affords. *)
LEMMA BudgetUse ==
    ASSUME IInv, Balanced, Budgeted, NEW c \in Rpcs, Here(c, "looking"),
           NEW b, SetBucket(rpc[c].place, b), b \in BucketsAt(now),
           held' \in [UserIds -> Int], Affords(b, held'[Asked(c).user]),
           \A v \in UserIds \ {Asked(c).user} : held'[v] = held[v],
           UNCHANGED <<now, process>>
    PROVE  Budgeted'
<1> DEFINE u == Asked(c).user
           i == rpc[c].place
<1>1. u \in UserIds /\ Found(u) /\ i = store[u] /\ i \in 1 .. Len(heap)
  BY LookingFacts
<1>2. heap' = [heap EXCEPT ![i] = b] /\ config' = config /\ store' = store
      /\ life' = life /\ boots' = boots /\ now' = now
  BY DEF SetBucket, process
<1>3. PICK S : heap \in Seq(S)
  BY DEF IInv, Stored
<1>4. life # "down"
  BY DEF IInv, CallsWhereServed, RpcInServer, Here
<1>5. \A v \in UserIds \ {u} : Found(v) => store[v] \in 1 .. Len(heap) /\ store[v] # i
  BY <1>1 DEF IInv, Stored, Found
<1>6. heap'[i] = b /\ \A j \in 1 .. Len(heap) : j # i => heap'[j] = heap[j]
  BY <1>1, <1>2, <1>3
<1>7. \A v \in UserIds : Found(v)' <=> Found(v)
  BY <1>2 DEF Found
<1>8. now \in Nat /\ boots \in Nat /\ config \in Usable
  BY <1>4 DEF Budgeted
<1> HIDE DEF u, i
<1>9. ASSUME NEW v \in UserIds
      PROVE  IF Found(v) THEN heap'[store[v]] \in BucketsAt(now) /\ Affords(heap'[store[v]], held'[v])
             ELSE held'[v] <= Worth(boots - 1, now)
  <2>1. CASE v = u
    BY <1>1, <1>6, <2>1 DEF u
  <2>2. CASE v # u
    <3>1. held'[v] = held[v]
      BY <2>2 DEF u
    <3> QED BY <1>4, <1>5, <1>6, <2>2, <3>1 DEF Budgeted
  <2> QED BY <2>1, <2>2
<1> QED
  BY <1>2, <1>4, <1>7, <1>8, <1>9 DEF Budgeted, Affords

LEMMA BucketFacts ==
    ASSUME IInv, Balanced, Budgeted, NEW c \in Rpcs, Here(c, "looking")
    PROVE  /\ Bucket(c) \in BucketsAt(now) /\ Affords(Bucket(c), held[Asked(c).user])
           /\ config \in Usable /\ held \in [UserIds -> Int]
           /\ now \in Nat /\ boots \in Nat
<1>1. Asked(c).user \in UserIds /\ Found(Asked(c).user) /\ rpc[c].place = store[Asked(c).user]
  BY LookingFacts
<1>2. life # "down"
  BY DEF IInv, CallsWhereServed, RpcInServer, Here
<1>3. /\ now \in Nat /\ boots \in Nat /\ config \in Usable /\ held \in [UserIds -> Int]
      /\ heap[rpc[c].place] \in BucketsAt(now)
      /\ Affords(heap[rpc[c].place], held[Asked(c).user])
      /\ held[Asked(c).user] \in Int
  BY <1>1, <1>2 DEF Budgeted
<1>4. Bucket(c) = Bkt!Refilled(heap[rpc[c].place], now)
  BY DEF Bucket, Fresh
<1> QED
  BY <1>3, <1>4, FreshAffords

LEMMA BudgetTakes ==
    ASSUME IInv, Balanced, Budgeted, NEW c \in Rpcs, TakeTokens(c) PROVE Budgeted'
<1> DEFINE n == Asked(c).count
           u == Asked(c).user
           f == Bucket(c)
           granted == Bkt!Grants(f, n)
           b == IF granted THEN Bkt!Spent(f, n) ELSE f
<1>1. /\ Here(c, "looking") /\ SetBucket(rpc[c].place, b) /\ UNCHANGED <<now, process>>
      /\ held' = [held EXCEPT ![u] = IF granted THEN @ + n ELSE @]
  BY DEF TakeTokens, Using
<1>2. n \in Int /\ n >= 0 /\ u \in UserIds
  BY <1>1, LookingFacts DEF TakeTokens, Using
<1>3. f \in BucketsAt(now) /\ Affords(f, held[u]) /\ held \in [UserIds -> Int]
  BY <1>1, BucketFacts
<1>4. granted => n <= f.tokens /\ Bkt!Spent(f, n) = [f EXCEPT !.tokens = @ - n]
  BY DEF Bkt!Grants, Bkt!Spent
<1>5. boots \in Nat /\ now \in Nat
  BY DEF Budgeted
<1> HIDE DEF n, u, f, granted
<1>6. held' \in [UserIds -> Int] /\ held'[u] = (IF granted THEN held[u] + n ELSE held[u])
      /\ \A v \in UserIds \ {u} : held'[v] = held[v]
  BY <1>1, <1>2, <1>3
<1>7. b \in BucketsAt(now) /\ Affords(b, held'[u])
  <2>1. CASE ~granted
    BY <1>3, <1>6, <2>1
  <2>2. CASE granted
    <3> DEFINE t == f.tokens
               l == f.lastRefill
    <3>1. t \in Int /\ l \in 0 .. now /\ f = [tokens |-> t, lastRefill |-> l]
      BY <1>3 DEF BucketsAt
    <3>2. b = [tokens |-> t - n, lastRefill |-> l]
      BY <1>4, <2>2, <3>1
    <3>3. held[u] + Pos(t) <= Worth(boots, l)
      BY <1>3 DEF Affords
    <3>4. Worth(boots, l) \in Int
      <4>1. l \in Int /\ boots \in Int
        BY <1>5, <3>1
      <4> HIDE DEF l
      <4> QED BY <4>1, WorthFacts
    <3>5. n <= t
      BY <1>4, <2>2
    <3> HIDE DEF t, l, b
    <3>6. held[u] + n + Pos(t - n) <= Worth(boots, l)
      BY <1>2, <1>3, <3>1, <3>3, <3>4, <3>5 DEF Pos
    <3>7. held'[u] = held[u] + n
      BY <1>6, <2>2
    <3>8. b.tokens = t - n /\ b.lastRefill = l /\ b \in BucketsAt(now)
      BY <1>2, <3>1, <3>2 DEF BucketsAt
    <3> QED BY <3>6, <3>7, <3>8 DEF Affords
  <2> QED BY <2>1, <2>2
<1> HIDE DEF b
<1> QED
  BY <1>1, <1>6, <1>7, BudgetUse DEF u

(* A sum that wraps around only lowers what the bucket may grant. *)
LEMMA BudgetReturns ==
    ASSUME IInv, Balanced, Budgeted, NEW c \in Rpcs, ReturnTokens(c) PROVE Budgeted'
<1> DEFINE n == Asked(c).count
           u == Asked(c).user
           f == Bucket(c)
           b == Bkt!Credited(f, n)
<1>1. /\ Here(c, "looking") /\ SetBucket(rpc[c].place, b) /\ UNCHANGED <<now, process>>
      /\ held' = [held EXCEPT ![u] = @ - n]
  BY DEF ReturnTokens, Using
<1>2. n \in Int /\ n >= 0 /\ u \in UserIds
  BY <1>1, LookingFacts DEF ReturnTokens, Using
<1>3. /\ f \in BucketsAt(now) /\ Affords(f, held[u]) /\ held \in [UserIds -> Int]
      /\ config \in Usable
  BY <1>1, BucketFacts
<1>4. boots \in Nat /\ now \in Nat
  BY DEF Budgeted
<1> DEFINE t == f.tokens
           l == f.lastRefill
           s == Bkt!Capped(Bkt!Wrapped(t + n))
<1>5. t \in Int /\ l \in 0 .. now /\ f = [tokens |-> t, lastRefill |-> l]
  BY <1>3 DEF BucketsAt
<1>6. b = [tokens |-> s, lastRefill |-> l]
  BY <1>5 DEF Bkt!Credited
<1>7. s \in Int /\ s <= t + n
  <2> HIDE DEF t, n
  <2> QED BY <1>2, <1>3, <1>5, UsableFacts, StoreAssumption DEF Bkt!Capped, Bkt!Wrapped
<1>8. held[u] + Pos(t) <= Worth(boots, l) /\ Worth(boots, l) \in Int
  <2>1. l \in Int /\ boots \in Int
    BY <1>4, <1>5
  <2>2. held[u] + Pos(t) <= Worth(boots, l)
    BY <1>3 DEF Affords
  <2> HIDE DEF l
  <2> QED BY <2>1, <2>2, WorthFacts
<1> HIDE DEF n, u, f, t, l, s, b
<1>9. held' \in [UserIds -> Int] /\ held'[u] = held[u] - n
      /\ \A v \in UserIds \ {u} : held'[v] = held[v]
  BY <1>1, <1>2, <1>3
<1>10. held[u] - n + Pos(s) <= Worth(boots, l)
  BY <1>2, <1>3, <1>5, <1>7, <1>8 DEF Pos
<1>11. b \in BucketsAt(now) /\ Affords(b, held'[u])
  BY <1>5, <1>6, <1>7, <1>9, <1>10 DEF BucketsAt, Affords
<1> QED
  BY <1>1, <1>9, <1>11, BudgetUse DEF u

LEMMA BudgetGets ==
    ASSUME IInv, Balanced, Budgeted, NEW c \in Rpcs, GetTokens(c) PROVE Budgeted'
<1>1. /\ Here(c, "looking") /\ SetBucket(rpc[c].place, Bucket(c))
      /\ UNCHANGED <<now, process>> /\ held' = held
  BY DEF GetTokens, Using
<1>2. /\ Bucket(c) \in BucketsAt(now) /\ Affords(Bucket(c), held[Asked(c).user])
      /\ held \in [UserIds -> Int]
  BY <1>1, BucketFacts
<1> QED
  BY <1>1, <1>2, BudgetUse

LEMMA BudgetStill ==
    ASSUME Budgeted, UNCHANGED <<now, boots, held, storeVars>>,
           (life = "down") <=> (life' = "down")
    PROVE  Budgeted'
<1>1. \A u \in UserIds : Found(u)' <=> Found(u)
  BY DEF Found, storeVars
<1> QED
  BY <1>1 DEF Budgeted, Affords, storeVars

LEMMA NextBudgeted == IInv /\ Balanced /\ Budgeted /\ [Next]_vars => Budgeted'
<1> SUFFICES ASSUME IInv, Balanced, Budgeted, [Next]_vars PROVE Budgeted'
  OBVIOUS
<1>1. CASE Tick
  <2>1. CASE life = "down"
    <3>1. now \in Nat /\ boots \in Nat /\ held \in [UserIds -> Int] /\ now' = now + 1
          /\ life' = life /\ boots' = boots /\ held' = held /\ store' = store
      BY <1>1 DEF Tick, Budgeted, process, storeVars
    <3>2. \A u \in UserIds : ~Found(u) /\ held[u] <= Worth(boots, now)
      BY <2>1 DEF Budgeted
    <3>3. Worth(boots, now) <= Worth(boots, now + 1)
          /\ Worth(boots, now) \in Int /\ Worth(boots, now + 1) \in Int
      BY <3>1, WorthLater
    <3>4. \A u \in UserIds : held[u] <= Worth(boots, now + 1)
      BY <3>1, <3>2, <3>3
    <3>5. \A u \in UserIds : ~Found(u)'
      BY <3>1, <3>2 DEF Found
    <3> QED BY <2>1, <3>1, <3>4, <3>5 DEF Budgeted
  <2>2. CASE life # "down"
    BY <1>1, <2>2, BudgetLater DEF Tick, process, storeVars
  <2> QED BY <2>1, <2>2
<1>2. CASE \/ ListenHTTP \/ ListenFails \/ CancelAfterFailure \/ StartGRPC
           \/ GracefulStop \/ ShutdownCall \/ Signal \/ UNCHANGED vars
  BY <1>2, BudgetStill DEF ListenHTTP, ListenFails, CancelAfterFailure, StartGRPC,
     GracefulStop, ShutdownCall,
     Signal, vars, process
<1>3. CASE Start
  BY <1>3, BudgetStarts
<1>4. CASE StartGRPCFails \/ ShutdownReturns \/ ShutdownTimesOut \/ Kill
  BY <1>4, BudgetEnds DEF StartGRPCFails, ShutdownReturns, ShutdownTimesOut, Kill
<1>5. ASSUME NEW h \in Https, HttpCall(h) \/ Http(h) PROVE Budgeted'
  <2>1. UNCHANGED <<now, process, held, storeVars>>
    BY <1>5 DEF HttpCall, Http, RouterError, ValidationError, Dispatch, Handle
  <2> QED BY <2>1, BudgetStill DEF process
<1>6. ASSUME NEW c \in Rpcs, RpcClient(c) \/ RpcHandler(c) PROVE Budgeted'
  <2>1. CASE RpcClient(c) \/ Undecodable(c) \/ RefuseTokenCall(c) \/ AskService(c)
    <3>1. UNCHANGED <<now, process, held, storeVars>>
      BY <2>1 DEF RpcClient, RpcOpen, RpcAbandon, RpcCall, Undecodable, RefuseTokenCall,
         AskService, RpcReply
    <3> QED BY <3>1, BudgetStill DEF process
  <2> QED
    BY <1>6, <2>1, BudgetLookUp, BudgetGets, BudgetTakes, BudgetReturns DEF RpcHandler
<1> QED
  BY <1>1, <1>2, <1>3, <1>4, <1>5, <1>6 DEF Next, Main

LEMMA InitBudgeted == Init => Budgeted
<1> SUFFICES ASSUME Init PROVE Budgeted
  OBVIOUS
<1>1. Worth(0, 0) = 0
  <2>1. Most("capacity") \in Nat /\ Most("rate") \in Nat
    BY MostFacts DEF Fields
  <2> QED BY <2>1 DEF Worth
<1>2. \A u \in UserIds : ~Found(u) /\ held[u] = 0
  BY DEF Init, Found
<1> QED
  BY <1>1, <1>2 DEF Init, Budgeted

(* The rate limit, through restarts, lost replies and returns of tokens    *)
(* that another process granted: what a user was granted and did not give  *)
(* back, with what its bucket holds, is at most one capacity for each      *)
(* start and the rate for the time that passed (bucket.go, store.go). *)
THEOREM BudgetIsKept == Spec => []BudgetAcrossRestarts
<1>1. IInv /\ Budgeted => BudgetAcrossRestarts
  <2> SUFFICES ASSUME IInv, Budgeted, NEW u \in UserIds
               PROVE  held[u] + InBucket(u) <= Worth(boots, now)
    BY DEF BudgetAcrossRestarts, Worth
  <2>1. now \in Nat /\ boots \in Nat /\ held[u] \in Int
    BY DEF Budgeted
  <2>2. CASE ~Found(u)
    <3>1. InBucket(u) = 0
      BY <2>2 DEF InBucket
    <3>2. held[u] <= Worth(boots, now)
      BY <2>2, BudgetAtEnd DEF Budgeted
    <3> QED BY <2>1, <3>1, <3>2
  <2>3. CASE Found(u)
    <3> DEFINE b == heap[store[u]]
               l == b.lastRefill
               t == b.tokens
    <3>1. b \in BucketsAt(now) /\ Affords(b, held[u])
      BY <2>3 DEF Budgeted
    <3>2. t \in Int /\ l \in 0 .. now /\ held[u] + Pos(t) <= Worth(boots, l)
      BY <3>1 DEF BucketsAt, Affords
    <3>3. InBucket(u) = t
      BY <2>3 DEF InBucket
    <3> HIDE DEF t, l
    <3>4. l \in Int /\ l <= now /\ now \in Int /\ boots \in Int
      BY <2>1, <3>2
    <3>5. Worth(boots, l) <= Worth(boots, now) /\ Worth(boots, l) \in Int
          /\ Worth(boots, now) \in Int
      BY <3>4, WorthLater
    <3>6. held[u] + t <= held[u] + Pos(t) /\ Pos(t) \in Int
      BY <2>1, <3>2 DEF Pos
    <3> QED BY <2>1, <3>2, <3>3, <3>5, <3>6
  <2> QED BY <2>2, <2>3
<1>2. Spec => []Balanced
  BY InitBalanced, NextBalanced, IInvHolds, PTL DEF Spec
<1> QED
  BY <1>1, <1>2, InitBudgeted, NextBudgeted, IInvHolds, PTL DEF Spec

-----------------------------------------------------------------------------
(* The layers around a handler of HTTP *)

(* What a sequence has once a layer is put around it. *)
LEMMA LayerFacts ==
    ASSUME NEW V, NEW m \in V, NEW s \in Seq(V)
    PROVE  /\ <<m>> \o s \in Seq(V) /\ Len(<<m>> \o s) = Len(s) + 1
           /\ (<<m>> \o s)[1] = m
           /\ \A i \in 1 .. Len(s) : (<<m>> \o s)[i + 1] = s[i]
<1>1. <<m>> \in Seq(V) /\ Len(<<m>>) = 1 /\ <<m>>[1] = m
  OBVIOUS
<1>2. Len(s) \in Nat
  OBVIOUS
<1> QED
  BY <1>1, <1>2, ConcatProperties

(* Chain is the fold of its middlewares, which is defined by an equation;  *)
(* the equation has a solution, so it holds of Chain. *)
Wraps(g, D, list, handler) ==
    g = [T \in SUBSET D |-> IF T = {} THEN handler
                            ELSE <<list[Max(T)]>> \o g[T \ {Max(T)}]]

LEMMA ChainIsItsFold ==
    Chain = (CHOOSE g : Wraps(g, DOMAIN Middlewares, Middlewares, <<"handler">>))[DOMAIN Middlewares]
BY Zenon DEF Chain, FoldLeft, MapThenFoldSet, Wraps

LEMMA ChainIsDefined ==
    ASSUME NEW D, IsFiniteSet(D), \A T \in SUBSET D : T # {} => Max(T) \in T,
           NEW V, NEW list \in [D -> V], NEW handler \in Seq(V)
    PROVE  \E g : Wraps(g, D, list, handler)
<1> DEFINE W == Seq(V)
           Step == [i \in D |-> [inner \in W |-> <<list[i]>> \o inner]]
           Pick == [T \in SUBSET D |-> Max(T)]
<1>1. \A i \in D, inner \in W : <<list[i]>> \o inner \in W
  <2> SUFFICES ASSUME NEW i \in D, NEW inner \in W PROVE <<list[i]>> \o inner \in W
    OBVIOUS
  <2>1. list[i] \in V
    OBVIOUS
  <2> QED BY <2>1, LayerFacts
<1>2. \A i \in D, inner \in W : Step[i][inner] = <<list[i]>> \o inner
  OBVIOUS
<1>3. Step \in [D -> [W -> W]]
  <2> HIDE DEF W
  <2> QED BY <1>1
<1>4. \A T \in SUBSET D : T # {} => Pick[T] \in T
  OBVIOUS
<1>5. handler \in W
  OBVIOUS
<1> HIDE DEF W
<1>6. PICK g \in [SUBSET D -> W] : IsFold(g, D, handler, Step, Pick)
  <2> HIDE DEF Step, Pick
  <2> QED BY <1>3, <1>4, <1>5, FoldIsDefined
<1>7. \A T \in SUBSET D : g[T] = IF T = {} THEN handler ELSE Step[Max(T)][g[T \ {Max(T)}]]
  <2> HIDE DEF Step
  <2> QED BY <1>6, Zenon DEF IsFold
<1> HIDE DEF Step, Pick
<1>8. ASSUME NEW T \in SUBSET D, T # {} PROVE g[T] = <<list[Max(T)]>> \o g[T \ {Max(T)}]
  <2>1. Max(T) \in D /\ g[T \ {Max(T)}] \in W
    BY <1>8
  <2>2. g[T] = Step[Max(T)][g[T \ {Max(T)}]]
    BY <1>7, <1>8
  <2> QED BY <1>2, <2>1, <2>2, Zenon
<1>9. g = [T \in SUBSET D |-> g[T]]
  BY <1>6
<1>10. \A T \in SUBSET D :
         g[T] = IF T = {} THEN handler ELSE <<list[Max(T)]>> \o g[T \ {Max(T)}]
  BY <1>7, <1>8, Zenon
<1>11. Wraps(g, D, list, handler)
  BY <1>9, <1>10 DEF Wraps
<1> QED
  BY <1>11

(* The last of the list is the outermost layer: a request meets the        *)
(* validation first and withRecover last. *)
Layers == {"validation", "bodyLimit", "accessLog", "requestID", "recover", "handler"}

LEMMA ChainIsInsideOut ==
    /\ Len(Chain) = 6 /\ Chain \in Seq(Layers)
    /\ Chain[1] = "validation" /\ Chain[2] = "bodyLimit" /\ Chain[3] = "accessLog"
    /\ Chain[4] = "requestID" /\ Chain[5] = "recover" /\ Chain[6] = "handler"
<1> DEFINE D == 1 .. 5
           handler == <<"handler">>
           c == CHOOSE g : Wraps(g, D, Middlewares, handler)
<1>1. DOMAIN Middlewares = D
  BY DEF Middlewares
<1>2. Chain = c[D]
  BY <1>1, ChainIsItsFold, Zenon
<1>3. IsFiniteSet(D)
  <2>1. 1 \in Int /\ 5 \in Int
    OBVIOUS
  <2> QED BY <2>1, FS_Interval
<1>4. ASSUME NEW T \in SUBSET D, T # {} PROVE Max(T) \in T /\ \A i \in T : i <= Max(T)
  <2>1. IsFiniteSet(T) /\ T \subseteq Int
    <3>1. T \subseteq Int
      OBVIOUS
    <3> HIDE DEF D
    <3>2. IsFiniteSet(T)
      BY <1>3, FS_Subset
    <3> QED BY <3>1, <3>2
  <2> HIDE DEF D
  <2>2. Max(T) \in T /\ \A y \in T : y <= Max(T)
    BY <1>4, <2>1, MaxIsGreatest
  <2> QED BY <2>2
<1>5. \A i \in D : Middlewares[i] \in Layers
  <2> SUFFICES ASSUME NEW i \in D PROVE Middlewares[i] \in Layers
    OBVIOUS
  <2>1. i = 1 \/ i = 2 \/ i = 3 \/ i = 4 \/ i = 5
    OBVIOUS
  <2> QED BY <2>1 DEF Middlewares, Layers
<1>6. Middlewares \in [D -> Layers]
  BY <1>1, <1>5 DEF Middlewares
<1>7. handler \in Seq(Layers)
  BY DEF Layers
<1>8. Wraps(c, D, Middlewares, handler)
  <2> HIDE DEF D, handler
  <2>1. \E g : Wraps(g, D, Middlewares, handler)
    BY <1>3, <1>4, <1>6, <1>7, ChainIsDefined
  <2> QED BY <2>1
<1>9. ASSUME NEW n \in 1 .. 5 PROVE c[1 .. n] = <<Middlewares[n]>> \o c[1 .. (n - 1)]
  <2>1. 1 .. n \in SUBSET D /\ n \in 1 .. n /\ 1 .. n # {}
    OBVIOUS
  <2>2. Max(1 .. n) = n
    BY <1>4, <2>1
  <2>3. (1 .. n) \ {n} = 1 .. (n - 1)
    OBVIOUS
  <2> HIDE DEF D, handler, c
  <2> QED BY <1>8, <2>1, <2>2, <2>3 DEF Wraps
<1>10. c[1 .. 0] = handler
  <2>1. 1 .. 0 = {} /\ {} \in SUBSET D
    OBVIOUS
  <2> HIDE DEF c, D, handler
  <2> QED BY <1>8, <2>1 DEF Wraps
<1> HIDE DEF c
<1> DEFINE Holds(n, len) == c[1 .. n] \in Seq(Layers) /\ Len(c[1 .. n]) = len
<1>11. ASSUME NEW n \in 1 .. 5, NEW len \in Nat, Holds(n - 1, len)
       PROVE  /\ Holds(n, len + 1) /\ c[1 .. n][1] = Middlewares[n]
              /\ \A i \in 1 .. len : c[1 .. n][i + 1] = c[1 .. (n - 1)][i]
  <2>1. Middlewares[n] \in Layers
    BY <1>5
  <2> DEFINE s == c[1 .. (n - 1)]
             m == Middlewares[n]
             t == <<m>> \o s
  <2>2. s \in Seq(Layers) /\ Len(s) = len /\ m \in Layers
    BY <1>11, <2>1
  <2>3. c[1 .. n] = t
    BY <1>9
  <2> HIDE DEF s, m
  <2>4. /\ t \in Seq(Layers) /\ Len(t) = len + 1 /\ t[1] = m
        /\ \A i \in 1 .. len : t[i + 1] = s[i]
    BY <2>2, LayerFacts
  <2> HIDE DEF t
  <2> QED BY <2>3, <2>4, Zenon DEF m, s
<1>12. Holds(0, 1) /\ c[1 .. 0][1] = "handler"
  BY <1>7, <1>10
<1> HIDE DEF Holds, D, handler
<1>13. /\ Holds(1, 2) /\ c[1 .. 1][1] = "recover" /\ c[1 .. 1][2] = "handler"
  <2>1. Holds(1 - 1, 1) /\ c[1 .. (1 - 1)] = c[1 .. 0]
    BY <1>12
  <2> QED BY <1>11, <1>12, <2>1 DEF Middlewares
<1>14. /\ Holds(2, 3) /\ c[1 .. 2][1] = "requestID" /\ c[1 .. 2][2] = "recover"
       /\ c[1 .. 2][3] = "handler"
  <2>1. Holds(2 - 1, 2) /\ c[1 .. (2 - 1)] = c[1 .. 1]
    BY <1>13
  <2> QED BY <1>11, <1>13, <2>1 DEF Middlewares
<1>15. /\ Holds(3, 4) /\ c[1 .. 3][1] = "accessLog" /\ c[1 .. 3][2] = "requestID"
       /\ c[1 .. 3][3] = "recover" /\ c[1 .. 3][4] = "handler"
  <2>1. Holds(3 - 1, 3) /\ c[1 .. (3 - 1)] = c[1 .. 2]
    BY <1>14
  <2> QED BY <1>11, <1>14, <2>1 DEF Middlewares
<1>16. /\ Holds(4, 5) /\ c[1 .. 4][1] = "bodyLimit" /\ c[1 .. 4][2] = "accessLog"
       /\ c[1 .. 4][3] = "requestID" /\ c[1 .. 4][4] = "recover" /\ c[1 .. 4][5] = "handler"
  <2>1. Holds(4 - 1, 4) /\ c[1 .. (4 - 1)] = c[1 .. 3]
    BY <1>15
  <2> QED BY <1>11, <1>15, <2>1 DEF Middlewares
<1>17. /\ Holds(5, 6) /\ c[1 .. 5][1] = "validation" /\ c[1 .. 5][2] = "bodyLimit"
       /\ c[1 .. 5][3] = "accessLog" /\ c[1 .. 5][4] = "requestID"
       /\ c[1 .. 5][5] = "recover" /\ c[1 .. 5][6] = "handler"
  <2>1. Holds(5 - 1, 5) /\ c[1 .. (5 - 1)] = c[1 .. 4]
    BY <1>16
  <2> QED BY <1>11, <1>16, <2>1 DEF Middlewares
<1> QED
  BY <1>2, <1>17 DEF D, Holds

LEMMA LayersOut ==
    /\ Has("accessLog") /\ Has("recover")
    /\ Outside("accessLog", "recover")
<1>1. DOMAIN Chain = 1 .. 6
  BY ChainIsInsideOut
<1>2. \A i \in 1 .. 6 : i = 1 \/ i = 2 \/ i = 3 \/ i = 4 \/ i = 5 \/ i = 6
  OBVIOUS
<1>3. Position("accessLog") = 3
  <2>1. \A i \in 1 .. 6 : Chain[i] = "accessLog" <=> i = 3
    BY <1>2, ChainIsInsideOut
  <2> QED BY <1>1, <2>1 DEF Position
<1>4. Position("recover") = 5
  <2>1. \A i \in 1 .. 6 : Chain[i] = "recover" <=> i = 5
    BY <1>2, ChainIsInsideOut
  <2> QED BY <1>1, <2>1 DEF Position
<1>5. Has("accessLog") /\ Has("recover")
  BY <1>1, ChainIsInsideOut DEF Has
<1> QED
  BY <1>3, <1>4, <1>5 DEF Outside

-----------------------------------------------------------------------------
(* What HTTP answers *)

(* A request in the server is one a client may send, one inside the        *)
(* handler passed the validation, and one that is done after that has the  *)
(* answer and the lines in the log of its outcome. *)
Handled(x) ==
    \E r \in HttpRequests :
        /\ ReachesHandler(r)
        /\ x.status = StatusOut(r, x.outcome)
        /\ x.logged = LogLines(r, x.outcome = "panic")

Replied(h) ==
    \/ http[h].pc = "idle"
    \/ /\ http[h].pc \in HttpInServer /\ http[h].req \in HttpRequests
       /\ http[h] = [pc |-> http[h].pc, req |-> http[h].req]
       /\ http[h].pc = "inside" => ReachesHandler(http[h].req)
    \/ /\ http[h].pc = "done"
       /\ http[h].outcome \notin {"unbound", "invalid"} => Handled(http[h])

Replies == Requests /\ \A h \in Https : Replied(h)

LEMMA CompletedFacts ==
    ASSUME NEW r, NEW status, NEW o, NEW lines
    PROVE  /\ Completed(r, status, o, lines).pc = "done"
           /\ Completed(r, status, o, lines).outcome = o
           /\ Completed(r, status, o, lines).status = status
           /\ Completed(r, status, o, lines).logged = lines
  BY DEF Completed

LEMMA RepliesChange ==
    ASSUME Replies, NEW h \in Https, NEW x, http' = [http EXCEPT ![h] = x],
           \/ /\ x.pc \in HttpInServer /\ x.req \in HttpRequests
              /\ x = [pc |-> x.pc, req |-> x.req]
              /\ x.pc = "inside" => ReachesHandler(x.req)
           \/ /\ x.pc = "done"
              /\ x.outcome \notin {"unbound", "invalid"} => Handled(x)
    PROVE  Replies'
<1>1. \A g \in Https : http'[g] = IF g = h THEN x ELSE http[g]
  BY DEF Replies, Requests
<1>2. Requests'
  BY DEF Replies, Requests
<1> QED
  BY <1>1, <1>2 DEF Replies, Replied

LEMMA RepliesStep ==
    ASSUME Replies, [Next]_vars PROVE Replies'
<1>1. ASSUME NEW h \in Https, HttpCall(h) \/ Http(h) PROVE Replies'
  <2>1. CASE HttpCall(h)
    <3>1. PICK r \in HttpRequests : http' = [http EXCEPT ![h] = [pc |-> "accepted", req |-> r]]
      BY <2>1 DEF HttpCall
    <3> DEFINE x == [pc |-> "accepted", req |-> r]
    <3>2. http' = [http EXCEPT ![h] = x] /\ x.pc \in HttpInServer /\ x.req \in HttpRequests
          /\ x = [pc |-> x.pc, req |-> x.req] /\ x.pc # "inside"
      BY <3>1 DEF HttpInServer
    <3> HIDE DEF x
    <3> QED
      BY <3>2, RepliesChange
  <2>2. ASSUME Http(h) PROVE http[h].req \in HttpRequests /\ http[h].pc \in HttpInServer
    BY <2>2 DEF Http, RouterError, ValidationError, Dispatch, Handle, Replies, Replied,
       HttpInServer
  <2>3. CASE RouterError(h) \/ ValidationError(h)
    <3>0. PICK o \in {"unbound", "invalid"} : \E status, lines :
            http' = [http EXCEPT ![h] = Completed(Request(h), status, o, lines)]
      <4>1. CASE RouterError(h)
        <5>1. http' = [http EXCEPT ![h] = Completed(Request(h), 400, "unbound", 0)]
          BY <4>1 DEF RouterError
        <5> QED
          BY <5>1, Zenon
      <4>2. CASE ValidationError(h)
        <5>1. http' = [http EXCEPT ![h] = Completed(Request(h), 400, "invalid",
                                                     LogLines(Request(h), FALSE))]
          BY <4>2 DEF ValidationError
        <5> QED
          BY <5>1, Zenon
      <4> QED
        BY <2>3, <4>1, <4>2
    <3>1. PICK status, lines :
            http' = [http EXCEPT ![h] = Completed(Request(h), status, o, lines)]
      BY <3>0
    <3> DEFINE x == Completed(Request(h), status, o, lines)
    <3>3. x.pc = "done" /\ x.outcome = o
      BY CompletedFacts
    <3> HIDE DEF x
    <3>4. http' = [http EXCEPT ![h] = x]
      BY <3>1 DEF x
    <3> QED
      BY <3>3, <3>4, RepliesChange
  <2>4. CASE Dispatch(h)
    <3> DEFINE x == [http[h] EXCEPT !.pc = "inside"]
    <3>1. http' = [http EXCEPT ![h] = x] /\ http[h].pc = "accepted"
      BY <2>4 DEF Dispatch
    <3>2. http[h].req \in HttpRequests /\ http[h].pc \in HttpInServer
      BY <2>2, <2>4 DEF Http
    <3>3. http[h] = [pc |-> "accepted", req |-> http[h].req]
      BY <1>1, <2>4, <3>1 DEF Replies, Replied
    <3>4. /\ x.pc \in HttpInServer /\ x.req \in HttpRequests
          /\ x = [pc |-> x.pc, req |-> x.req]
      BY <3>2, <3>3 DEF HttpInServer
    <3>5. ReachesHandler(x.req)
      BY <2>4 DEF Dispatch, Request
    <3> HIDE DEF x
    <3> QED
      BY <3>1, <3>4, <3>5, RepliesChange
  <2>5. CASE Handle(h)
    <3> DEFINE r == Request(h)
    <3>1. PICK o :
            http' = [http EXCEPT ![h] =
                       Completed(r, StatusOut(r, o), o, LogLines(r, o = "panic"))]
      BY <2>5 DEF Handle
    <3>2. r \in HttpRequests /\ ReachesHandler(r)
      BY <2>2, <2>5 DEF Http, Handle, Request, Replies, Replied, HttpInServer
    <3> DEFINE x == Completed(r, StatusOut(r, o), o, LogLines(r, o = "panic"))
    <3> HIDE DEF r
    <3>3. /\ x.pc = "done" /\ x.outcome = o /\ x.status = StatusOut(r, o)
          /\ x.logged = LogLines(r, o = "panic")
      BY CompletedFacts
    <3>4. http' = [http EXCEPT ![h] = x]
      BY <3>1
    <3> HIDE DEF x
    <3>5. Handled(x)
      BY <3>2, <3>3 DEF Handled
    <3> QED
      BY <3>3, <3>4, <3>5, RepliesChange
  <2> QED
    BY <1>1, <2>1, <2>3, <2>4, <2>5 DEF Http
<1>2. ASSUME NEW how, ProcessEnds(how) PROVE Replies'
  BY <1>2 DEF ProcessEnds, Replies, Requests, Replied, NoHttp
<1>3. CASE http' = http
  BY <1>3 DEF Replies, Requests, Replied
<1> QED
  BY <1>1, <1>2, <1>3 DEF vars, Next, Main, Tick, Start, ListenHTTP, ListenFails,
     CancelAfterFailure, StartGRPC,
     StartGRPCFails, Signal, GracefulStop, ShutdownCall, ShutdownReturns,
     ShutdownTimesOut, Kill, RpcClient, RpcHandler, RpcOpen, RpcAbandon,
     RpcCall, Undecodable, RefuseTokenCall,
     LookUp, GetTokens, TakeTokens, ReturnTokens, AskService, RpcReply

LEMMA RepliesHold == Spec => []Replies
<1>1. Init => Replies
  BY DEF Init, Replies, Requests, Replied, NoHttp
<1>2. Replies /\ [Next]_vars => Replies'
  BY RepliesStep
<1> QED
  BY <1>1, <1>2, PTL DEF Spec

(* The two error maps, which are written apart from each other, blame the  *)
(* same side for every answer to a request (README.md:430-434). *)
THEOREM TransportsDoAgree == Spec => []TransportsAgree
<1>1. Replies => TransportsAgree
  <2> SUFFICES ASSUME NEW r \in HttpRequests, NEW o \in Outcomes
               PROVE  StatusOut(r, o) >= 500 <=> GrpcStatus(o) = "Internal"
    <3>1. \A o \in Outcomes : o \notin {"unbound", "invalid"}
      BY DEF Outcomes, Codes
    <3> SUFFICES ASSUME Replies, NEW h \in Https, http[h].pc = "done",
                        http[h].outcome \in Outcomes
                 PROVE  http[h].status >= 500 <=> GrpcStatus(http[h].outcome) = "Internal"
      BY DEF TransportsAgree
    <3>2. Handled(http[h])
      BY <3>1 DEF Replies, Replied, HttpInServer
    <3>3. PICK r \in HttpRequests : http[h].status = StatusOut(r, http[h].outcome)
      BY <3>2 DEF Handled
    <3> QED
      BY <3>3
  <2>1. o # "panic" /\ r.op \in {"list", "create", "get", "update", "delete"}
    BY ServerAssumption DEF Outcomes, Codes, HttpRequest, Operations, Params
  <2>2. CASE o = "ok"
    BY <2>1, <2>2 DEF StatusOut, Success, GrpcStatus
  <2>3. CASE o # "ok"
    BY <2>1, <2>3 DEF StatusOut, HttpStatus, HttpStatusOf, GrpcStatus, GrpcStatusOf, Outcomes, Codes
  <2> QED
    BY <2>2, <2>3
<1> QED
  BY <1>1, RepliesHold, PTL

(* Every request that reached its handler has one line in the log, and a   *)
(* panic is answered with a 500: the access log is outside of withRecover, *)
(* though it stands after it in the list of the middlewares. *)
THEOREM EachIsLogged == Spec => []HandledIsLogged
<1>1. Replies => HandledIsLogged
  <2>1. ASSUME NEW r, NEW o, ReachesHandler(r)
        PROVE  /\ LogLines(r, o = "panic") = 1
               /\ o = "panic" => StatusOut(r, o) = 500
    BY <2>1, LayersOut DEF LogLines, Enters, StatusOut
  <2> SUFFICES ASSUME Replies, NEW h \in Https, http[h].pc = "done",
                      http[h].outcome \notin {"unbound", "invalid"}
               PROVE  http[h].logged = 1 /\ (http[h].outcome = "panic" => http[h].status = 500)
    BY DEF HandledIsLogged
  <2>2. Handled(http[h])
    BY DEF Replies, Replied, HttpInServer
  <2> QED
    BY <2>1, <2>2 DEF Handled
<1> QED
  BY <1>1, RepliesHold, PTL
=============================================================================
