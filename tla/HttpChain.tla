----------------------------- MODULE HttpChain -----------------------------
(***************************************************************************)
(* The way of an HTTP request through cmd/api: the generated wrapper of    *)
(* its operation (server.gen.go), which binds the parameters and wraps the *)
(* handler in the middlewares, and the middlewares of cmd/api.             *)
(***************************************************************************)
EXTENDS ErrorMaps, Sequences, SequencesExt

(* HandlerWithOptions: the operations, and what their wrappers bind. *)
Params == [list |-> {"limit", "offset"}, create |-> {}, get |-> {"id"},
           update |-> {"id"}, delete |-> {"id"}]
Operations == DOMAIN Params

(* A request: its operation, the parameters that do not bind, whether it   *)
(* is as the OpenAPI document has it, and whether its body decodes. *)
HttpRequest == [op : Operations, bad : SUBSET {"limit", "offset", "id"},
                valid : BOOLEAN, decodes : BOOLEAN]

Binds(r) == r.bad \cap Params[r.op] = {}

(* The option Middlewares of cmd/api/main.go, in the order it is written. *)
Middlewares == <<"recover", "requestID", "accessLog", "bodyLimit", "validation">>

(* A mistake: the list is read outermost first. *)
ChainFromTheRight == Middlewares \o <<"handler">>

(* The loop of each wrapper: handler = middleware(handler), from the first *)
(* of the list to the last.  Outermost first, the result is this. *)
Chain == FoldLeft(LAMBDA handler, middleware : <<middleware>> \o handler,
                  <<"handler">>, Middlewares)

Position(layer) == CHOOSE i \in DOMAIN Chain : Chain[i] = layer
Has(layer) == layer \in {Chain[i] : i \in DOMAIN Chain}
Outside(a, b) == Has(a) /\ Position(a) < Position(b)

(* withValidation answers a request that is not valid and calls nobody. *)
ReachesHandler(r) == r.valid

(* The layers a request enters: up to the one that answers it. *)
Enters(r, layer) ==
    /\ Has(layer)
    /\ ReachesHandler(r) \/ Position(layer) <= Position("validation")

(* What leaves the handler, a panic or an answer, on its way out.  The     *)
(* access log writes its line unless a panic passes it; withRecover stops  *)
(* a panic, and nothing else does but the connection. *)
LogLines(r, panics) ==
    IF Enters(r, "accessLog") /\ ~(panics /\ ~Outside("accessLog", "recover"))
    THEN 1 ELSE 0

Success == [list |-> 200, create |-> 201, get |-> 200, update |-> 200, delete |-> 204]

StatusOut(r, outcome) ==
    IF outcome = "ok" THEN Success[r.op]
    ELSE IF outcome # "panic" THEN HttpStatus(outcome)
    ELSE IF Has("recover") THEN 500 ELSE 0
=============================================================================
