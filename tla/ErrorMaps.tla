----------------------------- MODULE ErrorMaps -----------------------------
(***************************************************************************)
(* How a call of the user service can end, and what each transport makes   *)
(* of it: the error codes of src/internal/model/errors.go, and statusFor   *)
(* of the HTTP and of the gRPC server.                                     *)
(***************************************************************************)
EXTENDS Integers

Codes == {"duplicate_user", "invalid_user", "invalid_email", "invalid_password",
          "invalid_credential", "user_not_found", "storage_error"}

(* "context" stands for an error without a code: the context had ended     *)
(* before the repository was asked. *)
Outcomes == {"ok", "context"} \cup Codes

(* What the service may answer to each operation, for some request. *)
ServiceOutcomes ==
    [list   |-> {"ok", "context"},
     get    |-> {"ok", "invalid_user", "user_not_found", "context"},
     create |-> {"ok", "invalid_user", "invalid_email", "invalid_password",
                 "duplicate_user", "storage_error", "context"},
     update |-> {"ok", "invalid_user", "user_not_found", "invalid_email",
                 "duplicate_user", "storage_error", "context"},
     delete |-> {"ok", "invalid_user", "user_not_found", "storage_error", "context"}]

HttpStatusOf ==
    [duplicate_user |-> 409, invalid_user |-> 400, invalid_email |-> 400,
     invalid_password |-> 400, user_not_found |-> 404, invalid_credential |-> 401,
     storage_error |-> 500]

(* A mistake: what has no code is blamed on the client. *)
HttpStatusByCode(o) == IF o \in DOMAIN HttpStatusOf THEN HttpStatusOf[o] ELSE 400

HttpStatus(o) == IF o \in DOMAIN HttpStatusOf THEN HttpStatusOf[o] ELSE 500

GrpcStatusOf ==
    [user_not_found |-> "NotFound", duplicate_user |-> "AlreadyExists",
     invalid_user |-> "InvalidArgument", invalid_email |-> "InvalidArgument",
     invalid_password |-> "InvalidArgument", invalid_credential |-> "Unauthenticated",
     storage_error |-> "Internal"]

GrpcStatus(o) ==
    IF o = "ok" THEN "OK"
    ELSE IF o \in DOMAIN GrpcStatusOf THEN GrpcStatusOf[o] ELSE "Internal"
=============================================================================
