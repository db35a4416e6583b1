----------------------------- MODULE MCVersions -----------------------------
(* Two versions, a reading and a writing route, one request at a time.     *)
(* Three middlewares are given to the writing route: one that requires a   *)
(* user, one that requires more and is of a type the router does not take, *)
(* and one that is about something else.                                   *)
EXTENDS Versions, TLC

CONSTANTS user, owner, limit

MCAuthOf == user :> "auth" @@ owner :> "superuser_or_owner" @@ limit :> None
MCInHandler == "List" :> "user_auth" @@ "Create" :> None
MCCreate == "Create" :> None
=============================================================================
