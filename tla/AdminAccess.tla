----------------------------- MODULE AdminAccess -----------------------------
(***************************************************************************)
(* Who may do what on the admin listener: its routes, the checks of their     *)
(* handlers, oidc.Middleware and oidc.RBAC with the default policy, composed  *)
(* as main composes them.                                                    *)
(***************************************************************************)
EXTENDS FiniteSets

(* A configuration:                                                          *)
(*   oidc    "off" | "on" | "failed": asked for, but the provider was not     *)
(*           reached at start, which main logs and carries on                *)
(*   unauth  the paths of {"health", "version"} that need no token            *)
(*   parts   the components of {"scrubber", "queue", "worker"} that run       *)
(* A request:                                                                *)
(*   method, path; good: is its body an item of JSON that names a shard, or    *)
(*   bucket and key; token: NoToken, or whether the provider vouches for it    *)
(*   (external), and the roles and scopes it claims                          *)
(* What Enqueue says of an item that is offered:                             *)
(*   "takes" | "closed" | "gave up": the client left, or the deadline passed,   *)
(*   before there was room                                                   *)

NoToken == [valid |-> FALSE, roles |-> {}, scopes |-> {}]

(* Who serves a path, which method it takes and which component it needs:    *)
(* the handlers of health and version take any method.                       *)
Readers == {"health", "version", "scrubstats", "repairstats", "workerstats"}
Changers == {"gc", "runonce", "enqueue", "pause", "resume"}

Needs(path) ==
  CASE path = "runonce" -> {"scrubber"}
    [] path \in {"enqueue", "repairstats"} -> {"queue"}
    [] path \in {"pause", "resume", "workerstats"} -> {"worker"}
    [] OTHER -> {}

(* Variant: handlers that leave the method to their caller *)
TakesAny(path, method) == path \in Changers \/ method = "GET"

Takes(path, method) ==
  CASE path \in {"health", "version"} -> TRUE
    [] path \in Changers -> method = "POST"
    [] OTHER -> method = "GET"

(* NewRepairEnqueueHandler, past its first checks: nothing is queued unless   *)
(* the item is well formed and Enqueue takes it.                             *)
EnqueueAnswer(r, queue) ==
  CASE ~r.good -> "bad request"
    [] r.good /\ queue = "closed" -> "conflict"
    [] r.good /\ queue = "gave up" -> "unavailable"
    [] OTHER -> "served"

(* A handler refuses the method first, then a component that does not run.    *)
(* "served": its operation is called, whether or not it then reports an error. *)
Handler(conf, r, queue) ==
  CASE r.path \notin Readers \cup Changers -> "not found"
    [] r.path \in Readers \cup Changers /\ ~Takes(r.path, r.method) -> "not allowed"
    [] OTHER -> IF ~(Needs(r.path) \subseteq conf.parts) THEN "unavailable"
                ELSE IF r.path = "enqueue" THEN EnqueueAnswer(r, queue) ELSE "served"

---------------------------------------------------------------------------
(* Every route begins with "/admin/", and so do paths that no handler serves. *)
UnderAdmin(path) == path \in Readers \cup Changers \cup {"unlisted"}

(* The roles one of which a request needs; none for what is not listed.       *)
DefaultAdminPolicy(r) ==
  CASE r.method = "GET" /\ r.path \in {"repairstats", "workerstats"} -> {"admin.repair.read"}
    [] /\ r.method = "GET" /\ UnderAdmin(r.path)
       /\ r.path \notin {"repairstats", "workerstats"} -> {"admin.read"}
    [] r.method = "POST" /\ r.path = "gc" -> {"admin.gc"}
    [] r.method = "POST" /\ r.path = "runonce" -> {"admin.scrub"}
    [] r.method = "POST" /\ r.path = "enqueue" -> {"admin.repair.enqueue"}
    [] r.method = "POST" /\ r.path \in {"pause", "resume"} -> {"admin.repair.control"}
    [] OTHER -> {}

(* The roles of the token (claims roles and realm_access) and its scopes      *)
(* (claims scope and scp) count alike.                                       *)
Subject(token) == token.roles \cup token.scopes

hasAny(subject, required) == subject \cap required # {}

(* A request that is exempted comes to RBAC without a subject.               *)
RBAC(conf, r, queue, subject) ==
  LET required == DefaultAdminPolicy(r)
  IN  IF required = {} \/ hasAny(subject, required)
        THEN Handler(conf, r, queue) ELSE "forbidden"

Middleware(conf, r, queue) ==
  CASE r.path \in conf.unauth -> RBAC(conf, r, queue, {})
    [] r.path \notin conf.unauth /\ ~r.token.valid -> "unauthorized"
    [] OTHER -> RBAC(conf, r, queue, Subject(r.token))

AdminAnswer(conf, r, queue) ==
  IF conf.oidc = "on" THEN Middleware(conf, r, queue) ELSE Handler(conf, r, queue)
=============================================================================
