------------------------------- MODULE Gateway -------------------------------
(***************************************************************************)
(* The two listeners of main: the S3 one, where a request of a client passes *)
(* the SigV4 middleware before Transfer serves it, and the admin one.         *)
(* Between client and server a request takes its time, may arrive more than   *)
(* once, and may be rewritten on its way.                                    *)
(***************************************************************************)
EXTENDS Transfer, SigV4, AdminAccess

CONSTANTS Configs,    \* bound: the configurations main starts with
          Requests,   \* bound: the requests clients make, not yet signed
          Altered,    \* bound: what each of them may be turned into on its way
          AdminCalls, \* bound: the requests that reach the admin listener
          MaxClock,   \* bound: how far the server's clock runs
          NoMsg,      \* no request is under way
          Spent       \* the signed request was served

ASSUME ClockAssumption == MaxClock \in Nat

(* The paths main registers beside the S3 handler; the middleware exempts     *)
(* them a second time.                                                       *)
Exempt == {"livez", "readyz", "metrics"}

(* A configuration, a request that carries a given signature, a call of the    *)
(* admin listener: what SigV4 and AdminAccess say of their fields.            *)
Config ==
  [auth: {"none", "sigv4"}, oidc: {"off", "on", "failed"},
   unauth: SUBSET {"health", "version"}, parts: SUBSET {"scrubber", "queue", "worker"}]

Header == [value: Int \cup {Absent}, pad: BOOLEAN, more: BOOLEAN]

RequestWith(sig) ==
  [mode: {"none", "header", "query"}, key: [id: Int, scope: Int],
   date: Int \cup {Absent}, expires: Int \cup {Absent}, signed: SUBSET (1..3),
   sig: {sig}, method: {"GET", "HEAD", "PUT"}, query: Seq(Int \X Int),
   path: Exempt \cup {"object", "other"},
   headers: [1..3 -> Header], hash: Int \cup {Absent, Unsigned, Short},
   body: 0..MaxBody, sized: BOOLEAN]

AdminCall ==
  [method: STRING, path: STRING, good: BOOLEAN,
   token: [valid: BOOLEAN, roles: SUBSET STRING, scopes: SUBSET STRING]]

(* Clients sign the first two headers; the third is one that a proxy adds. *)
ASSUME CallsAssumption ==
  /\ Configs \subseteq Config /\ Requests \subseteq RequestWith(Absent)
  /\ \A r \in Requests: 3 \notin r.signed
  /\ Altered \in [Requests -> SUBSET RequestWith(Absent)]
  /\ AdminCalls \subseteq AdminCall
ASSUME SignatureAssumption ==
  \A r \in Requests, k \in DOMAIN Secret: Signature(r, Secret[k]) # Absent

(* The request under way: as its client signed it, with which secret, as it   *)
(* is now, what the server's clock says and the verdict of the middleware.    *)
(* Bound: one signed request in a behaviour, of which any number arrive.      *)
VARIABLES conf, clock, msg, admin

vars == <<stored, put, get, conf, clock, msg, admin>>

Init ==
  /\ TransferInit
  /\ conf \in Configs
  /\ clock = 0 /\ msg = NoMsg /\ admin = <<>>

Quiet == put = NoPut /\ get = NoGet /\ admin = <<>>

---------------------------------------------------------------------------
(* A client makes a request; with authentication on, it signs it as the       *)
(* repository's tests do, with the server's own canonical form.              *)
Send ==
  /\ msg = NoMsg /\ Quiet
  /\ \E r \in Requests, secret \in {Secret[k]: k \in DOMAIN Secret}:
       /\ conf.auth = "none" => r.mode = "none"
       /\ LET signed == IF r.mode = "none" THEN r
                        ELSE [r EXCEPT !.sig = Signature(r, secret)]
          IN  msg' = [sent |-> signed, got |-> signed, secret |-> secret,
                      verdict |-> "none"]
  /\ UNCHANGED <<transferVars, conf, clock, admin>>

(* What may become of a request on its way: proxies reorder the query, pad    *)
(* and add headers, and anything else may be wrong with it, but that nobody   *)
(* on the way can sign.                                                      *)
Harmless(r) ==
  {[r EXCEPT !.query = Reverse(r.query)],
   [r EXCEPT !.headers[1].pad = TRUE],
   [r EXCEPT !.headers[3].value = 1]}

Changed(r) ==
  {[a EXCEPT !.sig = s]: a \in Altered[[r EXCEPT !.sig = Absent]], s \in {r.sig, Absent}}

InFlight == msg \notin {NoMsg, Spent} /\ msg.verdict = "none"

Rewrite ==
  /\ InFlight /\ msg.got = msg.sent
  /\ \E r \in Harmless(msg.sent) \cup Changed(msg.sent): msg' = [msg EXCEPT !.got = r]
  /\ UNCHANGED <<transferVars, conf, clock, admin>>

(* The clock matters to the verification of a request only. *)
Tick ==
  /\ InFlight /\ conf.auth = "sigv4" /\ clock < MaxClock
  /\ clock' = clock + 1
  /\ UNCHANGED <<transferVars, conf, msg, admin>>

(* The request arrives.  The SigV4 middleware, when it is configured. *)
Arrive ==
  /\ InFlight
  /\ msg' = [msg EXCEPT !.verdict =
              IF conf.auth = "none" \/ msg.got.path \in Exempt THEN "ok"
              ELSE VerifyRequest(msg.got, clock)]
  /\ UNCHANGED <<transferVars, conf, clock, admin>>

(* It is refused with 403, and may arrive again. *)
Deny ==
  /\ msg \notin {NoMsg, Spent} /\ msg.verdict \notin {"none", "ok"}
  /\ msg' = [msg EXCEPT !.verdict = "none"]
  /\ UNCHANGED <<transferVars, conf, clock, admin>>

(* The handler behind the middleware; other paths are other objects.  The     *)
(* body of a PUT and its Content-Length are those of the request.            *)
Serve ==
  /\ msg \notin {NoMsg, Spent} /\ msg.verdict = "ok"
  /\ msg' = IF msg.sent.mode = "none" THEN NoMsg ELSE Spent
  /\ CASE msg.got.path # "object" -> UNCHANGED transferVars
       [] msg.got.path = "object" /\ msg.got.method = "GET" -> Get
       [] OTHER -> PutBegin(msg.got.body, msg.got.sized)
  /\ UNCHANGED <<conf, clock, admin>>

Transferring ==
  /\ PutRead \/ PutFails \/ PutReturn \/ GetReturn
  /\ UNCHANGED <<conf, clock, msg, admin>>

---------------------------------------------------------------------------
(* One request to the admin listener, which keeps no state of its own.  A     *)
(* handler that serves a POST calls its operation: GCBegin of Multipart,       *)
(* AdminEnqueue of SealedObject, or the admin requests, Pause and Resume of   *)
(* RepairPipeline.                                                           *)
AdminServe ==
  /\ Quiet /\ msg \in {NoMsg, Spent}
  /\ \E r \in AdminCalls, queue \in {"takes", "closed", "gave up"}:
       LET answer == AdminAnswer(conf, r, queue)
       IN  admin' = <<[request |-> r, queue |-> queue, answer |-> answer,
                       ran |-> answer = "served" /\ r.path \in Changers]>>
  /\ UNCHANGED <<transferVars, conf, clock, msg>>

AdminReturn ==
  /\ admin # <<>>
  /\ admin' = <<>>
  /\ UNCHANGED <<transferVars, conf, clock, msg>>

Next ==
  \/ Send \/ Rewrite \/ Tick \/ Arrive \/ Deny \/ Serve \/ Transferring
  \/ AdminServe \/ AdminReturn

Spec == Init /\ [][Next]_vars

---------------------------------------------------------------------------
(* Properties *)

Times(x, s) == Cardinality({i \in DOMAIN s: s[i] = x})

(* Two requests that say the same, in whatever order and with whatever         *)
(* padding and unsigned headers.  A hash that names a body names the same      *)
(* one in both; the body itself only counts where the server hashes it, and of *)
(* a header only the first line.  A header that is signed and not there stays   *)
(* away as long as its name is in the list.                                  *)
SaysTheSame(a, b) ==
  /\ <<a.mode, a.key.scope, a.date, a.method, a.path, a.sig>> =
     <<b.mode, b.key.scope, b.date, b.method, b.path, b.sig>>
  /\ a.mode = "query" =>
       <<a.key, a.expires, a.signed, a.hash>> = <<b.key, b.expires, b.signed, b.hash>>
  /\ \A i \in DOMAIN a.query: Times(a.query[i], a.query) = Times(a.query[i], b.query)
  /\ Len(a.query) = Len(b.query)
  /\ \A h \in a.signed:
       \/ a.headers[h].value = b.headers[h].value
       \/ a.headers[h].value = Absent /\ h \notin b.signed
  /\ {a.hash, b.hash} \subseteq Int => a.hash = b.hash
  /\ (a.mode = "header" /\ {a.hash, b.hash} = {Short}) => a.body = b.body

(* The server accepts a request only if the holder of the access key's secret   *)
(* signed what it says, and it arrives in its window: a quarter of an hour      *)
(* around its date, or until that much after its lifetime.  Such a request is   *)
(* accepted, and a delay, a proxy that reorders the query, pads headers or adds *)
(* its own, and values of one name in any order do not keep it out.  Of a body  *)
(* under a hash that is given, of an unhashed body whose length is not declared *)
(* (which verify.go:98 says is refused) and of further lines of a signed header *)
(* nothing is promised: the code accepts them whatever they are.              *)
AuthExact ==
  (/\ conf.auth = "sigv4" /\ msg \notin {NoMsg, Spent} /\ msg.verdict # "none"
   /\ msg.got.path \notin Exempt) =>
     LET r == msg.got
         lifetime == IF r.mode = "query" /\ r.expires \in Nat THEN r.expires ELSE 0
         timely == r.date # Absent /\ r.date - Skew <= clock
                     /\ clock <= r.date + lifetime + Skew
     IN  /\ msg.verdict = "ok" =>
              /\ r.mode # "none" /\ timely
              /\ Secret[r.key.id] = msg.secret
              /\ SaysTheSame(msg.sent, r)
         /\ (/\ r.mode # "none" /\ r \in {msg.sent} \cup Harmless(msg.sent)
             /\ r.key.id \in DOMAIN Secret /\ Secret[r.key.id] = msg.secret
             /\ timely /\ lifetime <= MaxTTL
             /\ r.mode = "query" => r.expires # Absent
             /\ \E h \in r.signed: r.headers[h].value # Absent
             /\ r.hash = Absent =>
                  \/ r.mode = "query" \/ r.method \in {"GET", "HEAD"}
                  \/ ~r.sized /\ r.body = 0)
            => msg.verdict = "ok"

(* README.md:342-360: which role each operation needs. *)
Role == [gc |-> "admin.gc", runonce |-> "admin.scrub",
         enqueue |-> "admin.repair.enqueue",
         pause |-> "admin.repair.control", resume |-> "admin.repair.control"]

(* An admin request calls an operation only as a POST to it, when its           *)
(* component runs and, where tokens are checked, its token is valid and holds   *)
(* the role of that operation: the table of the policy, which asks nothing of   *)
(* what it does not list, and the method checks of the handlers leave no gap    *)
(* between them.  Every such request does call it, but for an enqueue of what   *)
(* is no item or of an item the queue does not take.                          *)
EffectNeedsRole ==
  admin # <<>> =>
    LET r == admin[1].request
        allowed == /\ r.method = "POST" /\ r.path \in DOMAIN Role
                   /\ Needs(r.path) \subseteq conf.parts
                   /\ conf.oidc = "on" =>
                        r.token.valid /\ Role[r.path] \in r.token.roles \cup r.token.scopes
    IN  /\ admin[1].ran => allowed
        /\ allowed => \/ admin[1].ran
                      \/ r.path = "enqueue" /\ (~r.good \/ admin[1].queue # "takes")
        /\ admin[1].ran /\ r.path = "enqueue" => r.good /\ admin[1].queue = "takes"
=============================================================================
