------------------------------ MODULE MCGateway ------------------------------
(* Instances of Gateway for TLC. *)
EXTENDS Gateway

CONSTANTS absent, nobytes, nomsg, spent, unsigned, short

MCSecret == [k \in {1, 2} |-> 10 + k]

MCConfigs ==
  [auth: {"none"}, oidc: {"off", "on", "failed"}, unauth: {{}, {"health"}, {"health", "version"}},
   parts: {{}, {"queue"}, {"scrubber", "queue", "worker"}}]
    \cup {[auth |-> "sigv4", oidc |-> "off", unauth |-> {}, parts |-> {}]}

(* Which headers are signed, which of them are there, and the query: one of    *)
(* a name with two values; one that signs a header that is not there.          *)
Shapes == {[signed |-> {1}, there |-> {1}, query |-> <<>>],
           [signed |-> {1, 2}, there |-> {1, 2}, query |-> <<<<1, 2>>, <<1, 1>>>>],
           [signed |-> {2}, there |-> {1}, query |-> <<<<2, 1>>, <<1, 2>>>>]}

(* The body, its declared size and the hash that is given for it. *)
Payloads == {[method |-> "PUT", body |-> b, sized |-> s, hash |-> h]:
               b \in 0..MaxBody, s \in BOOLEAN, h \in {Unsigned}}
  \cup {[method |-> "PUT", body |-> 2, sized |-> s, hash |-> h]:
          s \in BOOLEAN, h \in {2, Short, Absent}}
  \cup {[method |-> "GET", body |-> 0, sized |-> FALSE, hash |-> Absent]}

Made(mode, key, date, expires, shape, payload) ==
  [mode |-> mode, key |-> [id |-> key, scope |-> 1], date |-> date,
   expires |-> expires, signed |-> shape.signed, sig |-> Absent,
   method |-> payload.method, path |-> "object", query |-> shape.query,
   headers |-> [h \in 1..3 |-> [value |-> IF h \in shape.there THEN 1 ELSE Absent,
                                pad |-> FALSE, more |-> FALSE]],
   hash |-> payload.hash, body |-> payload.body, sized |-> payload.sized]

Plain == CHOOSE s \in Shapes: s.query = <<>>

MCRequests ==
  {Made("none", 1, Absent, Absent, Plain, p): p \in Payloads}
    \cup {Made("header", k, d, Absent, s, p):
            k \in {1, 3}, d \in {2, Absent}, s \in Shapes, p \in Payloads}
    \cup {Made("query", k, 2, e, s, p):
            k \in {1, 3}, e \in {Absent, -1, MaxTTL, MaxTTL + 1}, s \in Shapes, p \in Payloads}

(* One thing changed, two at once where one may hide the other, and nothing    *)
(* but the signature lost.                                                   *)
MCAltered ==
  [r \in MCRequests |->
     IF r.mode = "none" THEN {}
     ELSE {r,
           [r EXCEPT !.query = Append(r.query, <<2, 1>>)],
           [r EXCEPT !.query = Append(r.query, <<1, 1>>)],
           [r EXCEPT !.headers[2].value = 2], [r EXCEPT !.headers[2].value = Absent],
           [r EXCEPT !.headers[1].more = TRUE],
           [r EXCEPT !.signed = {1}], [r EXCEPT !.signed = r.signed \cup {3}],
           [r EXCEPT !.path = "other"], [r EXCEPT !.path = "livez"],
           [r EXCEPT !.method = IF r.method = "GET" THEN "PUT" ELSE "GET"],
           [r EXCEPT !.mode = IF r.mode = "query" THEN "header" ELSE "query", !.expires = 1],
           [r EXCEPT !.key.id = 2], [r EXCEPT !.key.scope = 2],
           [r EXCEPT !.date = 3], [r EXCEPT !.expires = MaxTTL],
           [r EXCEPT !.hash = 1], [r EXCEPT !.hash = Short],
           [r EXCEPT !.body = 1], [r EXCEPT !.sized = ~r.sized]}]

Roles == {"admin.read", "admin.gc", "admin.scrub", "admin.repair.read",
          "admin.repair.enqueue", "admin.repair.control"}

MCAdminCalls ==
  [method: {"GET", "POST", "PUT"}, good: BOOLEAN,
   path: Readers \cup Changers \cup {"unlisted", "elsewhere"},
   token: {NoToken} \cup [valid: BOOLEAN, roles: {{r}: r \in Roles}, scopes: {{}}]
            \cup [valid: {TRUE}, roles: {{}}, scopes: {{r}: r \in Roles} \cup {{}}]]
=============================================================================
