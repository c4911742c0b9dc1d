-------------------------------- MODULE SigV4 --------------------------------
(***************************************************************************)
(* sigv4.VerifyRequest as a function of the request, the credentials and    *)
(* the clock.  Hashes and MACs are injective, so a signature is the record  *)
(* of what it was computed from; names and values are small numbers, in the *)
(* order in which their strings sort.  Query parameters are taken to have   *)
(* names that differ in more than case.                                     *)
(***************************************************************************)
EXTENDS Integers, Sequences, FiniteSets, SequencesExt

CONSTANTS Secret,   \* the credentials: access key -> secret
          Skew,     \* maxClockSkew
          MaxTTL,   \* maxPresignTTL
          Absent,   \* a header or parameter that is not there
          Unsigned, \* the payload hash UNSIGNED-PAYLOAD
          Short     \* a payload hash of no hash's length

ASSUME WindowAssumption == Skew \in Nat /\ MaxTTL \in Nat \ {0}
ASSUME AbsentAssumption ==
  /\ {Absent, Unsigned, Short} \cap Int = {}
  /\ Absent # Unsigned /\ Absent # Short /\ Unsigned # Short

(* A request, as far as the verification reads it:                          *)
(*   mode     "none" | "header" (Authorization) | "query" (presigned)       *)
(*   key      access key and scope of its credential                        *)
(*   date     X-Amz-Date; a date that does not parse is Absent              *)
(*   expires  X-Amz-Expires of a presigned request                          *)
(*   signed   names of the signed headers                                   *)
(*   sig      the signature                                                 *)
(*   method, path; query, a sequence of <<name, value>>                     *)
(*   headers  the value of the first line of each name, is it padded, and do   *)
(*            more lines of that name follow                                *)
(*   hash     X-Amz-Content-Sha256; body, a number that is its own hash too   *)
(*   sized    is there a Content-Length header                              *)

(* Variant: the names are sorted, the values of one name are not *)
canonicalQueryByName(query) ==
  LET upTo(j) == {k \in DOMAIN query:
                    query[k][1] < query[j][1] \/ (query[k][1] = query[j][1] /\ k <= j)}
  IN  [i \in DOMAIN query |-> query[CHOOSE j \in DOMAIN query: Cardinality(upTo(j)) = i]]

Precedes(a, b) == a[1] < b[1] \/ (a[1] = b[1] /\ a[2] < b[2])

(* How many parameters are less than x, or not greater *)
Below(query, x) == Cardinality({j \in DOMAIN query: Precedes(query[j], x)})
UpTo(query, x) == Cardinality({j \in DOMAIN query: ~Precedes(x, query[j])})

(* Sorted by name, the values of one name by value: at place i stands the    *)
(* parameter with that rank.  What a presigned URL says of itself is in its  *)
(* query, all but the signature.                                            *)
canonicalQueryString(query) ==
  [i \in DOMAIN query |->
     CHOOSE x \in Range(query): Below(query, x) < i /\ i <= UpTo(query, x)]

AuthParams(r) == IF r.mode = "query" THEN <<r.key, r.date, r.expires, r.signed, r.hash>>
                 ELSE <<>>

(* The signed headers that are there, with their values trimmed; the order   *)
(* and the case of the list do not matter.  Header.Get reads the first line   *)
(* of a name: more lines of it are not part of what is signed.               *)
canonicalHeaders(r) ==
  {<<h, r.headers[h].value>>: h \in {n \in r.signed: r.headers[n].value # Absent}}

(* A presigned URL names the hash in its query.  A header-signed request      *)
(* names it in a header; without one, reads are unsigned and other requests  *)
(* must not declare a length; they are then taken to have no body, which is   *)
(* not looked at.  A value that is neither UNSIGNED-PAYLOAD nor of a hash's    *)
(* length is replaced by the hash of the body; any other is taken as it is,    *)
(* and the body is not compared with it.                                    *)
payloadHash(r) ==
  CASE r.mode = "query" -> IF r.hash = Absent THEN Unsigned ELSE r.hash
    [] r.mode # "query" /\ r.hash = Absent ->
         IF r.method \in {"GET", "HEAD"} THEN Unsigned
         ELSE IF r.sized THEN Absent ELSE 0
    [] r.mode # "query" /\ r.hash = Short -> r.body
    [] OTHER -> r.hash

canonicalRequest(r) ==
  [method |-> r.method, path |-> r.path,
   query |-> canonicalQueryString(r.query), auth |-> AuthParams(r),
   headers |-> canonicalHeaders(r), hash |-> payloadHash(r)]

Signature(r, secret) ==
  [secret |-> secret, date |-> r.date, scope |-> r.key.scope,
   request |-> canonicalRequest(r)]

(* A presigned URL without a positive lifetime is treated like a header.     *)
validateTimestamp(date, expires, now) ==
  /\ expires <= MaxTTL
  /\ now >= date - Skew
  /\ now <= date + (IF expires <= 0 THEN 0 ELSE expires) + Skew

VerifyRequest(r, now) ==
  LET lifetime == IF r.mode = "query" THEN r.expires ELSE 0
  IN  CASE r.mode = "none" -> "missing"
        [] \/ r.mode # "none" /\ r.key.id \notin DOMAIN Secret
           \/ r.date = Absent \/ lifetime = Absent
           \/ r.mode = "header" /\ r.sig = Absent -> "invalid"
        [] OTHER ->
             IF ~validateTimestamp(r.date, lifetime, now) THEN "expired"
             ELSE IF /\ payloadHash(r) # Absent
                     /\ canonicalHeaders(r) # {}
                     /\ r.sig # Absent /\ r.sig = Signature(r, Secret[r.key.id])
                    THEN "ok" ELSE "invalid"
=============================================================================
