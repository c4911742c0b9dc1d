------------------------------ MODULE Transfer ------------------------------
(***************************************************************************)
(* The bytes of one object on their way in and out: a PUT whose body is read *)
(* through capReader up to the cap on single PUTs, and a GET of a range of   *)
(* what was stored.  The store itself is Put and Get of SealedObject; here   *)
(* an object is only its length.                                            *)
(***************************************************************************)
EXTENDS Integers

CONSTANTS Cap,     \* limits.SinglePutMaxBytes
          MaxBody, \* bound: the longest body a client sends
          Buffer,  \* bound: the most bytes io.Copy asks for at a time
          NoBytes  \* no object is stored

ASSUME CapAssumption == Cap \in Nat \ {0} /\ {MaxBody, Buffer} \subseteq Nat \ {0}
ASSUME NoBytesAssumption == NoBytes \notin Nat

VARIABLES stored, \* the length of the object, or NoBytes
          put,    \* the PUT under way: bytes the client has, bytes read
          get     \* the last GET: the range it asked for and the answer

transferVars == <<stored, put, get>>

(* "bytes=from-to"; Open is a bound that is left out. *)
Open == -1
Bounds == {Open} \cup 0..(MaxBody + 1)
Full == [from |-> Open, to |-> Open]

NoPut == [pc |-> "idle", body |-> 0, n |-> 0, status |-> 0]
NoGet == [range |-> Full, total |-> 0, start |-> 0, end |-> -1, status |-> 0]

TransferInit == stored = NoBytes /\ put = NoPut /\ get = NoGet

---------------------------------------------------------------------------
(* handleObject, PUT: a Content-Length over the cap is refused unread, with     *)
(* EntityTooLarge, whose status is 400.                                      *)
PutBegin(body, declared) ==
  /\ put.pc = "idle"
  /\ put' = IF declared /\ body > Cap
              THEN [pc |-> "done", body |-> body, n |-> 0, status |-> 400]
              ELSE [pc |-> "read", body |-> body, n |-> 0, status |-> 0]
  /\ UNCHANGED <<stored, get>>

Least(x, y) == IF x < y THEN x ELSE y

(* What one Read passes on: up to the room that is left. *)
Passed(size) == Least(Least(size, Cap - put.n), put.body - put.n)

Stop(n, status) == put' = [put EXCEPT !.pc = "done", !.n = n, !.status = status]

(* Variant: the cap ends the body instead of refusing it *)
PutReadTruncates ==
  /\ put.pc = "read"
  /\ \E size \in 1..Buffer:
       LET n == put.n + Passed(size) IN
       IF n = put.body \/ n >= Cap
         THEN Stop(n, 200) /\ stored' = n
         ELSE put' = [put EXCEPT !.n = n] /\ UNCHANGED stored
  /\ UNCHANGED get

(* capReader.Read: the end of the body may be reported with its last bytes *)
(* or by a read of its own, as the connection's reader pleases.            *)
PutRead ==
  /\ put.pc = "read"
  /\ \E size \in 1..Buffer, eof \in BOOLEAN:
       LET n == put.n + Passed(size) IN
       IF put.n < Cap /\ n = put.body /\ (eof \/ n = put.n)
         THEN Stop(n, 200) /\ stored' = n
         ELSE /\ IF n >= Cap THEN Stop(n, 400) ELSE put' = [put EXCEPT !.n = n]
              /\ UNCHANGED stored
  /\ UNCHANGED get

(* The client goes away, or the disk fails: the temp file is dropped. *)
PutFails ==
  /\ put.pc = "read"
  /\ Stop(put.n, 500)
  /\ UNCHANGED <<stored, get>>

PutReturn ==
  /\ put.pc = "done"
  /\ put' = NoPut
  /\ UNCHANGED <<stored, get>>

---------------------------------------------------------------------------
Ranged(start, end) == [start |-> start, end |-> end, ok |-> TRUE]
Refused == [start |-> 0, end |-> -1, ok |-> FALSE]

(* Variant: a suffix may be longer than the object *)
parseRangeUnclipped(r, total) ==
  CASE r.from = Open /\ r.to > 0 -> Ranged(total - r.to, total - 1)
    [] r.from # Open /\ r.from < total /\ r.to = Open -> Ranged(r.from, total - 1)
    [] r.from # Open /\ r.from <= r.to /\ r.to < total -> Ranged(r.from, r.to)
    [] OTHER -> Refused

(* "-n" is the last n bytes, "n-" all from n on, "n-m" both ends included.     *)
(* One range, well formed: of a list only the first is read, and what does not *)
(* parse is refused; neither is modelled.                                    *)
parseRange(r, total) ==
  CASE r.from = Open /\ r.to > 0 -> Ranged(total - Least(r.to, total), total - 1)
    [] r.from # Open /\ r.from < total /\ r.to = Open -> Ranged(r.from, total - 1)
    [] r.from # Open /\ r.from <= r.to /\ r.to < total -> Ranged(r.from, r.to)
    [] OTHER -> Refused

(* handleObject, GET *)
Get ==
  /\ get = NoGet
  /\ \E r \in [from: Bounds, to: Bounds]:
       LET total == IF stored = NoBytes THEN 0 ELSE stored
           part == parseRange(r, total)
           Reply(start, end, status) ==
             get' = [range |-> r, total |-> total, start |-> start, end |-> end,
                     status |-> status]
       IN IF stored = NoBytes THEN Reply(0, -1, 404)
          ELSE IF r = Full THEN Reply(0, total - 1, 200)
          ELSE IF part.ok THEN Reply(part.start, part.end, 206)
          ELSE Reply(0, -1, 416)
  /\ UNCHANGED <<stored, put>>

GetReturn ==
  /\ get # NoGet
  /\ get' = NoGet
  /\ UNCHANGED <<stored, put>>

---------------------------------------------------------------------------
(* Properties *)

(* However the reads are cut, a body that is accepted is stored whole, the cap *)
(* never shortens an object, and a body shorter than the cap is not refused     *)
(* for its size.  A body of exactly the cap may be: the reader gives it up when *)
(* its end comes with a read of its own.                                      *)
CapExact ==
  /\ put.status = 200 => put.n = put.body /\ put.body <= Cap
  /\ put.status = 400 => put.body >= Cap

(* What "bytes=from-to" means, byte by byte: is byte i asked for. *)
Asked(r, total) ==
  {i \in 0..(total - 1):
     IF r.from = Open THEN i >= total - r.to
     ELSE i >= r.from /\ (r.to = Open \/ i <= r.to)}

(* The bytes of an answer are the bytes asked for, also when the object is   *)
(* shorter than the suffix; and of the ranges that name a byte of the object   *)
(* only "n-m" with an end past the object may be refused.                     *)
RangeServed ==
  /\ get.status = 206 => get.start..get.end = Asked(get.range, get.total)
  /\ get.status = 416 =>
       \/ Asked(get.range, get.total) = {}
       \/ get.range.from # Open /\ get.range.to >= get.total

============================================================================
