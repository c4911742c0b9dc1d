---------------------------- MODULE GatewayProofs ----------------------------
(***************************************************************************)
(* What holds of the two listeners for every cap, body, range, credential,   *)
(* configuration and request.                                               *)
(***************************************************************************)
EXTENDS Gateway, FiniteSetTheorems, TLAPS

---------------------------------------------------------------------------
(* The request under way *)

UnderWay == msg \notin {NoMsg, Spent}

Made(m) ==
  /\ m.sent \in RequestWith(m.sent.sig) /\ m.got \in RequestWith(m.got.sig)
  /\ [m.sent EXCEPT !.sig = Absent] \in Requests /\ 3 \notin m.sent.signed
  /\ m.got.sig \in {m.sent.sig, Absent}
  /\ m.sent.mode = "none" => m.sent.sig = Absent
  /\ m.sent.mode # "none" =>
       m.sent.sig # Absent /\ m.sent.sig = Signature(m.sent, m.secret)

(* A message is a record of four parts: whatever else holds of its parts, an   *)
(* update of one of them leaves the others alone.                            *)
Message(m) ==
  m = [sent |-> m.sent, got |-> m.got, secret |-> m.secret, verdict |-> m.verdict]

MsgInv ==
  /\ conf \in Config /\ clock \in Nat
  /\ UnderWay => Message(msg) /\ Made(msg)

(* A signature says nothing of itself. *)
LEMMA SigningKeeps ==
  ASSUME NEW r \in RequestWith(Absent), NEW secret, NEW s, s = [r EXCEPT !.sig = Signature(r, secret)]
  PROVE  /\ s \in RequestWith(s.sig) /\ s.mode = r.mode /\ s.signed = r.signed
         /\ s.sig = Signature(s, secret) /\ s.sig = Signature(r, secret)
<1> DEFINE sig == Signature(r, secret)
<1>1. s = [r EXCEPT !.sig = sig]
  OBVIOUS
<1>2. /\ s.mode = r.mode /\ s.key = r.key /\ s.date = r.date /\ s.expires = r.expires
      /\ s.signed = r.signed /\ s.method = r.method /\ s.path = r.path /\ s.query = r.query
      /\ s.headers = r.headers /\ s.hash = r.hash /\ s.body = r.body /\ s.sized = r.sized
      /\ s.sig = sig /\ s \in RequestWith(sig)
  <2> HIDE DEF sig
  <2> QED BY <1>1 DEF RequestWith
<1>3. AuthParams(s) = AuthParams(r)
  BY <1>2 DEF AuthParams
<1>4. canonicalHeaders(s) = canonicalHeaders(r)
  BY <1>2 DEF canonicalHeaders
<1>5. payloadHash(s) = payloadHash(r)
  BY <1>2 DEF payloadHash
<1>6. canonicalRequest(s) = canonicalRequest(r)
  BY <1>2, <1>3, <1>4, <1>5 DEF canonicalRequest
<1>7. Signature(s, secret) = Signature(r, secret)
  BY <1>2, <1>6 DEF Signature
<1> QED BY <1>2, <1>7

(* Sequences reversed, headers with one part changed: what they were. *)
LEMMA ReverseSeq ==
  ASSUME NEW S, NEW q \in Seq(S)
  PROVE  Reverse(q) \in Seq(S)
<1> DEFINE n == Len(q)
<1>1. n \in Nat /\ \A i \in 1..n: q[i] \in S
  OBVIOUS
<1>2. \A i \in 1..n: n - i + 1 \in 1..n
  BY <1>1
<1>3. [i \in 1..n |-> q[n - i + 1]] \in [1..n -> S]
  BY <1>1, <1>2
<1> HIDE DEF n
<1>4. [i \in 1..n |-> q[n - i + 1]] \in Seq(S)
  BY <1>1, <1>3
<1> QED BY <1>4 DEF Reverse, n

LEMMA HeaderChanged ==
  /\ \A h \in Header: [h EXCEPT !.pad = TRUE] \in Header
  /\ \A h \in Header: [h EXCEPT !.value = 1] \in Header
<1>1. ASSUME NEW h \in Header PROVE [h EXCEPT !.pad = TRUE] \in Header
  BY DEF Header
<1>2. ASSUME NEW h \in Header, NEW v \in Int PROVE [h EXCEPT !.value = v] \in Header
  BY DEF Header
<1>3. 1 \in Int
  OBVIOUS
<1> QED BY <1>1, <1>2, <1>3, Zenon

(* Another signature in the place of the first, and the first put back *)
LEMMA Resigned ==
  ASSUME NEW r \in RequestWith(Absent), NEW sig
  PROVE  /\ [r EXCEPT !.sig = sig] \in RequestWith(sig)
         /\ [r EXCEPT !.sig = sig].sig = sig
         /\ [[r EXCEPT !.sig = sig] EXCEPT !.sig = Absent] = r
BY DEF RequestWith

(* What happens to a request on its way leaves it a request, with the signature *)
(* it had or none.                                                           *)
LEMMA RewritingKeeps ==
  ASSUME NEW s, s \in RequestWith(s.sig), [s EXCEPT !.sig = Absent] \in Requests,
         NEW r \in Harmless(s) \cup Changed(s)
  PROVE  r \in RequestWith(r.sig) /\ r.sig \in {s.sig, Absent}
<1> DEFINE Kept(x) == x \in RequestWith(x.sig) /\ x.sig \in {s.sig, Absent}
<1>f. s.query \in Seq(Int \X Int) /\ s.headers \in [1..3 -> Header]
  BY DEF RequestWith
<1>h. ASSUME NEW i \in 1..3 PROVE s.headers[i] \in Header
  BY <1>f
<1>1. ASSUME NEW q \in Seq(Int \X Int) PROVE Kept([s EXCEPT !.query = q])
  BY DEF RequestWith
<1>2. ASSUME NEW hs \in [1..3 -> Header] PROVE Kept([s EXCEPT !.headers = hs])
  BY DEF RequestWith
<1>3. ASSUME r \in Harmless(s) PROVE Kept(r)
  <2>1. Reverse(s.query) \in Seq(Int \X Int)
    BY <1>f, ReverseSeq
  <2> DEFINE padded == [s.headers[1] EXCEPT !.pad = TRUE]
             added == [s.headers[3] EXCEPT !.value = 1]
  <2>2. padded \in Header /\ added \in Header
    <3>1. s.headers[1] \in Header /\ s.headers[3] \in Header
      BY <1>h
    <3> QED BY <3>1, HeaderChanged, Zenon
  <2>3. r \in {[s EXCEPT !.query = Reverse(s.query)],
               [s EXCEPT !.headers = [s.headers EXCEPT ![1] = padded]],
               [s EXCEPT !.headers = [s.headers EXCEPT ![3] = added]]}
    BY <1>3 DEF Harmless
  <2> HIDE DEF padded, added, Kept
  <2>4. /\ [s.headers EXCEPT ![1] = padded] \in [1..3 -> Header]
        /\ [s.headers EXCEPT ![3] = added] \in [1..3 -> Header]
    BY <1>f, <2>2
  <2> QED BY <1>1, <1>2, <2>1, <2>3, <2>4
<1>4. ASSUME r \in Changed(s) PROVE Kept(r)
  <2>1. PICK a \in Altered[[s EXCEPT !.sig = Absent]]: \E sig \in {s.sig, Absent}: r = [a EXCEPT !.sig = sig]
    BY <1>4 DEF Changed
  <2>2. PICK sig \in {s.sig, Absent}: r = [a EXCEPT !.sig = sig]
    BY <2>1
  <2>3. a \in RequestWith(Absent)
    BY CallsAssumption
  <2> QED BY <2>2, <2>3, Resigned
<1> QED BY <1>3, <1>4

(* The parts of the message after a step that changes one of them. *)
LEMMA MessageChanged ==
  ASSUME NEW m, Message(m), NEW x
  PROVE  /\ Message([m EXCEPT !.got = x])
         /\ [m EXCEPT !.got = x].sent = m.sent /\ [m EXCEPT !.got = x].got = x
         /\ [m EXCEPT !.got = x].secret = m.secret
         /\ [m EXCEPT !.got = x].verdict = m.verdict
         /\ Message([m EXCEPT !.verdict = x])
         /\ [m EXCEPT !.verdict = x].sent = m.sent /\ [m EXCEPT !.verdict = x].got = m.got
         /\ [m EXCEPT !.verdict = x].secret = m.secret
         /\ [m EXCEPT !.verdict = x].verdict = x
<1> DEFINE a == m.sent  b == m.got  c == m.secret  d == m.verdict
<1>1. m = [sent |-> a, got |-> b, secret |-> c, verdict |-> d]
  BY DEF Message
<1> HIDE DEF a, b, c, d
<1>2. /\ [m EXCEPT !.got = x] = [sent |-> a, got |-> x, secret |-> c, verdict |-> d]
      /\ [m EXCEPT !.verdict = x] = [sent |-> a, got |-> b, secret |-> c, verdict |-> x]
  BY <1>1
<1> QED BY <1>1, <1>2 DEF Message, a, b, c, d

LEMMA MsgInitial == Init => MsgInv
BY CallsAssumption DEF Init, MsgInv, UnderWay

LEMMA MsgStep == MsgInv /\ [Next]_vars => MsgInv'
<1> SUFFICES ASSUME MsgInv, [Next]_vars PROVE MsgInv'
  OBVIOUS
<1>1. CASE UNCHANGED <<conf, clock, msg>>
  BY <1>1 DEF MsgInv, UnderWay
<1>2. ASSUME Send PROVE MsgInv'
  <2>1. PICK r \in Requests, secret \in {Secret[k]: k \in DOMAIN Secret}:
          LET signed == IF r.mode = "none" THEN r
                        ELSE [r EXCEPT !.sig = Signature(r, secret)]
          IN  msg' = [sent |-> signed, got |-> signed, secret |-> secret, verdict |-> "none"]
    BY <1>2 DEF Send
  <2>2. r \in RequestWith(Absent) /\ r \in Requests /\ 3 \notin r.signed
    BY CallsAssumption
  <2> DEFINE signed == IF r.mode = "none" THEN r ELSE [r EXCEPT !.sig = Signature(r, secret)]
  <2>a. Signature(r, secret) # Absent
    BY SignatureAssumption
  <2>3. /\ signed \in RequestWith(signed.sig)
        /\ [signed EXCEPT !.sig = Absent] = r /\ signed.signed = r.signed
        /\ signed.mode = "none" => signed.sig = Absent
        /\ signed.mode # "none" =>
             signed.sig # Absent /\ signed.sig = Signature(signed, secret)
    <3>1. r.sig = Absent /\ [r EXCEPT !.sig = Absent] = r
      BY <2>2 DEF RequestWith
    <3>2. CASE r.mode = "none"
      BY <2>2, <3>1, <3>2
    <3>3. CASE r.mode # "none"
      <4> DEFINE sig == Signature(r, secret)
      <4>1. signed = [r EXCEPT !.sig = sig]
        BY <3>3
      <4>2. /\ signed \in RequestWith(signed.sig) /\ signed.mode = r.mode
            /\ signed.signed = r.signed
            /\ signed.sig = Signature(signed, secret) /\ signed.sig = sig
        <5> HIDE DEF signed
        <5> QED BY <2>2, <4>1, SigningKeeps
      <4>3. [signed EXCEPT !.sig = Absent] = r
        <5> HIDE DEF sig, signed
        <5> QED BY <2>2, <4>1, Resigned
      <4> HIDE DEF signed
      <4> QED BY <2>a, <3>3, <4>2, <4>3
    <3> QED BY <3>2, <3>3
  <2>4. msg' = [sent |-> signed, got |-> signed, secret |-> secret, verdict |-> "none"]
    BY <2>1
  <2> HIDE DEF signed
  <2>5. /\ msg'.sent = signed /\ msg'.got = signed /\ msg'.secret = secret
        /\ msg'.verdict = "none"
    BY <2>4
  <2>6. Made(msg') /\ Message(msg')
    BY <2>2, <2>3, <2>4, <2>5 DEF Made, Message
  <2>7. Made(msg)' /\ Message(msg)'
    BY <2>6 DEF Made, Message
  <2> QED BY <1>2, <2>7 DEF MsgInv, Send
<1>3. ASSUME Rewrite PROVE MsgInv'
  <2>1. UnderWay /\ Made(msg) /\ Message(msg) /\ msg.got = msg.sent
    BY <1>3 DEF Rewrite, InFlight, MsgInv, UnderWay
  <2>2. PICK r \in Harmless(msg.sent) \cup Changed(msg.sent): msg' = [msg EXCEPT !.got = r]
    BY <1>3 DEF Rewrite
  <2>3. r \in RequestWith(r.sig) /\ r.sig \in {msg.sent.sig, Absent}
    BY <2>1, <2>2, RewritingKeeps DEF Made
  <2>4. /\ Message(msg') /\ msg'.sent = msg.sent /\ msg'.got = r /\ msg'.secret = msg.secret
    BY <2>1, <2>2, MessageChanged
  <2>5. Made(msg')
    BY <2>1, <2>3, <2>4 DEF Made
  <2>6. Made(msg)' /\ Message(msg)'
    BY <2>4, <2>5 DEF Made, Message
  <2> QED BY <1>3, <2>6 DEF MsgInv, Rewrite
<1>4. ASSUME Tick PROVE MsgInv'
  BY <1>4, ClockAssumption DEF Tick, MsgInv, UnderWay
<1>5. ASSUME Arrive \/ Deny PROVE MsgInv'
  <2>1. UnderWay /\ Made(msg) /\ Message(msg)
    BY <1>5 DEF Arrive, Deny, InFlight, MsgInv, UnderWay
  <2>2. PICK v: msg' = [msg EXCEPT !.verdict = v]
    BY <1>5 DEF Arrive, Deny
  <2>3. /\ Message(msg') /\ msg'.sent = msg.sent /\ msg'.got = msg.got
        /\ msg'.secret = msg.secret
    BY <2>1, <2>2, MessageChanged
  <2>4. Made(msg')
    BY <2>1, <2>3 DEF Made
  <2>5. Made(msg)' /\ Message(msg)'
    BY <2>3, <2>4 DEF Made, Message
  <2> QED BY <1>5, <2>5 DEF MsgInv, Arrive, Deny
<1>6. ASSUME Serve PROVE MsgInv'
  BY <1>6 DEF Serve, MsgInv, UnderWay
<1>7. ASSUME Transferring \/ AdminServe \/ AdminReturn PROVE MsgInv'
  BY <1>1, <1>7 DEF Transferring, AdminServe, AdminReturn
<1>8. CASE UNCHANGED vars
  BY <1>1, <1>8 DEF vars
<1> QED BY <1>2, <1>3, <1>4, <1>5, <1>6, <1>7, <1>8 DEF Next

LEMMA MsgAlways == Spec => []MsgInv
BY MsgInitial, MsgStep, PTL DEF Spec

---------------------------------------------------------------------------
(* Bodies and ranges *)

(* A body is being read only while there is room for one more byte. *)
PutInv ==
  /\ put \in [pc: {"idle", "read", "done"}, body: Nat, n: Nat, status: {0, 200, 400, 500}]
  /\ put.n <= put.body /\ put.n <= Cap
  /\ put.pc # "done" => put.status = 0
  /\ put.pc = "read" => put.n < Cap
  /\ put.status = 200 => put.n = put.body
  /\ put.status = 400 => put.body >= Cap

StoreInv == stored \in Nat \cup {NoBytes}

TransferInv == PutInv /\ StoreInv /\ RangeServed

(* The bytes parseRange names are the bytes that were asked for. *)
LEMMA ParsedIsAsked ==
  ASSUME NEW r \in [from: Bounds, to: Bounds], NEW total \in Nat, r # Full
  PROVE  /\ parseRange(r, total).ok =>
              parseRange(r, total).start..parseRange(r, total).end = Asked(r, total)
         /\ ~parseRange(r, total).ok =>
              Asked(r, total) = {} \/ (r.from # Open /\ r.to >= total)
<1> USE CapAssumption
<1>1. r.from \in Int /\ r.to \in Int /\ r.from >= -1 /\ r.to >= -1
  BY DEF Bounds, Open
<1>2. r.from # Open \/ r.to # Open
  BY DEF Full
<1>3. CASE r.from = Open /\ r.to > 0
  <2>1. parseRange(r, total) = Ranged(total - Least(r.to, total), total - 1)
    BY <1>3 DEF parseRange
  <2>2. Asked(r, total) = (total - Least(r.to, total))..(total - 1)
    BY <1>1, <1>3 DEF Asked, Least
  <2> QED BY <2>1, <2>2 DEF Ranged
<1>4. CASE r.from = Open /\ ~(r.to > 0)
  <2>1. Asked(r, total) = {}
    BY <1>1, <1>2, <1>4 DEF Asked, Open
  <2>2. parseRange(r, total) = Refused
    BY <1>1, <1>4 DEF parseRange
  <2> QED BY <2>1, <2>2 DEF Refused
<1>5. CASE r.from # Open /\ r.from < total /\ r.to = Open
  <2>1. ~(r.from <= r.to) /\ ~(r.to > 0)
    BY <1>1, <1>5 DEF Open
  <2>3. parseRange(r, total) = Ranged(r.from, total - 1)
    BY <1>5, <2>1 DEF parseRange
  <2>2. Asked(r, total) = r.from..(total - 1)
    BY <1>1, <1>5 DEF Asked, Open
  <2> QED BY <2>2, <2>3 DEF Ranged
<1>6. CASE r.from # Open /\ r.from <= r.to /\ r.to < total
  <2>1. r.from >= 0 /\ r.to # Open
    BY <1>1, <1>6 DEF Open
  <2>2. parseRange(r, total) = Ranged(r.from, r.to)
    BY <1>6, <2>1 DEF parseRange
  <2>3. Asked(r, total) = r.from..r.to
    BY <1>1, <1>6, <2>1 DEF Asked, Open
  <2> QED BY <2>2, <2>3 DEF Ranged
<1>7. CASE /\ r.from # Open /\ ~(r.from < total /\ r.to = Open)
           /\ ~(r.from <= r.to /\ r.to < total)
  <2>1. parseRange(r, total) = Refused
    BY <1>7 DEF parseRange
  <2>2. r.from >= 0
    BY <1>1, <1>7 DEF Open
  <2>3. Asked(r, total) = {} \/ (r.from # Open /\ r.to >= total)
    BY <1>1, <1>7, <2>2 DEF Asked, Open
  <2> QED BY <2>1, <2>3 DEF Refused
<1> QED BY <1>3, <1>4, <1>5, <1>6, <1>7

LEMMA GetServes == StoreInv /\ Get => RangeServed'
<1> SUFFICES ASSUME StoreInv, Get PROVE RangeServed'
  OBVIOUS
<1> DEFINE total == IF stored = NoBytes THEN 0 ELSE stored
           Answer(r, start, end, status) ==
             get' = [range |-> r, total |-> total, start |-> start, end |-> end,
                     status |-> status]
<1>1. PICK r \in [from: Bounds, to: Bounds]:
        LET part == parseRange(r, total)
        IN  IF stored = NoBytes THEN Answer(r, 0, -1, 404)
            ELSE IF r = Full THEN Answer(r, 0, total - 1, 200)
            ELSE IF part.ok THEN Answer(r, part.start, part.end, 206)
            ELSE Answer(r, 0, -1, 416)
  BY DEF Get
<1>2. total \in Nat
  BY DEF StoreInv
<1> DEFINE part == parseRange(r, total)
<1>3. \/ get'.status \in {404, 200}
      \/ /\ r # Full /\ part.ok
         /\ get' = [range |-> r, total |-> total, start |-> part.start,
                    end |-> part.end, status |-> 206]
      \/ /\ r # Full /\ ~part.ok
         /\ get' = [range |-> r, total |-> total, start |-> 0, end |-> -1, status |-> 416]
  BY <1>1
<1> HIDE DEF total
<1>4. CASE get'.status \in {404, 200}
  BY <1>4 DEF RangeServed
<1>5. CASE /\ r # Full /\ part.ok
           /\ get' = [range |-> r, total |-> total, start |-> part.start,
                      end |-> part.end, status |-> 206]
  <2>1. part.start..part.end = Asked(r, total)
    BY <1>2, <1>5, ParsedIsAsked
  <2>2. /\ get'.status = 206 /\ get'.start = part.start /\ get'.end = part.end
        /\ get'.range = r /\ get'.total = total
    BY <1>5
  <2>3. Asked(get.range, get.total)' = Asked(r, total)
    BY <2>2 DEF Asked
  <2> HIDE DEF part
  <2> QED BY <2>1, <2>2, <2>3 DEF RangeServed
<1>6. CASE /\ r # Full /\ ~part.ok
           /\ get' = [range |-> r, total |-> total, start |-> 0, end |-> -1, status |-> 416]
  <2>1. Asked(r, total) = {} \/ (r.from # Open /\ r.to >= total)
    BY <1>2, <1>6, ParsedIsAsked
  <2>2. get'.status = 416 /\ get'.range = r /\ get'.total = total
    BY <1>6
  <2>3. Asked(get.range, get.total)' = Asked(r, total)
    BY <2>2 DEF Asked
  <2> QED BY <2>1, <2>2, <2>3 DEF RangeServed
<1> QED BY <1>3, <1>4, <1>5, <1>6

LEMMA TransferInitial == Init => TransferInv
BY CapAssumption DEF Init, TransferInit, TransferInv, PutInv, StoreInv, RangeServed, NoPut, NoGet

(* A body that is served has a length. *)
LEMMA BodyOfMessage == MsgInv /\ UnderWay => msg.got.body \in Nat
<1> SUFFICES ASSUME MsgInv, UnderWay PROVE msg.got.body \in Nat
  OBVIOUS
<1>1. msg.got \in RequestWith(msg.got.sig)
  BY DEF MsgInv, Made
<1>2. msg.got.body \in 0..MaxBody
  BY <1>1 DEF RequestWith
<1> QED BY <1>2, CapAssumption

LEMMA PutBeginStep ==
  ASSUME TransferInv, NEW body \in Nat, NEW declared, PutBegin(body, declared)
  PROVE  TransferInv'
<1> USE CapAssumption
<1>1. RangeServed' /\ StoreInv'
  <2>1. UNCHANGED <<stored, get>>
    BY DEF PutBegin
  <2> QED BY <2>1 DEF TransferInv, RangeServed, StoreInv, Asked
<1>2. \/ body > Cap /\ put' = [pc |-> "done", body |-> body, n |-> 0, status |-> 400]
      \/ put' = [pc |-> "read", body |-> body, n |-> 0, status |-> 0]
  BY DEF PutBegin
<1>3. PutInv'
  BY <1>2 DEF PutInv
<1> QED BY <1>1, <1>3 DEF TransferInv

(* After a read n bytes have come, and n reaches the cap or the end or neither. *)
LEMMA StopPut ==
  ASSUME PutInv, NEW n, NEW status, Stop(n, status)
  PROVE  put' = [pc |-> "done", body |-> put.body, n |-> n, status |-> status]
BY DEF PutInv, Stop

LEMMA PutReadStep ==
  ASSUME TransferInv, PutRead
  PROVE  TransferInv'
<1> USE CapAssumption
<1>1. PutInv /\ put.pc = "read" /\ put.n < Cap /\ UNCHANGED get
  BY DEF TransferInv, PutInv, PutRead
<1>2. RangeServed'
  BY <1>1 DEF TransferInv, RangeServed, Asked
<1>3. PICK size \in 1..Buffer, eof \in BOOLEAN:
        LET n == put.n + Passed(size) IN
        IF put.n < Cap /\ n = put.body /\ (eof \/ n = put.n)
          THEN Stop(n, 200) /\ stored' = n
          ELSE /\ IF n >= Cap THEN Stop(n, 400) ELSE put' = [put EXCEPT !.n = n]
               /\ UNCHANGED stored
  BY DEF PutRead
<1> DEFINE n == put.n + Passed(size)
<1>4. n \in Nat /\ put.n <= n /\ n <= Cap /\ n <= put.body /\ put.body \in Nat
  BY <1>1 DEF Passed, Least, PutInv
<1>5. \/ Stop(n, 200) /\ stored' = n /\ n = put.body
      \/ n >= Cap /\ Stop(n, 400) /\ UNCHANGED stored
      \/ n < Cap /\ put' = [put EXCEPT !.n = n] /\ UNCHANGED stored
  BY <1>3, <1>4
<1> HIDE DEF n
<1>6. CASE Stop(n, 200) /\ stored' = n /\ n = put.body
  <2>1. put' = [pc |-> "done", body |-> put.body, n |-> n, status |-> 200]
    BY <1>1, <1>6, StopPut
  <2>2. PutInv' /\ StoreInv'
    BY <1>4, <1>6, <2>1 DEF PutInv, StoreInv
  <2> QED BY <1>2, <2>2 DEF TransferInv
<1>7. CASE n >= Cap /\ Stop(n, 400) /\ UNCHANGED stored
  <2>1. put' = [pc |-> "done", body |-> put.body, n |-> n, status |-> 400]
    BY <1>1, <1>7, StopPut
  <2>2. PutInv' /\ StoreInv'
    BY <1>4, <1>7, <2>1 DEF PutInv, StoreInv, TransferInv
  <2> QED BY <1>2, <2>2 DEF TransferInv
<1>8. CASE n < Cap /\ put' = [put EXCEPT !.n = n] /\ UNCHANGED stored
  <2>1. put' = [pc |-> "read", body |-> put.body, n |-> n, status |-> put.status]
    BY <1>1, <1>8 DEF PutInv
  <2>2. PutInv' /\ StoreInv'
    BY <1>1, <1>4, <1>8, <2>1 DEF PutInv, StoreInv, TransferInv
  <2> QED BY <1>2, <2>2 DEF TransferInv
<1> QED BY <1>5, <1>6, <1>7, <1>8

LEMMA TransferStep == MsgInv /\ TransferInv /\ [Next]_vars => TransferInv'
<1> SUFFICES ASSUME MsgInv, TransferInv, [Next]_vars PROVE TransferInv'
  OBVIOUS
<1> USE CapAssumption
<1>1. CASE UNCHANGED transferVars
  BY <1>1 DEF transferVars, TransferInv, PutInv, StoreInv, RangeServed, Asked
<1>2. ASSUME Serve PROVE TransferInv'
  <2>1. UnderWay
    BY <1>2 DEF Serve, UnderWay
  <2>2. CASE UNCHANGED transferVars
    BY <1>1, <2>2
  <2>3. CASE Get
    <3>1. RangeServed'
      BY <2>3, GetServes DEF TransferInv
    <3>2. PutInv' /\ StoreInv'
      BY <2>3 DEF Get, TransferInv, PutInv, StoreInv
    <3> QED BY <3>1, <3>2 DEF TransferInv
  <2>4. CASE PutBegin(msg.got.body, msg.got.sized)
    BY <2>1, <2>4, BodyOfMessage, PutBeginStep
  <2>5. UNCHANGED transferVars \/ Get \/ PutBegin(msg.got.body, msg.got.sized)
    BY <1>2 DEF Serve
  <2> QED BY <2>2, <2>3, <2>4, <2>5
<1>3. ASSUME PutRead PROVE TransferInv'
  BY <1>3, PutReadStep
<1>4. ASSUME PutFails PROVE TransferInv'
  <2>1. put' = [pc |-> "done", body |-> put.body, n |-> put.n, status |-> 500]
    BY <1>4, StopPut DEF PutFails, TransferInv
  <2>2. PutInv'
    BY <2>1 DEF TransferInv, PutInv
  <2> QED BY <1>4, <2>2 DEF PutFails, TransferInv, StoreInv, RangeServed, Asked
<1>5. ASSUME PutReturn PROVE TransferInv'
  <2>1. PutInv'
    BY <1>5 DEF PutReturn, PutInv, NoPut
  <2> QED BY <1>5, <2>1 DEF PutReturn, TransferInv, StoreInv, RangeServed, Asked
<1>6. ASSUME GetReturn PROVE TransferInv'
  <2>1. RangeServed'
    BY <1>6 DEF GetReturn, RangeServed, NoGet
  <2> QED BY <1>6, <2>1 DEF GetReturn, TransferInv, StoreInv, PutInv
<1>7. ASSUME Send \/ Rewrite \/ Tick \/ Arrive \/ Deny \/ AdminServe \/ AdminReturn
      PROVE  TransferInv'
  BY <1>1, <1>7 DEF Send, Rewrite, Tick, Arrive, Deny, AdminServe, AdminReturn
<1>8. CASE UNCHANGED vars
  BY <1>1, <1>8 DEF vars, transferVars
<1> QED BY <1>2, <1>3, <1>4, <1>5, <1>6, <1>7, <1>8 DEF Next, Transferring

LEMMA TransferAlways == Spec => []TransferInv
<1>1. Init => TransferInv
  BY TransferInitial
<1>2. MsgInv /\ TransferInv /\ [Next]_vars => TransferInv'
  BY TransferStep
<1> QED BY <1>1, <1>2, MsgAlways, PTL DEF Spec

(* handleObject and capReader (server.go:65-88, 208-255): however the reads    *)
(* are cut and whether or not the length is declared, a body that is accepted  *)
(* is stored whole and fits the cap, and a body is refused for its size only    *)
(* when it is as long as the cap or longer.                                  *)
THEOREM CapIsExact == Spec => []CapExact
<1>1. TransferInv => CapExact
  BY CapAssumption DEF TransferInv, PutInv, CapExact
<1> QED BY <1>1, TransferAlways, PTL

(* parseRange and the GET of handleObject: the answer to a well-formed range    *)
(* holds exactly the bytes it names, for every length of the object, and is     *)
(* refused only when it names none or ends past the object: "n-m" with m past  *)
(* the end is, while a suffix longer than the object is clipped to it.        *)
THEOREM RangesServed == Spec => []RangeServed
<1>1. TransferInv => RangeServed
  BY DEF TransferInv
<1> QED BY <1>1, TransferAlways, PTL

---------------------------------------------------------------------------
(* The canonical query *)

Pair == Int \X Int

LEMMA PairOrder ==
  ASSUME NEW a \in Pair, NEW b \in Pair
  PROVE  /\ ~Precedes(a, a)
         /\ Precedes(a, b) => ~Precedes(b, a)
         /\ a # b => Precedes(a, b) \/ Precedes(b, a)
         /\ \A c \in Pair: Precedes(a, b) /\ Precedes(b, c) => Precedes(a, c)
BY DEF Pair, Precedes

(* A nonempty set has an element with the least value of f. *)
LEMMA LeastValue ==
  ASSUME NEW S, S # {}, NEW f \in [S -> Nat]
  PROVE  \E s \in S: \A t \in S: f[s] <= f[t]
<1> DEFINE N == {f[s]: s \in S}
<1>1. N \in SUBSET Nat /\ N # {}
  OBVIOUS
<1>2. PICK n \in N: \A m \in N: ~(<<m, n>> \in OpToRel(<, Nat))
  <2> HIDE DEF N
  <2> QED BY <1>1, NatLessThanWellFounded, WFMin
<1>3. PICK s \in S: f[s] = n
  BY <1>2
<1>4. \A t \in S: ~(f[t] < f[s])
  BY <1>2, <1>3 DEF OpToRel
<1>5. ASSUME NEW t \in S PROVE f[s] <= f[t]
  <2>1. f[s] \in Nat /\ f[t] \in Nat /\ ~(f[t] < f[s])
    BY <1>4
  <2> QED BY <2>1
<1> QED BY <1>5

(* The places of the parameters less than x, and of those not greater *)
PlacesBelow(q, x) == {j \in DOMAIN q: Precedes(q[j], x)}
PlacesUpTo(q, x) == {j \in DOMAIN q: ~Precedes(x, q[j])}

LEMMA PlacesCounted ==
  ASSUME NEW q \in Seq(Pair), NEW x
  PROVE  /\ IsFiniteSet(PlacesBelow(q, x)) /\ IsFiniteSet(PlacesUpTo(q, x))
         /\ Below(q, x) = Cardinality(PlacesBelow(q, x)) /\ Below(q, x) \in Nat
         /\ UpTo(q, x) = Cardinality(PlacesUpTo(q, x)) /\ UpTo(q, x) \in Nat
         /\ UpTo(q, x) <= Len(q)
<1>1. /\ DOMAIN q = 1..Len(q) /\ Len(q) \in Nat
      /\ IsFiniteSet(1..Len(q)) /\ Cardinality(1..Len(q)) = Len(q)
  <2>1. DOMAIN q = 1..Len(q) /\ Len(q) \in Nat
    OBVIOUS
  <2>2. 1 \in Int /\ Len(q) \in Int
    BY <2>1
  <2>3. /\ IsFiniteSet(1..Len(q))
        /\ Cardinality(1..Len(q)) = IF 1 > Len(q) THEN 0 ELSE Len(q) - 1 + 1
    BY <2>2, FS_Interval, Zenon
  <2> QED BY <2>1, <2>3
<1>2. PlacesBelow(q, x) \in SUBSET (1..Len(q)) /\ PlacesUpTo(q, x) \in SUBSET (1..Len(q))
  BY <1>1 DEF PlacesBelow, PlacesUpTo
<1>3. /\ IsFiniteSet(PlacesBelow(q, x)) /\ IsFiniteSet(PlacesUpTo(q, x))
      /\ Cardinality(PlacesUpTo(q, x)) <= Cardinality(1..Len(q))
  BY <1>1, <1>2, FS_Subset, Zenon
<1>4. Cardinality(PlacesBelow(q, x)) \in Nat /\ Cardinality(PlacesUpTo(q, x)) \in Nat
  BY <1>3, FS_CardinalityType
<1>5. /\ Below(q, x) = Cardinality(PlacesBelow(q, x))
      /\ UpTo(q, x) = Cardinality(PlacesUpTo(q, x))
  BY DEF Below, UpTo, PlacesBelow, PlacesUpTo
<1> QED BY <1>1, <1>3, <1>4, <1>5

(* A smaller parameter is up to where a greater one is below. *)
LEMMA PlacesGrow ==
  ASSUME NEW q \in Seq(Pair), NEW x \in Pair, NEW y \in Pair, Precedes(x, y)
  PROVE  /\ UpTo(q, x) <= Below(q, y)
         /\ y \in Range(q) => UpTo(q, x) < UpTo(q, y)
<1>0. \A j \in DOMAIN q: q[j] \in Pair
  OBVIOUS
<1>1. PlacesUpTo(q, x) \in SUBSET PlacesBelow(q, y)
  <2>1. ASSUME NEW j \in DOMAIN q, ~Precedes(x, q[j]) PROVE Precedes(q[j], y)
    <3>1. q[j] = x \/ Precedes(q[j], x)
      BY <1>0, <2>1, PairOrder
    <3> QED BY <1>0, <3>1, PairOrder
  <2> QED BY <2>1 DEF PlacesUpTo, PlacesBelow
<1>2. UpTo(q, x) <= Below(q, y)
  <2>1. Cardinality(PlacesUpTo(q, x)) <= Cardinality(PlacesBelow(q, y))
    BY <1>1, PlacesCounted, FS_Subset, Zenon
  <2> QED BY <2>1, PlacesCounted
<1>3. ASSUME y \in Range(q) PROVE UpTo(q, x) < UpTo(q, y)
  <2>1. PICK j \in DOMAIN q: q[j] = y
    BY <1>3 DEF Range
  <2>2. PlacesUpTo(q, x) \in SUBSET PlacesUpTo(q, y)
    <3>1. ASSUME NEW i \in PlacesBelow(q, y) PROVE i \in PlacesUpTo(q, y)
      BY <1>0, PairOrder DEF PlacesBelow, PlacesUpTo
    <3> QED BY <1>1, <3>1
  <2>3. j \in PlacesUpTo(q, y) /\ j \notin PlacesUpTo(q, x)
    BY <2>1, PairOrder DEF PlacesUpTo
  <2>4. /\ Cardinality(PlacesUpTo(q, x)) <= Cardinality(PlacesUpTo(q, y))
        /\ Cardinality(PlacesUpTo(q, x)) # Cardinality(PlacesUpTo(q, y))
    <3>1. IsFiniteSet(PlacesUpTo(q, y)) /\ PlacesUpTo(q, x) # PlacesUpTo(q, y)
      BY <2>3, PlacesCounted
    <3> QED BY <2>2, <3>1, FS_Subset, Zenon
  <2> QED BY <2>4, PlacesCounted
<1> QED BY <1>2, <1>3

(* The parameter x is at place i of the sorted query *)
Ranks(q, x, i) == Below(q, x) < i /\ i <= UpTo(q, x)

LEMMA OneAtEachPlace ==
  ASSUME NEW q \in Seq(Pair), NEW x \in Pair, NEW y \in Pair, NEW i \in Nat,
         Ranks(q, x, i), Ranks(q, y, i)
  PROVE  x = y
<1>1. ASSUME NEW a \in Pair, NEW b \in Pair, Ranks(q, a, i), Ranks(q, b, i) PROVE ~Precedes(a, b)
  <2>1. ASSUME Precedes(a, b) PROVE FALSE
    <3>1. UpTo(q, a) <= Below(q, b) /\ UpTo(q, a) \in Nat /\ Below(q, b) \in Nat
      BY <2>1, PlacesGrow, PlacesCounted
    <3>2. Below(q, b) < i /\ i <= UpTo(q, a)
      BY <1>1 DEF Ranks
    <3> QED BY <3>1, <3>2
  <2> QED BY <2>1
<1> QED BY <1>1, PairOrder

LEMMA SomeAtEachPlace ==
  ASSUME NEW q \in Seq(Pair), NEW i \in DOMAIN q
  PROVE  \E x \in Range(q): Ranks(q, x, i)
<1> DEFINE R == Range(q)
           n == Len(q)
           Tops == {x \in R: i <= UpTo(q, x)}
<1>0. /\ R \in SUBSET Pair /\ q[i] \in R /\ n \in Nat /\ i \in 1..n
      /\ \A j \in DOMAIN q: q[j] \in R
  BY DEF Range
<1>c. \A x: UpTo(q, x) \in Nat /\ UpTo(q, x) <= n /\ Below(q, x) \in Nat
  BY PlacesCounted
<1>1. Tops # {}
  <2> DEFINE f == [x \in R |-> n - UpTo(q, x)]
  <2>1. f \in [R -> Nat]
    <3>1. \A x \in R: n - UpTo(q, x) \in Nat
      BY <1>0, <1>c
    <3> QED BY <3>1
  <2>2. PICK x \in R: \A y \in R: f[x] <= f[y]
    <3> HIDE DEF f
    <3> QED BY <1>0, <2>1, LeastValue
  <2>3. \A y \in R: UpTo(q, y) <= UpTo(q, x)
    BY <1>0, <1>c, <2>2
  <2>4. PlacesUpTo(q, x) = DOMAIN q
    <3>1. ASSUME NEW j \in DOMAIN q, Precedes(x, q[j]) PROVE FALSE
      <4>1. q[j] \in R /\ q[j] \in Pair /\ x \in Pair
        BY <1>0
      <4>2. UpTo(q, x) < UpTo(q, q[j])
        BY <3>1, <4>1, PlacesGrow
      <4> QED BY <1>c, <2>3, <4>1, <4>2
    <3> QED BY <3>1 DEF PlacesUpTo
  <2>5. UpTo(q, x) = n
    <3>1. DOMAIN q = 1..n /\ 1 \in Int /\ n \in Int
      BY <1>0
    <3>2. Cardinality(1..n) = IF 1 > n THEN 0 ELSE n - 1 + 1
      BY <3>1, FS_Interval, Zenon
    <3>3. Cardinality(1..n) = n
      BY <1>0, <3>2
    <3> QED BY <2>4, <3>1, <3>3, PlacesCounted
  <2> QED BY <1>0, <2>5
<1>2. PICK x \in Tops: \A y \in Tops: UpTo(q, x) <= UpTo(q, y)
  <2> DEFINE f == [y \in Tops |-> UpTo(q, y)]
  <2>1. f \in [Tops -> Nat]
    BY <1>c
  <2>2. PICK x \in Tops: \A y \in Tops: f[x] <= f[y]
    <3> HIDE DEF f, Tops
    <3> QED BY <1>1, <2>1, LeastValue
  <2> QED BY <2>2
<1>3. ASSUME ~(Below(q, x) < i) PROVE FALSE
  <2> DEFINE Z == {y \in R: Precedes(y, x)}
             f == [y \in Z |-> n - UpTo(q, y)]
  <2>1. Z # {}
    <3>1. PlacesBelow(q, x) # {}
      <4>1. Cardinality(PlacesBelow(q, x)) # 0
        BY <1>0, <1>c, <1>3, PlacesCounted
      <4> QED BY <4>1, FS_EmptySet
    <3> QED BY <1>0, <3>1 DEF PlacesBelow
  <2>2. f \in [Z -> Nat]
    <3>1. \A y \in Z: n - UpTo(q, y) \in Nat
      BY <1>0, <1>c
    <3> QED BY <3>1
  <2>3. PICK z \in Z: \A y \in Z: f[z] <= f[y]
    <3> HIDE DEF f, Z
    <3> QED BY <2>1, <2>2, LeastValue
  <2>4. \A y \in Z: UpTo(q, y) <= UpTo(q, z)
    BY <1>0, <1>c, <2>3
  <2>5. PlacesBelow(q, x) \in SUBSET PlacesUpTo(q, z)
    <3>1. ASSUME NEW j \in DOMAIN q, Precedes(q[j], x), Precedes(z, q[j]) PROVE FALSE
      <4>1. q[j] \in Z /\ q[j] \in Pair /\ z \in Pair /\ q[j] \in R
        BY <1>0, <3>1
      <4>2. UpTo(q, z) < UpTo(q, q[j])
        BY <3>1, <4>1, PlacesGrow
      <4> QED BY <1>c, <2>4, <4>1, <4>2
    <3> QED BY <3>1 DEF PlacesBelow, PlacesUpTo
  <2>6. Below(q, x) <= UpTo(q, z)
    <3>1. Cardinality(PlacesBelow(q, x)) <= Cardinality(PlacesUpTo(q, z))
      BY <2>5, PlacesCounted, FS_Subset, Zenon
    <3> QED BY <3>1, PlacesCounted
  <2>7. UpTo(q, z) < UpTo(q, x)
    BY <1>0, PlacesGrow
  <2>8. z \in Tops
    BY <1>0, <1>c, <1>3, <2>6
  <2> QED BY <1>2, <1>c, <2>7, <2>8
<1> QED BY <1>2, <1>3 DEF Ranks

(* The canonical query has at each place the parameter that ranks there. *)
LEMMA CanonicalAt ==
  ASSUME NEW q \in Seq(Pair), NEW c, c = canonicalQueryString(q)
  PROVE  /\ DOMAIN c = DOMAIN q
         /\ \A i \in DOMAIN q: c[i] \in Range(q) /\ Ranks(q, c[i], i)
<1>1. ASSUME NEW i \in DOMAIN q
      PROVE  LET x == CHOOSE x \in Range(q): Ranks(q, x, i) IN x \in Range(q) /\ Ranks(q, x, i)
  BY SomeAtEachPlace
<1> QED BY <1>1 DEF canonicalQueryString, Ranks

(* Sorting keeps every parameter as often as it is there. *)
LEMMA CanonicalTimes ==
  ASSUME NEW q \in Seq(Pair), NEW x \in Pair
  PROVE  Times(x, canonicalQueryString(q)) = Times(x, q)
<1> DEFINE c == canonicalQueryString(q)
           Places == {j \in DOMAIN q: q[j] = x}
           Sorted == {i \in DOMAIN c: c[i] = x}
<1>0. /\ DOMAIN q = 1..Len(q) /\ Len(q) \in Nat
      /\ \A j \in DOMAIN q: q[j] \in Pair
      /\ Below(q, x) \in Nat /\ UpTo(q, x) \in Nat /\ UpTo(q, x) <= Len(q)
  BY PlacesCounted
<1>a. /\ DOMAIN c = DOMAIN q
      /\ \A i \in DOMAIN q: c[i] \in Range(q) /\ Ranks(q, c[i], i)
  BY CanonicalAt
<1>t. Times(x, c) = Cardinality(Sorted) /\ Times(x, q) = Cardinality(Places)
  BY DEF Times
<1>1. CASE x \notin Range(q)
  <2>1. Places = {}
    BY <1>1 DEF Range
  <2>2. Sorted = {}
    BY <1>1, <1>a
  <2> QED BY <1>t, <2>1, <2>2
<1>2. CASE x \in Range(q)
  <2> HIDE DEF c
  <2>1. /\ PlacesUpTo(q, x) = PlacesBelow(q, x) \cup Places
        /\ PlacesBelow(q, x) \cap Places = {}
    BY <1>0, PairOrder DEF PlacesUpTo, PlacesBelow
  <2>2. UpTo(q, x) = Below(q, x) + Cardinality(Places)
    <3>1. IsFiniteSet(PlacesBelow(q, x)) /\ IsFiniteSet(PlacesUpTo(q, x))
      BY PlacesCounted
    <3>2. Places \in SUBSET PlacesUpTo(q, x)
      BY <2>1
    <3>3. IsFiniteSet(Places)
      BY <3>1, <3>2, FS_Subset, Zenon
    <3>4. Cardinality(PlacesBelow(q, x) \cup Places)
            = Cardinality(PlacesBelow(q, x)) + Cardinality(Places)
                - Cardinality(PlacesBelow(q, x) \cap Places)
      <4> HIDE DEF Places
      <4> QED BY <3>1, <3>3, FS_Union, Zenon
    <3>6. Cardinality(PlacesUpTo(q, x))
            = Cardinality(PlacesBelow(q, x)) + Cardinality(Places) - Cardinality({})
      <4> HIDE DEF Places
      <4> QED BY <2>1, <3>4, Zenon
    <3>5. Cardinality(Places) \in Nat /\ Cardinality({}) = 0
      BY <3>3, FS_CardinalityType, FS_EmptySet
    <3>7. UpTo(q, x) = Below(q, x) + Cardinality(Places) - 0
      <4> HIDE DEF Places
      <4> QED BY <3>5, <3>6, PlacesCounted, Zenon
    <3> HIDE DEF Places
    <3> QED BY <1>0, <3>5, <3>7
  <2>3. Sorted = Below(q, x) + 1..UpTo(q, x)
    <3>1. ASSUME NEW i \in DOMAIN q PROVE c[i] = x <=> Ranks(q, x, i)
      <4>1. i \in Nat /\ c[i] \in Pair /\ Ranks(q, c[i], i)
        BY <1>0, <1>a DEF Range
      <4> QED BY <4>1, OneAtEachPlace
    <3>2. \A i \in Int: i \in DOMAIN q /\ Ranks(q, x, i) <=> i \in Below(q, x) + 1..UpTo(q, x)
      BY <1>0 DEF Ranks
    <3> QED BY <1>0, <1>a, <3>1, <3>2
  <2>4. Cardinality(Sorted) = UpTo(q, x) - Below(q, x)
    <3> DEFINE a == Below(q, x) + 1  b == UpTo(q, x)
    <3>1. a \in Int /\ b \in Int
      BY <1>0
    <3>2. Cardinality(a..b) = IF a > b THEN 0 ELSE b - a + 1
      <4> HIDE DEF a, b
      <4> QED BY <3>1, FS_Interval, Zenon
    <3>3. Below(q, x) <= UpTo(q, x)
      <4>1. PlacesBelow(q, x) \in SUBSET PlacesUpTo(q, x)
        BY <2>1
      <4>2. Cardinality(PlacesBelow(q, x)) <= Cardinality(PlacesUpTo(q, x))
        BY <4>1, PlacesCounted, FS_Subset, Zenon
      <4> QED BY <4>2, PlacesCounted
    <3>4. Cardinality(Sorted) = IF a > b THEN 0 ELSE b - a + 1
      <4> HIDE DEF Sorted
      <4> QED BY <2>3, <3>2
    <3> HIDE DEF Sorted
    <3> QED BY <1>0, <3>3, <3>4
  <2>5. Cardinality(Places) \in Nat
    <3>1. Places \in SUBSET PlacesUpTo(q, x) /\ IsFiniteSet(PlacesUpTo(q, x))
      BY <2>1, PlacesCounted
    <3>2. IsFiniteSet(Places)
      BY <3>1, FS_Subset, Zenon
    <3> HIDE DEF Places
    <3> QED BY <3>2, FS_CardinalityType
  <2>6. Cardinality(Sorted) = Cardinality(Places)
    <3> HIDE DEF Sorted, Places
    <3> QED BY <1>0, <2>2, <2>4, <2>5
  <2> QED BY <1>t, <2>6 DEF c
<1> QED BY <1>1, <1>2

(* Sets of places that mirror one another are as large. *)
Mirrors(S, T, n) ==
  /\ S \in SUBSET (1..n) /\ T \in SUBSET (1..n)
  /\ \A j \in 1..n: j \in S <=> n - j + 1 \in T

LEMMA MirrorCount ==
  ASSUME NEW n \in Nat, NEW S, NEW T, Mirrors(S, T, n)
  PROVE  Cardinality(S) = Cardinality(T)
<1> USE DEF Mirrors
<1> DEFINE f == [j \in S |-> n - j + 1]
<1>1. f \in Bijection(S, T)
  <2>1. \A j \in S: n - j + 1 \in T
    OBVIOUS
  <2>2. \A i, j \in S: n - i + 1 = n - j + 1 => i = j
    OBVIOUS
  <2>3. \A t \in T: \E j \in S: n - j + 1 = t
    <3>1. ASSUME NEW t \in T PROVE n - t + 1 \in S /\ n - (n - t + 1) + 1 = t
      <4>1. n - t + 1 \in 1..n /\ n - (n - t + 1) + 1 = t
        OBVIOUS
      <4> QED BY <4>1
    <3> QED BY <3>1
  <2> QED BY <2>1, <2>2, <2>3 DEF Bijection, Injection, Surjection, IsInjective
<1>2. IsFiniteSet(S)
  <2>1. IsFiniteSet(1..n)
    BY FS_Interval
  <2> QED BY <2>1, FS_Subset, Zenon
<1>3. ExistsBijection(S, T)
  <2> HIDE DEF f
  <2> QED BY <1>1 DEF ExistsBijection
<1> QED BY <1>2, <1>3, FS_Bijection, Zenon

(* The order in which the parameters arrive does not matter. *)
LEMMA CanonicalReverse ==
  ASSUME NEW q \in Seq(Pair)
  PROVE  canonicalQueryString(Reverse(q)) = canonicalQueryString(q)
<1> DEFINE n == Len(q)
           r == Reverse(q)
<1>1. /\ n \in Nat /\ DOMAIN q = 1..n /\ DOMAIN r = 1..n
      /\ \A j \in 1..n: n - j + 1 \in 1..n /\ r[j] = q[n - j + 1]
  BY DEF Reverse
<1>2. \A j \in 1..n: n - (n - j + 1) + 1 = j
  BY <1>1
<1>3. Range(r) = Range(q)
  <2>1. \A j \in 1..n: r[n - j + 1] = q[j]
    BY <1>1, <1>2
  <2> HIDE DEF r
  <2> QED BY <1>1, <2>1 DEF Range
<1>4. \A x: Below(r, x) = Below(q, x) /\ UpTo(r, x) = UpTo(q, x)
  <2> SUFFICES ASSUME NEW x PROVE Below(r, x) = Below(q, x) /\ UpTo(r, x) = UpTo(q, x)
    OBVIOUS
  <2> HIDE DEF r, n
  <2>1. Cardinality(PlacesBelow(r, x)) = Cardinality(PlacesBelow(q, x))
    <3>1. \A j \in 1..n: j \in PlacesBelow(r, x) <=> n - j + 1 \in PlacesBelow(q, x)
      BY <1>1 DEF PlacesBelow
    <3>2. Mirrors(PlacesBelow(r, x), PlacesBelow(q, x), n)
      BY <1>1, <3>1 DEF PlacesBelow, Mirrors
    <3> QED BY <1>1, <3>2, MirrorCount, Zenon
  <2>2. Cardinality(PlacesUpTo(r, x)) = Cardinality(PlacesUpTo(q, x))
    <3>1. \A j \in 1..n: j \in PlacesUpTo(r, x) <=> n - j + 1 \in PlacesUpTo(q, x)
      BY <1>1 DEF PlacesUpTo
    <3>2. Mirrors(PlacesUpTo(r, x), PlacesUpTo(q, x), n)
      BY <1>1, <3>1 DEF PlacesUpTo, Mirrors
    <3> QED BY <1>1, <3>2, MirrorCount, Zenon
  <2> QED BY <2>1, <2>2 DEF Below, UpTo, PlacesBelow, PlacesUpTo
<1> HIDE DEF r, n
<1> QED BY <1>1, <1>3, <1>4 DEF canonicalQueryString, r

---------------------------------------------------------------------------
(* Signatures *)

Lifetime(r) == IF r.mode = "query" /\ r.expires \in Nat THEN r.expires ELSE 0

InWindow(r, now) ==
  /\ r.date \in Int
  /\ r.date - Skew <= now /\ now <= r.date + Lifetime(r) + Skew

(* The canonical request, the date and the scope of the credential are all a   *)
(* signature is computed from; who signed is known by the secret.             *)
SameAsSigned(a, b) ==
  /\ canonicalRequest(a) = canonicalRequest(b)
  /\ <<a.mode, a.date, a.key.scope>> = <<b.mode, b.date, b.key.scope>>

AcceptedAsSigned ==
  (/\ conf.auth = "sigv4" /\ UnderWay /\ msg.verdict = "ok"
   /\ msg.got.path \notin Exempt) =>
     /\ msg.got.mode # "none" /\ InWindow(msg.got, clock)
     /\ msg.got.key.id \in DOMAIN Secret /\ Secret[msg.got.key.id] = msg.secret
     /\ SameAsSigned(msg.got, msg.sent)

(* What VerifyRequest accepts. *)
LEMMA VerifiedIsSigned ==
  ASSUME NEW r, r \in RequestWith(r.sig), NEW now \in Nat, VerifyRequest(r, now) = "ok"
  PROVE  /\ r.mode # "none" /\ r.key.id \in DOMAIN Secret /\ InWindow(r, now)
         /\ r.sig # Absent /\ r.sig = Signature(r, Secret[r.key.id])
<1> DEFINE lifetime == IF r.mode = "query" THEN r.expires ELSE 0
<1>1. r.mode # "none"
  BY DEF VerifyRequest
<1>2. r.key.id \in DOMAIN Secret /\ r.date # Absent /\ lifetime # Absent
  BY <1>1 DEF VerifyRequest
<1>3. ~(r.mode = "header" /\ r.sig = Absent)
  BY <1>1, <1>2 DEF VerifyRequest
<1>4. validateTimestamp(r.date, lifetime, now)
  BY <1>1, <1>2, <1>3 DEF VerifyRequest
<1>5. r.sig # Absent /\ r.sig = Signature(r, Secret[r.key.id])
  BY <1>1, <1>2, <1>3, <1>4 DEF VerifyRequest
<1>6. r.date \in Int /\ r.expires \in Int \cup {Absent}
  BY <1>2 DEF RequestWith
<1>7. InWindow(r, now)
  BY <1>2, <1>4, <1>6, WindowAssumption DEF InWindow, Lifetime, validateTimestamp
<1> QED BY <1>1, <1>2, <1>5, <1>7

(* A signature is the record of what was signed: equal ones were computed from *)
(* the same secret and say the same, and a presigned request, which has its     *)
(* parameters in the query, is not mistaken for a header-signed one.          *)
LEMMA SignaturesAreInjective ==
  ASSUME NEW a, NEW b, NEW s, NEW t, Signature(a, s) = Signature(b, t),
         a.mode \in {"header", "query"}, b.mode \in {"header", "query"}
  PROVE  s = t /\ SameAsSigned(a, b)
<1> DEFINE x == Signature(a, s)  y == Signature(b, t)
<1>1. /\ x.secret = s /\ x.date = a.date /\ x.scope = a.key.scope
      /\ x.request = canonicalRequest(a)
      /\ y.secret = t /\ y.date = b.date /\ y.scope = b.key.scope
      /\ y.request = canonicalRequest(b)
  BY DEF Signature
<1>2. x = y
  OBVIOUS
<1> HIDE DEF x, y
<1>3. canonicalRequest(a) = canonicalRequest(b)
  BY <1>1, <1>2
<1>4. AuthParams(a) = AuthParams(b)
  <2> DEFINE v == canonicalRequest(a)  w == canonicalRequest(b)
  <2>1. v.auth = AuthParams(a) /\ w.auth = AuthParams(b)
    BY DEF canonicalRequest
  <2> HIDE DEF v, w
  <2> QED BY <1>3, <2>1 DEF v, w
<1>5. a.mode = b.mode
  <2>1. ASSUME NEW u, NEW v, AuthParams(u) = AuthParams(v), u.mode = "query", v.mode = "header"
        PROVE  FALSE
    <3>1. Len(AuthParams(u)) = 5 /\ Len(AuthParams(v)) = 0
      BY <2>1 DEF AuthParams
    <3> QED BY <2>1, <3>1
  <2> QED BY <1>4, <2>1
<1> QED BY <1>1, <1>2, <1>3, <1>5 DEF SameAsSigned

(* The verdict under way is that of VerifyRequest, at the clock of the arrival. *)
VerdictInv ==
  (/\ conf.auth = "sigv4" /\ UnderWay /\ msg.verdict # "none"
   /\ msg.got.path \notin Exempt) => msg.verdict = VerifyRequest(msg.got, clock)

LEMMA VerdictInitial == Init => VerdictInv
BY DEF Init, VerdictInv, UnderWay

LEMMA VerdictStep == MsgInv /\ VerdictInv /\ [Next]_vars => VerdictInv'
<1> SUFFICES ASSUME MsgInv, VerdictInv, [Next]_vars PROVE VerdictInv'
  OBVIOUS
<1>0. ASSUME NEW v, UnderWay, msg' = [msg EXCEPT !.verdict = v]
      PROVE  msg'.got = msg.got /\ msg'.verdict = v
  BY <1>0, MessageChanged DEF MsgInv
<1>1. CASE UNCHANGED <<conf, clock, msg>>
  <2>1. VerifyRequest(msg.got, clock)' = VerifyRequest(msg.got, clock)
    BY <1>1
  <2> QED BY <1>1, <2>1 DEF VerdictInv, UnderWay
<1>2. CASE UnderWay' => msg'.verdict = "none"
  BY <1>2 DEF VerdictInv
<1>3. ASSUME Send PROVE UnderWay' => msg'.verdict = "none"
  BY <1>3 DEF Send
<1>4. ASSUME Rewrite PROVE UnderWay' => msg'.verdict = "none"
  <2>1. Message(msg) /\ msg.verdict = "none"
    BY <1>4 DEF Rewrite, InFlight, MsgInv, UnderWay
  <2>2. PICK r: msg' = [msg EXCEPT !.got = r]
    BY <1>4 DEF Rewrite
  <2> QED BY <2>1, <2>2, MessageChanged
<1>5. ASSUME Tick PROVE UnderWay' => msg'.verdict = "none"
  BY <1>5 DEF Tick, InFlight
<1>6. ASSUME Arrive PROVE VerdictInv'
  <2> DEFINE v == IF conf.auth = "none" \/ msg.got.path \in Exempt THEN "ok"
                  ELSE VerifyRequest(msg.got, clock)
  <2>1. UnderWay /\ msg' = [msg EXCEPT !.verdict = v] /\ UNCHANGED <<conf, clock>>
    BY <1>6 DEF Arrive, InFlight, UnderWay
  <2> HIDE DEF v
  <2>2. msg'.got = msg.got /\ msg'.verdict = v
    BY <1>0, <2>1
  <2>3. VerifyRequest(msg.got, clock)' = VerifyRequest(msg.got, clock)
    BY <2>1, <2>2
  <2>4. conf.auth = "sigv4" /\ msg.got.path \notin Exempt => v = VerifyRequest(msg.got, clock)
    BY DEF v
  <2> QED BY <2>1, <2>2, <2>3, <2>4 DEF VerdictInv
<1>7. ASSUME Deny PROVE UnderWay' => msg'.verdict = "none"
  <2>1. UnderWay /\ msg' = [msg EXCEPT !.verdict = "none"]
    BY <1>7 DEF Deny, UnderWay
  <2> QED BY <1>0, <2>1
<1>8. ASSUME Serve PROVE ~UnderWay'
  BY <1>8 DEF Serve, UnderWay
<1>9. ASSUME Transferring \/ AdminServe \/ AdminReturn PROVE VerdictInv'
  BY <1>1, <1>9 DEF Transferring, AdminServe, AdminReturn
<1>10. CASE UNCHANGED vars
  BY <1>1, <1>10 DEF vars
<1> QED BY <1>2, <1>3, <1>4, <1>5, <1>6, <1>7, <1>8, <1>9, <1>10 DEF Next

LEMMA VerdictAlways == Spec => []VerdictInv
BY VerdictInitial, VerdictStep, MsgAlways, PTL DEF Spec

LEMMA OnlySigned ==
  ASSUME MsgInv, VerdictInv, conf.auth = "sigv4", UnderWay, msg.verdict = "ok",
         msg.got.path \notin Exempt
  PROVE  /\ msg.got.mode # "none" /\ InWindow(msg.got, clock)
         /\ msg.got.key.id \in DOMAIN Secret /\ Secret[msg.got.key.id] = msg.secret
         /\ msg.got.sig = msg.sent.sig /\ SameAsSigned(msg.got, msg.sent)
<1>1. Made(msg) /\ clock \in Nat
  BY DEF MsgInv
<1>2. VerifyRequest(msg.got, clock) = "ok"
  BY DEF VerdictInv
<1>3. /\ msg.got.mode # "none" /\ msg.got.key.id \in DOMAIN Secret
      /\ InWindow(msg.got, clock) /\ msg.got.sig # Absent
      /\ msg.got.sig = Signature(msg.got, Secret[msg.got.key.id])
  BY <1>1, <1>2, VerifiedIsSigned DEF Made
<1>4. /\ msg.got.sig = msg.sent.sig /\ msg.sent.mode # "none"
      /\ {msg.got.mode, msg.sent.mode} \subseteq {"header", "query"}
  <2>1. msg.got.sig = msg.sent.sig /\ msg.sent.mode # "none"
    BY <1>1, <1>3 DEF Made
  <2>2. {msg.got.mode, msg.sent.mode} \subseteq {"none", "header", "query"}
    BY <1>1 DEF Made, RequestWith
  <2> QED BY <1>3, <2>1, <2>2
<1>5. Signature(msg.got, Secret[msg.got.key.id]) = Signature(msg.sent, msg.secret)
  BY <1>1, <1>3, <1>4 DEF Made
<1>6. Secret[msg.got.key.id] = msg.secret /\ SameAsSigned(msg.got, msg.sent)
  BY <1>4, <1>5, SignaturesAreInjective
<1> QED BY <1>3, <1>4, <1>6

(* VerifyRequest behind Middleware (verify.go:99-228): a request that passes    *)
(* it was signed with the secret of the access key it names; its method, path,  *)
(* canonical query, signed headers, payload hash, date and scope are those that *)
(* were signed, whatever happened to it on its way; and it arrives within the   *)
(* clock skew of its date and lifetime.                                       *)
THEOREM OnlySignedAccepted == Spec => []AcceptedAsSigned
<1>1. MsgInv /\ VerdictInv => AcceptedAsSigned
  BY OnlySigned DEF AcceptedAsSigned
<1> QED BY <1>1, MsgAlways, VerdictAlways, PTL

(* What was signed is what is said: the canonical request keeps apart whatever  *)
(* matters.                                                                  *)
LEMMA SignedSaysTheSame ==
  ASSUME NEW a, NEW b, a \in RequestWith(a.sig), b \in RequestWith(b.sig),
         a.sig = b.sig, SameAsSigned(b, a)
  PROVE  SaysTheSame(a, b)
<1>1. /\ a.mode = b.mode /\ a.date = b.date /\ a.key.scope = b.key.scope
      /\ a.method = b.method /\ a.path = b.path
      /\ canonicalQueryString(a.query) = canonicalQueryString(b.query)
      /\ AuthParams(a) = AuthParams(b)
      /\ canonicalHeaders(a) = canonicalHeaders(b)
      /\ payloadHash(a) = payloadHash(b)
  BY DEF SameAsSigned, canonicalRequest
<1>3. a.query \in Seq(Pair) /\ b.query \in Seq(Pair)
  BY DEF RequestWith, Pair
<1>4. ASSUME NEW i \in DOMAIN a.query
      PROVE  Times(a.query[i], a.query) = Times(a.query[i], b.query)
  <2>1. a.query[i] \in Pair
    BY <1>3
  <2>2. /\ Times(a.query[i], canonicalQueryString(a.query)) = Times(a.query[i], a.query)
        /\ Times(a.query[i], canonicalQueryString(b.query)) = Times(a.query[i], b.query)
    BY <1>3, <2>1, CanonicalTimes
  <2> QED BY <1>1, <2>2
<1>5. Len(a.query) = Len(b.query)
  <2>1. DOMAIN a.query = DOMAIN b.query
    <3>1. /\ DOMAIN canonicalQueryString(a.query) = DOMAIN a.query
          /\ DOMAIN canonicalQueryString(b.query) = DOMAIN b.query
      BY <1>3, CanonicalAt
    <3> QED BY <1>1, <3>1
  <2>2. /\ Len(a.query) \in Nat /\ DOMAIN a.query = 1..Len(a.query)
        /\ Len(b.query) \in Nat /\ DOMAIN b.query = 1..Len(b.query)
    BY <1>3
  <2>3. ASSUME NEW m \in Nat, NEW n \in Nat, 1..m = 1..n PROVE m = n
    BY <2>3
  <2> QED BY <2>1, <2>2, <2>3
<1>6. ASSUME NEW h \in a.signed
      PROVE  \/ a.headers[h].value = b.headers[h].value
             \/ a.headers[h].value = Absent /\ h \notin b.signed
  <2>1. canonicalHeaders(a) =
          {<<n, a.headers[n].value>>: n \in {n \in a.signed: a.headers[n].value # Absent}}
    BY DEF canonicalHeaders
  <2>2. canonicalHeaders(b) =
          {<<n, b.headers[n].value>>: n \in {n \in b.signed: b.headers[n].value # Absent}}
    BY DEF canonicalHeaders
  <2>3. ASSUME a.headers[h].value # Absent PROVE a.headers[h].value = b.headers[h].value
    <3>1. <<h, a.headers[h].value>> \in canonicalHeaders(b)
      BY <1>1, <2>1, <2>3
    <3> QED BY <2>2, <3>1
  <2>4. ASSUME h \in b.signed, b.headers[h].value # Absent
        PROVE  a.headers[h].value = b.headers[h].value
    <3>1. <<h, b.headers[h].value>> \in canonicalHeaders(a)
      BY <1>1, <2>2, <2>4
    <3> QED BY <2>1, <3>1
  <2> QED BY <2>3, <2>4
<1>7. a.mode = "query" =>
        <<a.key, a.expires, a.signed, a.hash>> = <<b.key, b.expires, b.signed, b.hash>>
  BY <1>1 DEF AuthParams
<1>8. ASSUME {a.hash, b.hash} \subseteq Int PROVE a.hash = b.hash
  <2>1. a.hash # Absent /\ a.hash # Short /\ b.hash # Absent /\ b.hash # Short
    BY <1>8, AbsentAssumption
  <2> QED BY <1>1, <1>7, <2>1 DEF payloadHash
<1>9. ASSUME a.mode = "header", {a.hash, b.hash} = {Short} PROVE a.body = b.body
  <2>1. a.hash = Short /\ b.hash = Short /\ Short # Absent
    BY <1>9, AbsentAssumption
  <2> QED BY <1>1, <1>9, <2>1 DEF payloadHash
<1> QED BY <1>1, <1>4, <1>5, <1>6, <1>7, <1>8, <1>9 DEF SaysTheSame

(* Reordering the query, padding and adding headers changes nothing of it. *)
LEMMA HarmlessIsTheSame ==
  ASSUME NEW s, s \in RequestWith(s.sig), 3 \notin s.signed, NEW r \in {s} \cup Harmless(s)
  PROVE  /\ r.sig = s.sig /\ r.mode = s.mode
         /\ \A secret: Signature(r, secret) = Signature(s, secret)
<1> DEFINE Same(x) ==
             /\ x.sig = s.sig /\ x.mode = s.mode /\ x.date = s.date /\ x.key = s.key
             /\ x.expires = s.expires /\ x.signed = s.signed /\ x.method = s.method
             /\ x.path = s.path /\ x.hash = s.hash /\ x.body = s.body /\ x.sized = s.sized
           SameValues(x) == \A h \in s.signed: x.headers[h].value = s.headers[h].value
<1>0. /\ s.headers \in [1..3 -> Header] /\ s.signed \in SUBSET (1..3)
      /\ s.query \in Seq(Pair)
  BY DEF RequestWith, Pair
<1>1. ASSUME NEW q, r = [s EXCEPT !.query = q] PROVE Same(r) /\ SameValues(r) /\ r.query = q
  BY <1>1 DEF RequestWith
<1>2. ASSUME NEW hs, r = [s EXCEPT !.headers = hs]
      PROVE  Same(r) /\ r.headers = hs /\ r.query = s.query
  BY <1>2 DEF RequestWith
<1>3. /\ Same(r) /\ SameValues(r)
      /\ canonicalQueryString(r.query) = canonicalQueryString(s.query)
  <2>1. CASE r = s
    BY <2>1
  <2>2. CASE r = [s EXCEPT !.query = Reverse(s.query)]
    BY <1>0, <1>1, <2>2, CanonicalReverse
  <2>3. CASE r = [s EXCEPT !.headers = [s.headers EXCEPT ![1] = [s.headers[1] EXCEPT !.pad = TRUE]]]
    <3> DEFINE padded == [s.headers[1] EXCEPT !.pad = TRUE]
    <3>1. padded.value = s.headers[1].value
      BY <1>0 DEF Header
    <3> HIDE DEF padded
    <3>2. r = [s EXCEPT !.headers = [s.headers EXCEPT ![1] = padded]]
      BY <2>3 DEF padded
    <3>3. Same(r) /\ r.headers = [s.headers EXCEPT ![1] = padded] /\ r.query = s.query
      BY <1>2, <3>2
    <3>4. SameValues(r)
      BY <1>0, <3>1, <3>3
    <3> QED BY <3>3, <3>4
  <2>4. CASE r = [s EXCEPT !.headers = [s.headers EXCEPT ![3] = [s.headers[3] EXCEPT !.value = 1]]]
    <3> DEFINE added == [s.headers[3] EXCEPT !.value = 1]
    <3> HIDE DEF added
    <3>1. r = [s EXCEPT !.headers = [s.headers EXCEPT ![3] = added]]
      BY <2>4 DEF added
    <3>2. Same(r) /\ r.headers = [s.headers EXCEPT ![3] = added] /\ r.query = s.query
      BY <1>2, <3>1
    <3>3. SameValues(r)
      BY <1>0, <3>2
    <3> QED BY <3>2, <3>3
  <2> QED BY <2>1, <2>2, <2>3, <2>4 DEF Harmless
<1> HIDE DEF SameValues
<1>4. AuthParams(r) = AuthParams(s) /\ payloadHash(r) = payloadHash(s)
  BY <1>3 DEF AuthParams, payloadHash
<1>5. canonicalHeaders(r) = canonicalHeaders(s)
  BY <1>3 DEF canonicalHeaders, SameValues
<1>6. canonicalRequest(r) = canonicalRequest(s)
  BY <1>3, <1>4, <1>5 DEF canonicalRequest
<1> QED BY <1>3, <1>6 DEF Signature

(* A signed request in its window is accepted. *)
LEMMA SignedIsVerified ==
  ASSUME NEW r, r \in RequestWith(r.sig), NEW now \in Nat, r.mode # "none",
         r.key.id \in DOMAIN Secret, r.sig # Absent,
         r.sig = Signature(r, Secret[r.key.id]), InWindow(r, now), Lifetime(r) <= MaxTTL,
         r.mode = "query" => r.expires # Absent,
         \E h \in r.signed: r.headers[h].value # Absent,
         r.hash = Absent => r.mode = "query" \/ r.method \in {"GET", "HEAD"} \/ ~r.sized
  PROVE  VerifyRequest(r, now) = "ok"
<1> DEFINE lifetime == IF r.mode = "query" THEN r.expires ELSE 0
<1>0. /\ r.date \in Int /\ r.expires \in Int \cup {Absent} /\ r.body \in Int
  BY CapAssumption DEF RequestWith, InWindow
<1>1. lifetime \in Int
  BY <1>0
<1>2. lifetime # Absent /\ r.date # Absent
  BY <1>0, <1>1, AbsentAssumption
<1>3. validateTimestamp(r.date, lifetime, now)
  BY <1>0, <1>1, WindowAssumption DEF validateTimestamp, InWindow, Lifetime
<1>4. payloadHash(r) # Absent
  <2>1. 0 # Absent /\ r.body # Absent /\ Unsigned # Absent /\ Short # Absent
    BY <1>0, AbsentAssumption
  <2> QED BY <2>1 DEF payloadHash
<1>5. canonicalHeaders(r) # {}
  BY DEF canonicalHeaders
<1> HIDE DEF lifetime
<1>6. VerifyRequest(r, now) =
        CASE r.mode = "none" -> "missing"
          [] \/ r.mode # "none" /\ r.key.id \notin DOMAIN Secret
             \/ r.date = Absent \/ lifetime = Absent
             \/ r.mode = "header" /\ r.sig = Absent -> "invalid"
          [] OTHER ->
               IF ~validateTimestamp(r.date, lifetime, now) THEN "expired"
               ELSE IF /\ payloadHash(r) # Absent
                       /\ canonicalHeaders(r) # {}
                       /\ r.sig # Absent /\ r.sig = Signature(r, Secret[r.key.id])
                      THEN "ok" ELSE "invalid"
  BY DEF VerifyRequest, lifetime
<1> QED BY <1>2, <1>3, <1>4, <1>5, <1>6

(* VerifyRequest behind Middleware: whatever a request is turned into on its    *)
(* way, it is accepted only if it says what the holder of the secret signed     *)
(* (SaysTheSame: not the body under a hash that is given, nor further lines of  *)
(* a header) and arrives in its window; and neither a reordered query nor a     *)
(* padded or an added header keeps a signed one out.                          *)
THEOREM AuthIsExact == Spec => []AuthExact
<1>1. ASSUME MsgInv, VerdictInv PROVE AuthExact
  <2> SUFFICES ASSUME conf.auth = "sigv4", UnderWay, msg.verdict # "none",
                      msg.got.path \notin Exempt
               PROVE  AuthExact
    BY DEF AuthExact, UnderWay
  <2> DEFINE r == msg.got
             lifetime == IF r.mode = "query" /\ r.expires \in Nat THEN r.expires ELSE 0
             timely == r.date # Absent /\ r.date - Skew <= clock
                         /\ clock <= r.date + lifetime + Skew
  <2>1. Made(msg) /\ clock \in Nat
    BY <1>1 DEF MsgInv
  <2>2. lifetime = Lifetime(r)
    BY DEF Lifetime
  <2>3. timely <=> InWindow(r, clock)
    <3>1. r.date # Absent <=> r.date \in Int
      BY <2>1, AbsentAssumption DEF Made, RequestWith
    <3> QED BY <2>2, <3>1 DEF InWindow
  <2>4. ASSUME msg.verdict = "ok"
        PROVE  /\ r.mode # "none" /\ timely
               /\ Secret[r.key.id] = msg.secret
               /\ SaysTheSame(msg.sent, r)
    <3>1. /\ r.mode # "none" /\ InWindow(r, clock) /\ Secret[r.key.id] = msg.secret
          /\ r.sig = msg.sent.sig /\ SameAsSigned(r, msg.sent)
      BY <1>1, <2>4, OnlySigned
    <3>2. SaysTheSame(msg.sent, r)
      BY <2>1, <3>1, SignedSaysTheSame DEF Made
    <3> QED BY <2>3, <3>1, <3>2
  <2>5. ASSUME r.mode # "none", r \in {msg.sent} \cup Harmless(msg.sent),
               r.key.id \in DOMAIN Secret, Secret[r.key.id] = msg.secret,
               timely, lifetime <= MaxTTL,
               r.mode = "query" => r.expires # Absent,
               \E h \in r.signed: r.headers[h].value # Absent,
               r.hash = Absent =>
                 \/ r.mode = "query" \/ r.method \in {"GET", "HEAD"}
                 \/ ~r.sized /\ r.body = 0
        PROVE  msg.verdict = "ok"
    <3>1. /\ r.sig = msg.sent.sig /\ r.mode = msg.sent.mode
          /\ \A secret: Signature(r, secret) = Signature(msg.sent, secret)
      BY <2>1, <2>5, HarmlessIsTheSame DEF Made
    <3>2. r.sig # Absent /\ r.sig = Signature(r, Secret[r.key.id])
      BY <2>1, <2>5, <3>1 DEF Made
    <3>3. InWindow(r, clock) /\ Lifetime(r) <= MaxTTL /\ r \in RequestWith(r.sig)
      BY <2>1, <2>2, <2>3, <2>5 DEF Made
    <3>4. VerifyRequest(r, clock) = "ok"
      <4> HIDE DEF r, lifetime, timely
      <4> QED BY <2>1, <2>5, <3>2, <3>3, SignedIsVerified
    <3> QED BY <1>1, <3>4 DEF VerdictInv
  <2> HIDE DEF timely, lifetime
  <2> QED BY <2>4, <2>5 DEF AuthExact, timely, lifetime
<1> QED BY <1>1, MsgAlways, VerdictAlways, PTL

---------------------------------------------------------------------------
(* Roles *)

LEMMA AnswerNeedsRole ==
  ASSUME NEW c \in Config, NEW r \in AdminCall, NEW queue \in {"takes", "closed", "gave up"}
  PROVE  AdminAnswer(c, r, queue) = "served" /\ r.path \in Changers <=>
          /\ r.method = "POST" /\ r.path \in DOMAIN Role
          /\ Needs(r.path) \subseteq c.parts
          /\ c.oidc = "on" => r.token.valid /\ Role[r.path] \in r.token.roles \cup r.token.scopes
          /\ r.path = "enqueue" => r.good /\ queue = "takes"
<1>1. DOMAIN Role = Changers
  BY DEF Role, Changers
<1>2. CASE r.path \notin Changers
  BY <1>1, <1>2
<1>3. CASE r.path \in Changers
  <2>1. r.path \notin c.unauth
    BY <1>3 DEF Config, Changers
  <2> DEFINE fit == r.path = "enqueue" => r.good /\ queue = "takes"
  <2>2. Handler(c, r, queue) = "served" <=>
          r.method = "POST" /\ Needs(r.path) \subseteq c.parts /\ fit
    <3>1. Takes(r.path, r.method) <=> r.method = "POST"
      BY <1>3 DEF Takes, Changers
    <3>2. EnqueueAnswer(r, queue) = "served" <=> r.good /\ queue = "takes"
      BY DEF EnqueueAnswer, AdminCall
    <3>3. r.path \in Readers \cup Changers
      BY <1>3
    <3>4. CASE ~Takes(r.path, r.method)
      <4>1. Handler(c, r, queue) = "not allowed"
        BY <3>3, <3>4 DEF Handler
      <4> QED BY <3>1, <3>4, <4>1
    <3>5. CASE Takes(r.path, r.method)
      <4>1. Handler(c, r, queue) =
              IF ~(Needs(r.path) \subseteq c.parts) THEN "unavailable"
              ELSE IF r.path = "enqueue" THEN EnqueueAnswer(r, queue) ELSE "served"
        BY <3>3, <3>5 DEF Handler
      <4> QED BY <3>1, <3>2, <3>5, <4>1
    <3> QED BY <3>4, <3>5
  <2>3. ASSUME r.method = "POST" PROVE DefaultAdminPolicy(r) = {Role[r.path]}
    <3>1. r.path \in {"gc", "runonce", "enqueue", "pause", "resume"}
      BY <1>3 DEF Changers
    <3>2. ASSUME r.path = "gc" PROVE DefaultAdminPolicy(r) = {"admin.gc"}
      BY <2>3, <3>2 DEF DefaultAdminPolicy
    <3>3. ASSUME r.path = "runonce" PROVE DefaultAdminPolicy(r) = {"admin.scrub"}
      BY <2>3, <3>3 DEF DefaultAdminPolicy
    <3>4. ASSUME r.path = "enqueue" PROVE DefaultAdminPolicy(r) = {"admin.repair.enqueue"}
      BY <2>3, <3>4 DEF DefaultAdminPolicy
    <3>5. ASSUME r.path \in {"pause", "resume"}
          PROVE  DefaultAdminPolicy(r) = {"admin.repair.control"}
      BY <2>3, <3>5 DEF DefaultAdminPolicy
    <3>6. /\ Role["gc"] = "admin.gc" /\ Role["runonce"] = "admin.scrub"
          /\ Role["enqueue"] = "admin.repair.enqueue"
          /\ Role["pause"] = "admin.repair.control" /\ Role["resume"] = "admin.repair.control"
      BY DEF Role
    <3> QED BY <3>1, <3>2, <3>3, <3>4, <3>5, <3>6
  <2> HIDE DEF fit
  <2>4. ASSUME NEW subject
        PROVE  RBAC(c, r, queue, subject) = "served" <=>
                 /\ r.method = "POST" /\ Needs(r.path) \subseteq c.parts /\ fit
                 /\ Role[r.path] \in subject
    BY <2>2, <2>3 DEF RBAC, hasAny
  <2>5. Middleware(c, r, queue) = "served" <=>
          r.token.valid /\ RBAC(c, r, queue, Subject(r.token)) = "served"
    BY <2>1 DEF Middleware
  <2> QED BY <1>1, <1>3, <2>2, <2>4, <2>5 DEF AdminAnswer, Subject, fit
<1> QED BY <1>2, <1>3

LEMMA EffectStep == MsgInv /\ EffectNeedsRole /\ [Next]_vars => EffectNeedsRole'
<1> SUFFICES ASSUME MsgInv, EffectNeedsRole, [Next]_vars PROVE EffectNeedsRole'
  OBVIOUS
<1>1. CASE UNCHANGED <<conf, admin>>
  BY <1>1 DEF EffectNeedsRole
<1>2. ASSUME AdminServe PROVE EffectNeedsRole'
  <2>1. PICK r \in AdminCalls, queue \in {"takes", "closed", "gave up"}:
          LET answer == AdminAnswer(conf, r, queue)
          IN  admin' = <<[request |-> r, queue |-> queue, answer |-> answer,
                          ran |-> answer = "served" /\ r.path \in Changers]>>
    BY <1>2 DEF AdminServe
  <2>2. r \in AdminCall /\ conf \in Config /\ conf' = conf
    BY <1>2, CallsAssumption DEF MsgInv, AdminServe
  <2> DEFINE ran == AdminAnswer(conf, r, queue) = "served" /\ r.path \in Changers
  <2>3. /\ admin'[1].request = r /\ admin'[1].queue = queue
        /\ admin'[1].ran <=> ran
    BY <2>1
  <2>4. ran <=>
          /\ r.method = "POST" /\ r.path \in DOMAIN Role
          /\ Needs(r.path) \subseteq conf.parts
          /\ conf.oidc = "on" =>
               r.token.valid /\ Role[r.path] \in r.token.roles \cup r.token.scopes
          /\ r.path = "enqueue" => r.good /\ queue = "takes"
    BY <2>2, AnswerNeedsRole
  <2> HIDE DEF ran
  <2> QED BY <2>2, <2>3, <2>4 DEF EffectNeedsRole
<1>3. ASSUME AdminReturn PROVE EffectNeedsRole'
  BY <1>3 DEF AdminReturn, EffectNeedsRole
<1>4. ASSUME Send \/ Rewrite \/ Tick \/ Arrive \/ Deny \/ Serve \/ Transferring
      PROVE  EffectNeedsRole'
  BY <1>1, <1>4 DEF Send, Rewrite, Tick, Arrive, Deny, Serve, Transferring
<1>5. CASE UNCHANGED vars
  BY <1>1, <1>5 DEF vars
<1> QED BY <1>2, <1>3, <1>4, <1>5 DEF Next

(* The wiring of the admin listener in main, oidc.Middleware, oidc.RBAC with    *)
(* DefaultAdminPolicy, and the handlers' own checks: for every configuration     *)
(* and every request, an operation is called only by a POST to it, when the      *)
(* component it needs runs and, with OIDC on, a valid token holds its role; and  *)
(* every such request calls it, save an enqueue of what is no item or of an      *)
(* item the queue does not take.                                             *)
THEOREM EffectsNeedRoles == Spec => []EffectNeedsRole
<1>1. Init => EffectNeedsRole
  BY DEF Init, EffectNeedsRole
<1> QED BY <1>1, EffectStep, MsgAlways, PTL DEF Spec
=============================================================================
