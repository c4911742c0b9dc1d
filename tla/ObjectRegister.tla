-------------------------- MODULE ObjectRegister --------------------------
(***************************************************************************)
(* What storage.ObjectStore promises for one key: a register that many       *)
(* handlers use at once.  A Put or a Delete takes effect at one instant      *)
(* between its call and its answer, and an acknowledged one did; one that    *)
(* fails may have taken effect or not.  A successful read answers the value  *)
(* the register had at one instant of the call.  Every call may fail.  A     *)
(* lossy register may acknowledge a Delete that had no effect, never a Put.  *)
(***************************************************************************)
CONSTANTS Putters, Readers, Deleters, Contents, None, Lossy

Clients == Putters \cup Readers \cup Deleters

VARIABLES obj,  \* the stored payload, or None
          req   \* each handler's request

rvars == <<obj, req>>

Request == [st: {"idle", "put", "written", "read", "delete", "deleted", "done"},
            val: Contents \cup {None},
            ok: BOOLEAN]

NoRequest == [st |-> "idle", val |-> None, ok |-> FALSE]

RTypeOK ==
  /\ obj \in Contents \cup {None}
  /\ req \in [Clients -> Request]

RInit ==
  /\ obj = None
  /\ req = [c \in Clients |-> NoRequest]

Call(c, st, val) ==
  /\ req[c].st = "idle"
  /\ req' = [req EXCEPT ![c] = [st |-> st, val |-> val, ok |-> FALSE]]

Answer(c, val, ok) ==
  req' = [req EXCEPT ![c] = [st |-> "done", val |-> val, ok |-> ok]]

CallPut(c) == (\E v \in Contents: Call(c, "put", v)) /\ UNCHANGED obj

Write(c) ==
  /\ req[c].st = "put"
  /\ obj' = req[c].val
  /\ req' = [req EXCEPT ![c].st = "written"]

AckPut(c) ==
  /\ req[c].st = "written"
  /\ Answer(c, None, TRUE)
  /\ UNCHANGED obj

FailPut(c) ==
  /\ req[c].st \in {"put", "written"}
  /\ Answer(c, None, FALSE)
  /\ UNCHANGED obj

(* The call and the instant that decides the answer. *)
ReadValue(c) == obj # None /\ Call(c, "read", obj) /\ UNCHANGED obj

(* The answer is the value read. *)
AckRead(c) ==
  /\ req[c].st = "read"
  /\ Answer(c, req[c].val, TRUE)
  /\ UNCHANGED obj

FailRead(c) ==
  /\ req[c].st = "read"
  /\ Answer(c, None, FALSE)
  /\ UNCHANGED obj

CallDelete(c) == Call(c, "delete", None) /\ UNCHANGED obj

Erase(c) ==
  /\ req[c].st = "delete"
  /\ obj' = None
  /\ req' = [req EXCEPT ![c].st = "deleted"]

(* The medium did not erase, and nobody noticed. *)
EraseInVain(c) ==
  /\ Lossy
  /\ req[c].st = "delete"
  /\ req' = [req EXCEPT ![c].st = "deleted"]
  /\ UNCHANGED obj

AckDelete(c) ==
  /\ req[c].st = "deleted"
  /\ Answer(c, None, TRUE)
  /\ UNCHANGED obj

(* Nothing is stored: a read or a Delete says so at once. *)
Missing(c, ok) ==
  /\ obj = None
  /\ req[c].st = "idle"
  /\ Answer(c, None, ok)
  /\ UNCHANGED obj

End(c) ==
  /\ req[c].st = "done"
  /\ req' = [req EXCEPT ![c] = NoRequest]
  /\ UNCHANGED obj

(* The process is killed: calls are cut off, the value stays. *)
Restart ==
  /\ req' = [c \in Clients |-> NoRequest]
  /\ UNCHANGED obj

RNext ==
  \/ \E c \in Putters: CallPut(c) \/ Write(c) \/ AckPut(c) \/ FailPut(c)
  \/ \E c \in Readers: ReadValue(c) \/ AckRead(c) \/ FailRead(c) \/ Missing(c, FALSE)
  \/ \E c \in Deleters: \/ CallDelete(c) \/ Erase(c) \/ EraseInVain(c) \/ AckDelete(c)
                        \/ \E ok \in BOOLEAN: Missing(c, ok)
  \/ \E c \in Clients: End(c)
  \/ Restart

RSpec == RInit /\ [][RNext]_rvars
===========================================================================
