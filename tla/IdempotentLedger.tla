--------------------------- MODULE IdempotentLedger ---------------------------
(***************************************************************************)
(* What the operation ledger promises its clients, without claims, epochs, *)
(* incarnations, engine writes or threads: an operation is under way at    *)
(* most once at a time, comes to one outcome, and a client that is told of *)
(* a success is told the truth, for good.  An attempt that changed nothing *)
(* durable in the ledger may be taken back and made again.                 *)
(***************************************************************************)
CONSTANTS Ops, Clients, NoOp

VARIABLES
  outcome,  \* what has become of each operation
  told      \* the operation whose success a client was told of

vars == <<outcome, told>>

Outcomes == {"unused", "running", "applied", "refused", "abandoned", "resolved"}
Successes == {"applied", "resolved"}

Init ==
  /\ outcome = [o \in Ops |-> "unused"]
  /\ told = [c \in Clients |-> NoOp]

Becomes(o, from, to) ==
  /\ outcome[o] = from
  /\ outcome' = [outcome EXCEPT ![o] = to]
  /\ UNCHANGED told

Attempt(o)  == Becomes(o, "unused", "running")
TakeBack(o) == Becomes(o, "running", "unused")
Apply(o)    == Becomes(o, "running", "applied")
Refuse(o)   == Becomes(o, "running", "refused")
Abandon(o)  == Becomes(o, "running", "abandoned")
Resolve(o)  == Becomes(o, "abandoned", "resolved")

Tell(c, o) ==
  /\ told[c] = NoOp
  /\ outcome[o] \in Successes
  /\ told' = [told EXCEPT ![c] = o]
  /\ UNCHANGED outcome

Next ==
  \E o \in Ops :
    \/ Attempt(o) \/ TakeBack(o) \/ Apply(o) \/ Refuse(o) \/ Abandon(o) \/ Resolve(o)
    \/ \E c \in Clients : Tell(c, o)

Spec == Init /\ [][Next]_vars

==============================================================================
