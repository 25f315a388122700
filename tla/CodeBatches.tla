---------------------------- MODULE CodeBatches ----------------------------
(***************************************************************************)
(* What code memory promises to the runtime (CodeMemory.hpp): a batch of   *)
(* address space is reserved, then published once as a whole.  An attempt  *)
(* that fails leaves the batch reserved, so that it can be retried; what   *)
(* the processor fetches from a published batch never changes as long as   *)
(* some ExecutableCode handle keeps it.                                    *)
(***************************************************************************)
CONSTANTS Batches, Payloads

VARIABLES status,    \* where each batch is in its life
          fetched    \* the payloads the processor fetches from each batch

vars == <<status, fetched>>

Init ==
  /\ status = [b \in Batches |-> "free"]
  /\ fetched = [b \in Batches |-> {}]

Reserve(b) ==
  /\ status[b] = "free"
  /\ status' = [status EXCEPT ![b] = "reserved"]
  /\ UNCHANGED fetched

\* Publication is all-or-nothing: the batch and its bytes become visible together.
Publish(b, payload) ==
  /\ status[b] = "reserved"
  /\ status' = [status EXCEPT ![b] = "published"]
  /\ fetched' = [fetched EXCEPT ![b] = {payload}]

\* A reservation is abandoned, or the last handle of a published batch is dropped.
Retire(b) ==
  /\ status[b] \in {"reserved", "published"}
  /\ status' = [status EXCEPT ![b] = "retired"]
  /\ fetched' = [fetched EXCEPT ![b] = {}]

Next ==
  \E b \in Batches :
     \/ Reserve(b)
     \/ \E payload \in Payloads : Publish(b, payload)
     \/ Retire(b)

Spec == Init /\ [][Next]_vars
=============================================================================
