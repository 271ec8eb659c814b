------------------------------ MODULE SpanLedger ------------------------------
(***************************************************************************)
(* What the span pipeline promises to the code it instruments, with every  *)
(* buffer, lock and thread left out: a span is opened once, closed once,   *)
(* and then leaves the process exactly once, either delivered to the       *)
(* consumer or dropped because a bound was reached.                        *)
(***************************************************************************)
CONSTANT Spans

VARIABLE status

\* unborn, open, closed, delivered or dropped.
Init == status = [s \in Spans |-> "unborn"]

Move(s, from, to) == /\ status[s] = from
                     /\ status' = [status EXCEPT ![s] = to]

Open(s)    == Move(s, "unborn", "open")
Refuse(s)  == Move(s, "unborn", "dropped")
Close(s)   == Move(s, "open", "closed")
Deliver(s) == Move(s, "closed", "delivered")
Evict(s)   == Move(s, "closed", "dropped")

Next == \E s \in Spans : \/ Open(s)
                         \/ Refuse(s)
                         \/ Close(s)
                         \/ Deliver(s)
                         \/ Evict(s)

Spec == Init /\ [][Next]_status
===============================================================================
