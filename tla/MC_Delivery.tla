----------------------------- MODULE MC_Delivery -----------------------------
(* Constants of the run of Delivery. *)
EXTENDS Delivery

\* No header that parses, one that asks for no wait, and one beyond the cap.
RetryAfterValues == {-1, 0, 5}
==============================================================================
