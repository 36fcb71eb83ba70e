------------------------------ MODULE MCDelivery ------------------------------
(* Values of the constants of Delivery for TLC. *)
EXTENDS Delivery, TLC

\* A run fails after its upload or in the push loop, and is cancelled while it
\* waits for its group or in the push loop; never while its build runs.
Failing   == {"start", "fetch"}
Stoppable == {"queued", "fetch"}
\* A run that is lost while it waits leaves its build behind.
Waiting   == {"poll"}
Nowhere   == {}
=============================================================================
