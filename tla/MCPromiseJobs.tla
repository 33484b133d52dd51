--------------------------- MODULE MCPromiseJobs ---------------------------
(* PromiseJobs on small instances: three promises are what one adoption    *)
(* needs, the adopting, the adopted and the one its `then` derives, and    *)
(* four pairs are theirs and the second pair of the adopting one.          *)
EXTENDS PromiseJobs
=============================================================================
