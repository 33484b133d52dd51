---------------------------- MODULE MCCollector ----------------------------
(* Collector with three slots: two entries, one keyed by the map itself,   *)
(* already need two passes over the weak entries, and one object freed     *)
(* early leaves its slot to another.                                       *)
EXTENDS Collector
=============================================================================
