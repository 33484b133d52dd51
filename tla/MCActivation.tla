---------------------------- MODULE MCActivation ----------------------------
(* Activation on small instances: a script, a generator and what calls it  *)
(* or what it calls, in two realms.                                        *)
EXTENDS Activation
CONSTANTS home, other
Everything == FeatureNames
=============================================================================
