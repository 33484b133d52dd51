-------------------------- MODULE MCAsyncGenerator --------------------------
(* AsyncGenerator with five requests, of which some wait when an accessor  *)
(* makes another, and three awaits.                                        *)
EXTENDS AsyncGenerator
=============================================================================
