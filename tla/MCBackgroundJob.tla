-------------------------- MODULE MCBackgroundJob --------------------------
(* Instances of BackgroundJob for TLC: job ids, calls and promotions are    *)
(* model values given by the configurations.                                *)
EXTENDS BackgroundJob
=============================================================================
