---------------------------- MODULE MCNodeSearch ----------------------------
(* Three nodes: a search of many nodes asks for one and so takes two of    *)
(* them at a time.  Symmetry would not be sound with the liveness property *)
(* and is not used.                                                        *)
EXTENDS NodeSearch

=============================================================================
