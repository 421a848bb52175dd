--------------------------- MODULE MCEventHandlers --------------------------
(* Small clusters for the handlers: the sets are given by each cfg.        *)
EXTENDS EventHandlers, TLC

CONSTANTS n1, n2, p1, p2, port

OnePort == {port}

(* Only p1 asks for the port. *)
OneUser == [k \in PodKeys |-> IF k = p1 THEN {port} ELSE {}]

NodesAlike == Permutations(Names)

=============================================================================
