--------------------------- MODULE MCVolumeBinder ---------------------------
(* Two nodes, each with a local volume, one of them large; a volume that   *)
(* may be provisioned on either.  In the worlds two pods compete for the   *)
(* volumes, share a claim, or one has a claim of each kind.                *)
EXTENDS VolumeBinder, TLC

CONSTANTS p1, p2, n1, n2, ca, cb, cc, v1, v2, v3

On(n) == {[expressions |-> {[key |-> "host", op |-> "In", values |-> {n}]}, fields |-> {}]}

MCVolumeSpec(v) ==
    [size |-> IF v = v2 THEN 2 ELSE 1, class |-> IF v = v3 THEN "fast" ELSE "local",
     mode |-> "fs", access |-> {"once"}, labels |-> <<>>, deleting |-> FALSE,
     affinity |-> IF v = v1 THEN On(n1) ELSE On(n2)]

MCClaimSpec(x) ==
    [size |-> 1, class |-> IF x = cc THEN "fast" ELSE "local",
     mode |-> "fs", access |-> {"once"}, selector |-> {}]

MCClassSpec(k) ==
    [delayed |-> TRUE, provisioner |-> (k = "fast"), topologies |-> {}]

MCNodeLabels(n) == [host |-> n]

World(up, uq, pre) == [uses |-> (p1 :> up @@ p2 :> uq), existing |-> {v1, v2}, prebound |-> pre]

MCWorlds ==
    {World({ca}, {cb}, <<>>), World({ca}, {ca}, <<>>), World({ca}, {cb}, v1 :> cb),
     World({ca, cc}, {}, <<>>), World({cc}, {ca}, <<>>), World({cc}, {cc}, <<>>)}
=============================================================================
