----------------------------- MODULE MCAdmission -----------------------------
(* Four kinds of pods, chosen so that every pair of kinds meets in a port, *)
(* a disk, a term or the room, on nodes in one zone, two zones or none.    *)
EXTENDS Admission, TLC

CONSTANTS p1, p2, p3, n1, n2

Cpu(c) == [cpu |-> c, gpu |-> 0]
Gpu    == [cpu |-> 0, gpu |-> 1]

Plain == [ns |-> "x", app |-> "a", nodeName |-> Nil, tolerates |-> {}, selector |-> {},
          required |-> Nil, containers |-> <<Cpu(1)>>, inits |-> <<>>, overhead |-> Cpu(0),
          ports |-> {}, disks |-> {}, affinity |-> {}, anti |-> {}]

Near(apps) == [namespaces |-> {}, apps |-> apps, key |-> "zone"]
Disk(ro)   == [kind |-> "gce", id |-> "d", parts |-> {"all"}, ro |-> ro]

Web    == [Plain EXCEPT !.anti = {Near({"b"})}, !.inits = <<Cpu(2)>>]
Store  == [Plain EXCEPT !.app = "b", !.ports = {[ip |-> NoIP, port |-> 80]}, !.disks = {Disk(FALSE)}]
Peer   == [Plain EXCEPT !.app = "b", !.affinity = {Near({"b"})}, !.containers = <<Gpu, Cpu(1)>>,
                        !.ports = {[ip |-> "local", port |-> 80]}]
Reader == [Plain EXCEPT !.disks = {Disk(TRUE)}, !.affinity = {[Near({"b"}) EXCEPT !.namespaces = {"x"}]},
                        !.ns = "y", !.containers = <<Cpu(0)>>, !.required = {{<<"zone", "z1">>}},
                        !.tolerates = {[key |-> "busy", effect |-> "NoSchedule"]}]

MCPodShapes == {Web, Store, Peer, Reader}

Zone(z) == [ready |-> "True", unschedulable |-> FALSE, taints |-> {}, labels |-> [zone |-> z],
            allocatable |-> [cpu |-> 3, gpu |-> 1], allowedPods |-> 2, reserved |-> {}]

Named(n, rec) == [name |-> n] @@ rec

MCNodeShapes(n) ==
    {Named(n, rec) : rec \in
        IF n = n1 THEN {Zone("z1")}
        ELSE {Zone("z1"),
              [Zone("z2") EXCEPT !.reserved = {[amount |-> [cpu |-> 1], expired |-> FALSE]}],
              [Zone("z1") EXCEPT !.labels = <<>>,
                                 !.taints = {[key |-> "busy", effect |-> "NoSchedule"]}]}}

Symmetry == Permutations({p1, p2, p3})
=============================================================================
