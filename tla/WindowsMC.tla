------------------------------ MODULE WindowsMC ------------------------------
(* A small instance of WindowsPlatform: a thread whose id is not that of    *)
(* its process, which the policy denies; objects of both builds, whole and  *)
(* in part, the legacy API, and no eBPF at all.                             *)
EXTENDS WindowsPlatform

MCActors == {<<"p1", "t1">>}

Machine(files, build) ==
  [detected |-> TRUE, libbpf |-> TRUE, files |-> files, build |-> build]
MCMachines ==
  {Machine({"monitor"}, "packed"), Machine({"monitor"}, "natural"),
   Machine({"process", "network"}, "packed"), Machine({"network"}, "natural"),
   [Machine({"file"}, "packed") EXCEPT !.libbpf = FALSE],
   [Machine({"file"}, "packed") EXCEPT !.detected = FALSE]}
=============================================================================
