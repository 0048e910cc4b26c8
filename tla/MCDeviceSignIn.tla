---------------------------- MODULE MCDeviceSignIn ----------------------------
(* DeviceSignIn on small instances. *)
EXTENDS DeviceSignIn

\* Families, secrets and sessions are random: nothing tells two unused ones apart.
Symmetry == Permutations(Family) \cup Permutations(Secret) \cup Permutations(Session)
================================================================================
