-------------------------- MODULE MCSSHConnection --------------------------
(* Instances of SSHConnection for TLC.  Uses are interchangeable: the symmetry *)
(* may be used by the runs that check invariants only.                         *)
EXTENDS SSHConnection, TLC

UseSymmetry == Permutations(Use)
=============================================================================
