------------------------------- MODULE MCCni --------------------------------
(* One node with a few containers.  They are interchangeable.               *)
EXTENDS Cni, TLC

Symmetry == Permutations(Container)
=============================================================================
