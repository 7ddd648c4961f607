---------------------------- MODULE MCInvocation ----------------------------
(* Instances of Invocation for TLC.                                        *)
EXTENDS Invocation, TLC

StreamSymmetry == Permutations(Streams)

=============================================================================
