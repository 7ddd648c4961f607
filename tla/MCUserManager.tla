--------------------------- MODULE MCUserManager ---------------------------
(* Instances of UserManager for TLC.                                       *)
EXTENDS UserManager, TLC

CONSTANTS orig, cross

\* With CallContractDepth 1 both limits are MaxOriginalProcessNum.
MCQuota1 == [m \in Managers |-> 1]

\* MaxOriginalProcessNum = 1, CallContractDepth = 3.
MCQuota == [m \in Managers |-> IF m = orig THEN 1 ELSE 3]

UserSymmetry == Permutations(Users)

\* What TLC compares states by: an argument and a listener count while the call
\* is under way.
View ==
    <<queue, waiters, at, exists, creator, held,
      [t \in Threads |->
         IF at[t] = "out" THEN <<>>
         ELSE <<val[t], IF at[t] = "handing" THEN <<listener[t]>> ELSE <<>> >>]>>

=============================================================================
