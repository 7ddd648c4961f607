------------------------- MODULE MCContractDelivery -------------------------
(* Instances of ContractDelivery for TLC.                                  *)
EXTENDS ContractDelivery

CONSTANTS a, b, t1, t2, t3, t4

\* Two original transactions and a cross call that is too deep for contract a,
\* a cross call for contract b.
MCTxGroup == [t \in Txs |-> IF t = t3 THEN b ELSE a]

MCTxKind == [t \in Txs |-> IF t \in {t1, t2} THEN "orig" ELSE "cross"]

Setting(entries, overTcp, files, txs, faultBound) ==
    [maxEntries |-> entries, tcp |-> overTcp, found |-> files, load |-> txs,
     maxFaults |-> faultBound]

\* No cache at all; one entry for two contracts; room for both.
MCSettings ==
    {Setting(0, FALSE, <<a>>, {t1, t2}, 1),
     Setting(1, FALSE, <<a, b>>, {t1, t3}, 0),
     Setting(2, TRUE, <<>>, {t1, t2}, 1),
     Setting(2, FALSE, <<b>>, {t1, t4}, 1)}

\* Smaller ones for the liveness property.
MCSmallSettings ==
    {Setting(0, FALSE, <<a>>, {t1, t2}, 1),
     Setting(2, TRUE, <<>>, {t1, t2}, 1)}

=============================================================================
