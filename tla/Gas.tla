-------------------------------- MODULE Gas --------------------------------
(***************************************************************************)
(* The gas of a transaction (gas/*.go): what a system call adds, for block *)
(* versions before and from 2312, and the limit.  An operator returns the  *)
(* new gas and whether it is an error; over the limit the gas is 0.  Data  *)
(* is represented by its size.  Sizes are lengths of data in memory, so a  *)
(* uint64 does not overflow.                                               *)
(***************************************************************************)
EXTENDS Naturals

CONSTANTS
    GasLimit,       \* protocol.GasLimit
    DefaultGas,     \* AccountConfig.DefaultGas, 0 if not set
    InvokePrice     \* GetGasPriceForInvoke

GetStateGasPrice == 1
GetBatchStateGasPrice == 1
PutStateGasPrice == 10
EmitEventGasPrice == 5
KvIteratorCreateGasPrice == 1
KvIteratorNextGasPrice == 1
KeyHistoryIterCreateGasPrice == 1
KeyHistoryIterHasNextGasPrice == 1
GetSenderAddressGasPrice == 1
defaultInvokeBaseGas == 10000
initFuncGas == 1250

Ok(g) == [gas |-> g, err |-> FALSE]

CheckGasLimit(g) == g > GasLimit

Checked(g) == IF CheckGasLimit(g) THEN [gas |-> 0, err |-> TRUE] ELSE Ok(g)

-----------------------------------------------------------------------------
(* Before 2312.                                                            *)

GetStateGasUsedLt2312(g, size) == Checked(g + size * GetStateGasPrice)

GetBatchStateGasUsedLt2312(g, size) == Checked(g + size * GetBatchStateGasPrice)

PutStateGasUsedLt2312(g, size) == Checked(g + size * PutStateGasPrice)

EmitEventGasUsedLt2312(g, size) == Checked(g + size * EmitEventGasPrice)

getInitFuncGasUsed(g) ==
    g + initFuncGas + IF DefaultGas = 0 THEN defaultInvokeBaseGas ELSE DefaultGas

InitFuncGasUsedLt2312(g) == Checked(getInitFuncGasUsed(g))

\* size is 0 unless the contract is installed or upgraded.
ContractGasUsed(g, size) == Checked(g + size * PutStateGasPrice)

CreateKeyHistoryIterGasUsedLt2312(g) == Checked(g + 10 * KeyHistoryIterCreateGasPrice)

ConsumeKeyHistoryIterGasUsedLt2312(g) == Checked(g + 10 * KeyHistoryIterHasNextGasPrice)

CreateKvIteratorGasUsedLt2312(g) == Checked(g + 10 * KvIteratorCreateGasPrice)

ConsumeKvIteratorGasUsedLt2312(g) == Checked(g + 10 * KvIteratorNextGasPrice)

-----------------------------------------------------------------------------
(* From 2312.                                                              *)

PutStateGasUsed2312(g, size) == Ok(g)

GetStateGasUsed2312(g, size) == Ok(g)

GetBatchStateGasUsed2312(g, size) == Ok(g)

EmitEventGasUsed2312(g, size) == Ok(g)

CreateKeyHistoryIterGasUsed2312(g, size) == Checked(g + size * InvokePrice)

CreateKvIteratorGasUsed2312(g, size) == Checked(g + size * InvokePrice)

ConsumeKeyHistoryIterGasUsed2312(g) == Ok(g)

ConsumeKvIteratorGasUsed2312(g) == Ok(g)

ConsumeKvIteratorNextGasUsed2312(g, size) == Ok(g)

ConsumeKeyHistoryIterNextGasUsed2312(g, size) == Ok(g)

CallContractGasUsed2312(g, size) == Checked(g + size * InvokePrice)

-----------------------------------------------------------------------------
(* For the block version of the transaction.                               *)

\* Mutant: the limit is not checked.
GetSenderAddressGasUsed_NoLimit(g) == Ok(g + 10 * GetSenderAddressGasPrice)

GetSenderAddressGasUsed(g) == Checked(g + 10 * GetSenderAddressGasPrice)

PutStateGasUsed(lt2312, g, size) ==
    IF lt2312 THEN PutStateGasUsedLt2312(g, size) ELSE PutStateGasUsed2312(g, size)

GetStateGasUsed(lt2312, g, size) ==
    IF lt2312 THEN GetStateGasUsedLt2312(g, size) ELSE GetStateGasUsed2312(g, size)

GetBatchStateGasUsed(lt2312, g, size) ==
    IF lt2312 THEN GetBatchStateGasUsedLt2312(g, size)
    ELSE GetBatchStateGasUsed2312(g, size)

EmitEventGasUsed(lt2312, g, size) ==
    IF lt2312 THEN EmitEventGasUsedLt2312(g, size) ELSE EmitEventGasUsed2312(g, size)

CreateKeyHistoryIterGasUsed(lt2312, g, size) ==
    IF lt2312 THEN CreateKeyHistoryIterGasUsedLt2312(g)
    ELSE CreateKeyHistoryIterGasUsed2312(g, size)

ConsumeKeyHistoryIterGasUsed(lt2312, g) ==
    IF lt2312 THEN ConsumeKeyHistoryIterGasUsedLt2312(g)
    ELSE ConsumeKeyHistoryIterGasUsed2312(g)

CreateKvIteratorGasUsed(lt2312, g, size) ==
    IF lt2312 THEN CreateKvIteratorGasUsedLt2312(g)
    ELSE CreateKvIteratorGasUsed2312(g, size)

ConsumeKvIteratorGasUsed(lt2312, g) ==
    IF lt2312 THEN ConsumeKvIteratorGasUsedLt2312(g) ELSE ConsumeKvIteratorGasUsed2312(g)

CallContractGasUsed(lt2312, g, size) ==
    IF lt2312 THEN Ok(g) ELSE CallContractGasUsed2312(g, size)

=============================================================================
