------------------------------ MODULE SysCalls ------------------------------
(***************************************************************************)
(* What an Invoke does with the messages of its sandbox                    *)
(* (runtime_handler.go and the loop of runtime.go): the system calls, the  *)
(* cross-contract calls, which are Invokes of their own on the same        *)
(* context, and the response.  Kept are the gas, the code of the answer,   *)
(* the iterators, the events, the type of the transaction and its          *)
(* statistics; keys, values and the read and write sets, which are the     *)
(* context's, are represented by their sizes.                              *)
(***************************************************************************)
EXTENDS Gas, TxDuration, FiniteSetsExt, SequencesExt

CONSTANTS
    Versions,       \* "2300", "2310", "2312"
    StartGases,     \* gasUsed when a transaction starts
    MaxDepth,       \* bound on the depth of calls
    MaxCalls        \* bound on the system calls

VARIABLES
    version,        \* GetBlockVersion
    frames,         \* the Invokes that run, the innermost one last
    next,           \* how many Invokes there were
    iterators,      \* GetIterHandle: what an index stands for
    result,         \* what the last Invoke returned
    resp,           \* code of the last answer
    calls,
    callers, own    \* the caller and the calls of an Invoke, for the properties

vars == <<version, frames, next, iterators, result, resp, calls, callers, own,
          durationVars>>

lt2312 == version \in {"2300", "2310"}

Sizes == {0, 10}

Frame(n, g) ==
    [node |-> n, gas |-> g, txType |-> "normal", event |-> <<>>, rowIndex |-> 0,
     due |-> {}, iterated |-> FALSE]

Init ==
    /\ DurationInit
    /\ version \in Versions
    /\ frames = <<>> /\ next = 1
    /\ iterators = <<>> /\ result = <<>> /\ resp = "none" /\ calls = 0
    /\ callers = [n \in Nodes |-> 0] /\ own = [n \in Nodes |-> 0]

top == Last(frames)

-----------------------------------------------------------------------------
(* Invoke, and its end.                                                    *)

\* InitFuncGasUsed and ContractGasUsed.
StartGas(g, size) ==
    LET r == InitFuncGasUsedLt2312(g) IN
    IF ~lt2312 THEN Ok(g) ELSE IF r.err THEN r ELSE ContractGasUsed(r.gas, size)

errorResult(g) == [code |-> 1, gas |-> g, event |-> <<>>, txType |-> "normal",
                   due |-> {}, iterated |-> FALSE]

\* An Invoke on top of the others, with the gas it starts with.
Begin(others, g, by) ==
    /\ next \in Nodes
    /\ frames' = Append(others, Frame(next, g))
    /\ AddTxDuration(next)
    /\ callers' = [callers EXCEPT ![next] = by]
    /\ next' = next + 1

\* A transaction of the block; it may be executed a second time.
Invoke ==
    /\ frames = <<>>
    /\ \E g \in StartGases, size \in Sizes :
        IF StartGas(g, size).err
        THEN /\ result' = errorResult(0)
             /\ UNCHANGED <<frames, next, callers, durationVars>>
        ELSE Begin(<<>>, StartGas(g, size).gas, 0) /\ result' = <<>>
    /\ UNCHANGED <<version, iterators, resp, calls, own>>

Return(r) ==
    /\ frames' = Front(frames)
    /\ result' = r
    /\ FinishTx(top.node)
    /\ UNCHANGED <<version, next, iterators, resp, calls, callers, own>>

Waiting == frames # <<>> /\ result = <<>>

\* ERROR of the engine, an unknown message, or timeoutC.
InvokeFails ==
    /\ Waiting
    /\ Return(errorResult(top.gas))

-----------------------------------------------------------------------------
(* An answer to the sandbox.                                               *)

Asked == Waiting /\ calls < MaxCalls

Answer(f, code) ==
    /\ frames' = [frames EXCEPT ![Len(frames)] = f]
    /\ resp' = code
    /\ calls' = calls + 1
    /\ own' = [own EXCEPT ![f.node] = @ + 1]
    /\ EndSysCall(f.node)
    /\ UNCHANGED <<version, next, result, callers>>

Fails(g) == Answer([top EXCEPT !.gas = g], "FAIL") /\ UNCHANGED iterators

\* OK with the gas that was used, or FAIL over the limit.
Charged(r) ==
    /\ Answer([top EXCEPT !.gas = r.gas], IF r.err THEN "FAIL" ELSE "OK")
    /\ UNCHANGED iterators

\* No contract name, or an error of the context.
handleGetStateRequest ==
    /\ Asked
    /\ \/ Fails(top.gas)
       \/ \E size \in Sizes : Charged(GetStateGasUsed(lt2312, top.gas, size))

\* An error of GetKeys leaves the code at 0.
handleGetBatchStateRequest ==
    /\ Asked
    /\ version # "2300"
    /\ \/ Fails(top.gas)
       \/ Charged(Ok(top.gas))
       \/ \E size \in Sizes : Charged(GetBatchStateGasUsed(lt2312, top.gas, size))

\* Before 2310 there is no answer; the call is counted.
GetBatchStateForbidden ==
    /\ Asked
    /\ version = "2300"
    /\ Answer(top, "none")
    /\ UNCHANGED iterators

handleGetSenderAddress ==
    /\ Asked
    /\ LET r == GetSenderAddressGasUsed(top.gas) IN
       Charged(r) \/ (~r.err /\ Fails(r.gas))

-----------------------------------------------------------------------------
(* The write map: n entries of one byte, after which it may have one that  *)
(* is refused; a map that cannot be read is refused at once.               *)

WriteMaps == [n : 0 .. 1, bad : BOOLEAN]

mergeSimContextWriteMap(g, m) ==
    LET r == PutStateGasUsed(lt2312, g, m.n)
    IN IF r.err THEN r ELSE [gas |-> r.gas, err |-> m.bad]

-----------------------------------------------------------------------------
(* Iterators.                                                              *)

Iterates == [top EXCEPT !.txType = "iterator", !.iterated = TRUE]

\* The index counts the iterators of this Invoke; the handles are the context's.
NewIterator(f, kind) ==
    /\ Answer([f EXCEPT !.rowIndex = @ + 1], "OK")
    /\ iterators' = [i \in (DOMAIN iterators) \cup {f.rowIndex + 1} |->
                        IF i = f.rowIndex + 1 THEN kind ELSE iterators[i]]

FailsAt(g) == Answer([Iterates EXCEPT !.gas = g], "FAIL") /\ UNCHANGED iterators

\* A write map that cannot be read or merged, and a bad key, are charged, and
\* then the iterator is created all the same.  A function name that is not known
\* gives an index without an iterator.
handleCreateKvIterator ==
    /\ Asked
    /\ \E badKey \in BOOLEAN, m \in WriteMaps,
          func \in {"create", "fails", "unknown"}, size \in Sizes :
        LET Create(g) == CreateKvIteratorGasUsed(lt2312, g, size)
            merged == mergeSimContextWriteMap(top.gas, m)
            r1 == IF merged.err THEN Create(merged.gas) ELSE merged
            r2 == IF r1.err \/ ~badKey THEN r1 ELSE Create(r1.gas)
            r3 == IF r2.err \/ func = "unknown" THEN r2 ELSE Create(r2.gas)
        IN IF r3.err \/ func = "fails" THEN FailsAt(r3.gas)
           ELSE NewIterator([Iterates EXCEPT !.gas = r3.gas],
                            IF func = "unknown" THEN "nil" ELSE "kv")

\* Here every error is answered with FAIL.
handleCreateKeyHistoryIterator ==
    /\ Asked
    /\ \E fails \in BOOLEAN, m \in WriteMaps, size \in Sizes :
        LET r1 == CreateKeyHistoryIterGasUsed(lt2312, top.gas, size)
            r2 == IF r1.err THEN r1 ELSE mergeSimContextWriteMap(r1.gas, m)
        IN IF r2.err \/ fails THEN FailsAt(r2.gas)
           ELSE NewIterator([Iterates EXCEPT !.gas = r2.gas], "history")

Consumed(r) ==
    /\ Answer([Iterates EXCEPT !.gas = r.gas], IF r.err THEN "FAIL" ELSE "OK")
    /\ UNCHANGED iterators

Kind(i) == IF i \in DOMAIN iterators THEN iterators[i] ELSE "none"

\* kvIteratorHasNext and kvIteratorClose.
kvIteratorHasNext(i) ==
    /\ Kind(i) = "kv"
    /\ Consumed(ConsumeKvIteratorGasUsed(lt2312, top.gas))

kvIteratorNext(i) ==
    LET r == IF lt2312 THEN ConsumeKvIteratorGasUsedLt2312(top.gas) ELSE Ok(top.gas) IN
    /\ Kind(i) = "kv"
    /\ \/ FailsAt(r.gas)
       \/ ~r.err /\ Consumed(IF lt2312 THEN r ELSE ConsumeKvIteratorNextGasUsed2312(r.gas, 0))

\* An index that cannot be read, is not known or is not a kv iterator's is
\* charged, and answered without a code; an unknown function with FAIL.
handleConsumeKvIterator ==
    /\ Asked
    /\ \E i \in 1 .. top.rowIndex + 1 :
        \/ Kind(i) # "kv" /\ Consumed(ConsumeKvIteratorGasUsed(lt2312, top.gas))
        \/ kvIteratorHasNext(i) \/ kvIteratorNext(i)
        \/ Kind(i) = "kv" /\ FailsAt(top.gas)

keyHistoryIterHasNext(i) ==
    /\ Kind(i) = "history"
    /\ Consumed(ConsumeKeyHistoryIterGasUsed(lt2312, top.gas))

keyHistoryIterNext(i) ==
    LET r == IF lt2312 THEN ConsumeKeyHistoryIterGasUsedLt2312(top.gas) ELSE Ok(top.gas) IN
    /\ Kind(i) = "history"
    /\ \/ FailsAt(r.gas)
       \/ ~r.err /\ Consumed(IF lt2312 THEN r ELSE ConsumeKeyHistoryIterNextGasUsed2312(r.gas, 0))

\* The errors are answered with currentGasUsed, which is 0 from 2312 on.
handleConsumeKeyHistoryIterator ==
    LET current == IF lt2312 THEN ConsumeKvIteratorGasUsedLt2312(top.gas) ELSE Ok(0) IN
    /\ Asked
    /\ \E i \in 1 .. top.rowIndex + 1 :
        \/ FailsAt(current.gas)
        \/ ~current.err /\ (keyHistoryIterHasNext(i) \/ keyHistoryIterNext(i))

-----------------------------------------------------------------------------
(* Events: a sequence of names, each of two bytes.                         *)

\* All are charged one after the other; the ones before an error are kept.
EmitEvents(g, event, es) ==
    LET Charge(k) == EmitEventGasUsed(lt2312, g, 2 * k)
        bad == {k \in 1 .. Len(es) : Charge(k).err}
    IN IF bad = {} THEN [r |-> Charge(Len(es)), event |-> event \o es]
       ELSE [r |-> Charge(Min(bad)), event |-> event \o SubSeq(es, 1, Min(bad) - 1)]

-----------------------------------------------------------------------------
(* Cross-contract calls.                                                   *)

\* A bad request, too deep, no such contract, or not enough gas for the call or
\* for the Invoke in it.
CallRefused ==
    /\ Asked
    /\ \/ Fails(top.gas)
       \/ \E size \in Sizes : LET r == CallContractGasUsed(lt2312, top.gas, size)
                              IN (r.err \/ StartGas(r.gas, 0).err) /\ Fails(r.gas)

\* txSimContext.CallContract.
CallContract ==
    /\ Waiting
    /\ Len(frames) < MaxDepth
    /\ \E size \in Sizes :
        LET r == CallContractGasUsed(lt2312, top.gas, size) IN
        /\ ~r.err
        /\ ~StartGas(r.gas, 0).err
        /\ Begin([frames EXCEPT ![Len(frames)].gas = r.gas],
                 StartGas(r.gas, 0).gas, top.node)
    /\ UNCHANGED <<version, iterators, result, resp, calls, own>>

\* Mutant: the type of the last call is the type of the transaction.
CrossType_Last(txType, crossTxType) == crossTxType

CrossType(txType, crossTxType) ==
    IF crossTxType # "normal" THEN crossTxType ELSE txType

\* The end of handlerCallContract.
CallReturns ==
    LET emitted == EmitEvents(result.gas, top.event, result.event)
        f == [top EXCEPT !.txType = CrossType(@, result.txType)]
    IN /\ frames # <<>>
       /\ result # <<>>
       /\ result' = <<>>
       /\ IF result.code # 0
          THEN frames' = [frames EXCEPT ![Len(frames)] = f] /\ resp' = "FAIL"
          ELSE /\ frames' = [frames EXCEPT ![Len(frames)] =
                    [f EXCEPT !.gas = emitted.r.gas, !.event = emitted.event,
                              !.due = IF emitted.r.err THEN @ ELSE @ \cup result.due,
                              !.iterated = @ \/ result.iterated]]
               /\ resp' = IF emitted.r.err THEN "FAIL" ELSE "OK"
       /\ UNCHANGED <<version, next, iterators, calls, callers, own, durationVars>>

-----------------------------------------------------------------------------
(* TX_RESPONSE.                                                            *)

\* Mutant: the result has the events of the response only.
Success_OwnEvents(g, es) ==
    [code |-> 0, gas |-> g, event |-> es, txType |-> top.txType,
     due |-> top.due \cup ToSet(es), iterated |-> top.iterated]

Success(g, es) ==
    [code |-> 0, gas |-> g, event |-> top.event \o es, txType |-> top.txType,
     due |-> top.due \cup ToSet(es), iterated |-> top.iterated]

\* The contract failed, a map cannot be merged (without gas when it is the read
\* map), the limit is exceeded, or it succeeds.
handleTxResponse ==
    /\ Waiting
    /\ \/ Return(errorResult(top.gas))
       \/ Return(errorResult(0))
       \/ \E m \in WriteMaps, es \in {<<>>, <<top.node>>} :
            LET merged == mergeSimContextWriteMap(top.gas, m)
                emitted == EmitEvents(merged.gas, top.event, es)
            IN Return(IF merged.err THEN errorResult(merged.gas)
                      ELSE IF emitted.r.err THEN errorResult(emitted.r.gas)
                      ELSE Success(emitted.r.gas, es))

-----------------------------------------------------------------------------
Next ==
    \/ Invoke \/ InvokeFails
    \/ handleGetStateRequest \/ handleGetBatchStateRequest \/ GetBatchStateForbidden
    \/ handleGetSenderAddress
    \/ handleCreateKvIterator \/ handleConsumeKvIterator
    \/ handleCreateKeyHistoryIterator \/ handleConsumeKeyHistoryIterator
    \/ CallRefused \/ CallContract \/ CallReturns
    \/ handleTxResponse

Spec == Init /\ [][Next]_vars

-----------------------------------------------------------------------------
(* Properties.                                                             *)

\* No Invoke goes on, and none returns, with more gas than the limit, whatever
\* its calls, its cross-contract calls and their events cost.
GasWithinLimit ==
    /\ \A k \in DOMAIN frames : frames[k].gas <= GasLimit
    /\ result # <<>> => result.gas <= GasLimit

\* A successful result is of type iterator when the Invoke, or a cross-contract
\* call in it that succeeded, at any depth, used an iterator, whatever calls of
\* type normal came after it.
IteratorTypeKept ==
    result # <<>> /\ result.code = 0 /\ result.iterated => result.txType = "iterator"

\* A successful result has every event of its own and of the cross-contract
\* calls that were answered with OK, and each once.
EventsDelivered ==
    result # <<>> /\ result.code = 0 =>
        result.due \subseteq ToSet(result.event) /\ IsInjective(result.event)

\* A cross-contract call is entered under the Invoke that made it, although the
\* statistics only know the transaction id and which Invokes have ended, and
\* also when the transaction is executed again.
CallerFound ==
    \A n \in Nodes : callers[n] # 0 => n \in ToSet(CrossCallList[callers[n]])

\* Until it ends itself the root counts its own calls and those of the
\* cross-contract calls that have ended.
RootCounts ==
    root \notin {0} \cup Sealed =>
        SysCallCnt[root] = own[root] + MapThenSumSet(LAMBDA n : own[n], Sealed)

\* An answer of OK never takes back gas: what is over the limit ends in FAIL.
GasKept ==
    [][Len(frames') = Len(frames) /\ frames # <<>> /\ resp' = "OK" /\ calls' = calls + 1
       => Last(frames').gas >= top.gas]_vars

=============================================================================
