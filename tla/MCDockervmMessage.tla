------------------------- MODULE MCDockervmMessage -------------------------
(***************************************************************************)
(* Instance of DockervmMessage for TLC: messages in which one or two       *)
(* fields differ from the empty message, and one with every field set.     *)
(***************************************************************************)
EXTENDS DockervmMessage

MCKeys == {<<107>>, <<>>}

a == <<97>>
Long == [i \in 1 .. 128 |-> 98]         \* its length has two groups

MaxUint32 == <<127, 127, 127, 127, 15>>
MinusOne == <<127, 127, 127, 127, 127, 127, 127, 127, 127, 1>>
Pow32 == <<0, 0, 0, 0, 16>>
Int32s == {<<5>>, <<0, 1>>, MinusOne}
Int64s == Int32s \cup {Pow32}

Maps == {[k \in {<<107>>} |-> <<>>], [k \in MCKeys |-> <<118>>]}

\* vals[f] are the values a field f may have.
One(empty, vals) ==
    {empty} \cup UNION {{[empty EXCEPT ![f] = v] : v \in vals[f]} : f \in DOMAIN vals}

Two(empty, vals) == UNION {One(m, vals) : m \in One(empty, vals)}

Some(S) == CHOOSE v \in S : TRUE

All(empty, vals) == [f \in DOMAIN empty |-> Some(vals[f])]

Pointers(ms) == {<<m>> : m \in ms}

EventVals == [Topic |-> {a}, ContractName |-> {a}, Data |-> {<<a>>, << <<>>, a>>}]

CrossContexts ==
    One(EmptyCrossContext, [CurrentDepth |-> {<<2>>, MaxUint32}, ProcessName |-> {a},
                            CrossInfo |-> {<<5>>, MinusOne}])

SysCallMessages ==
    One(EmptySysCallMessage, [Code |-> {<<1>>}, Message |-> {a}, Payload |-> Maps])

Contexts == One(EmptyTxContext, [WriteMap |-> Maps, ReadMap |-> Maps])

RequestVals ==
    [ContractName |-> {a}, ContractVersion |-> {a}, Method |-> {a}, Parameters |-> Maps,
     TxContext |-> Pointers(Contexts), ChainId |-> {a}]

ResponseVals ==
    [TxId |-> {a}, Code |-> {<<1>>}, Result |-> {a, Long}, Message |-> {a},
     WriteMap |-> Maps, ReadMap |-> Maps,
     Events |-> Pointers(One(EmptyEvent, EventVals)) \cup {<<EmptyEvent, EmptyEvent>>},
     ContractName |-> {a}, ContractVersion |-> {a}, ChainId |-> {a}]

StepVals ==
    [Type |-> {<<3>>}, StartTime |-> Int64s, StepDuration |-> Int64s, UntilDuration |-> Int64s,
     Msg |-> {a}]

MessageVals ==
    [TxId |-> {a, Long}, Type |-> {<<8>>}, CrossContext |-> Pointers(CrossContexts),
     SysCallMessage |-> Pointers(SysCallMessages),
     Request |-> Pointers(One(EmptyTxRequest, RequestVals)
                          \cup {All(EmptyTxRequest, RequestVals)}),
     Response |-> Pointers(One(EmptyTxResponse, ResponseVals)
                           \cup {All(EmptyTxResponse, ResponseVals)}),
     ChainId |-> {a},
     StepDurations |-> Pointers(One(EmptyStepDuration, StepVals))
                       \cup {<<All(EmptyStepDuration, StepVals), EmptyStepDuration>>}]

ContractResponseVals ==
    [Response |-> Pointers(One(EmptyResponse, [Status |-> Int32s, Message |-> {a}, Payload |-> {a}])),
     WriteMap |-> Maps, ReadMap |-> Maps, Events |-> Pointers(One(EmptyEvent, EventVals))]

MCMessages(k) ==
    CASE k = "DockerVMMessage" ->
            One(EmptyDockerVMMessage, MessageVals) \cup {All(EmptyDockerVMMessage, MessageVals)}
            \cup Two(EmptyDockerVMMessage, [f \in DOMAIN MessageVals |-> {Some(MessageVals[f])}])
      [] k = "CallContractRequest" ->
            Two(EmptyCallContractRequest,
                [ContractName |-> {a}, ContractMethod |-> {a, Long}, Args |-> Maps])
      [] k = "ContractResponse" -> Two(EmptyContractResponse, ContractResponseVals)

\* A varint, bytes of two bytes, eight and four bytes, and a group with a varint.
MCUnknownFields ==
    {<<120, 200, 1>>, <<122, 2, 0, 255>>, <<121, 1, 2, 3, 4, 5, 6, 7, 8>>,
     <<125, 1, 2, 3, 4>>, <<123, 8, 1, 124>>}

=============================================================================
