-------------------------- MODULE DockervmMessage --------------------------
(***************************************************************************)
(* The messages of pb/protogo/dockervm_message.pb.go: for each one Size,   *)
(* Marshal and Unmarshal, and a peer that sends them to another.  The copy *)
(* of the file in vm_mgr, with which the engine reads and writes, has the  *)
(* same code.                                                              *)
(*                                                                         *)
(* A pointer is a sequence of at most one message, a map a function.       *)
(***************************************************************************)
EXTENDS ProtoWire

CONSTANTS
    Messages(_),    \* the messages of a kind that are sent
    Keys,           \* the keys of their maps
    UnknownFields   \* fields that only a later version of the protocol has

VARIABLES
    kind, msg,      \* the message that is sent
    order,          \* the order in which its maps are ranged over
    newer,          \* an unknown field and its place among the fields, if any
    got             \* what was read, if anything

vars == <<kind, msg, order, newer, got>>

\* The encodings of messages inside a message.
Each(Marshal(_), ms) == [k \in 1 .. Len(ms) |-> FlattenSeq(Marshal(ms[k]))]

Sizes(Size(_), ms) == [k \in 1 .. Len(ms) |-> Size(ms[k])]

Lengths(ss) == [k \in 1 .. Len(ss) |-> Len(ss[k])]

\* Unmarshal of the bytes from index i on into a message of a kind.
RECURSIVE Unmarshal(_, _, _, _)

\* A message inside a message.
Inner(k, m, bs) == Unmarshal(k, m, bs, 1)

\* The message a pointer field is read into.
Pointed(p, empty) == IF p = <<>> THEN empty ELSE Head(p)

-----------------------------------------------------------------------------
(* SysCallMessage                                                          *)

EmptySysCallMessage == [Code |-> <<>>, Message |-> <<>>, Payload |-> <<>>]

MarshalSysCallMessage(m) ==
    PutVarint(1, m.Code) \o PutString(2, m.Message) \o PutMap(3, m.Payload, order)

SizeSysCallMessage(m) ==
    SizeVarint(m.Code) + SizeString(m.Message) + SizeMap(m.Payload)

SetPayload(m, f) == GetMap(f, m.Payload, LAMBDA x : [m EXCEPT !.Payload = x])

SetSysCallMessage(m, f) ==
    CASE f.num = 1 -> GetVarint(f, LAMBDA d : [m EXCEPT !.Code = Int32(d)])
      [] f.num = 2 -> GetBytes(f, LAMBDA s : [m EXCEPT !.Message = s])
      [] f.num = 3 -> SetPayload(m, f)
      [] OTHER -> SkipField(f, m)

-----------------------------------------------------------------------------
(* CrossContext                                                            *)

EmptyCrossContext == [CurrentDepth |-> <<>>, ProcessName |-> <<>>, CrossInfo |-> <<>>]

MarshalCrossContext(m) ==
    PutVarint(1, m.CurrentDepth) \o PutString(2, m.ProcessName) \o PutVarint(3, m.CrossInfo)

SizeCrossContext(m) ==
    SizeVarint(m.CurrentDepth) + SizeString(m.ProcessName) + SizeVarint(m.CrossInfo)

SetCrossContext(m, f) ==
    CASE f.num = 1 -> GetVarint(f, LAMBDA d : [m EXCEPT !.CurrentDepth = Uint32(d)])
      [] f.num = 2 -> GetBytes(f, LAMBDA s : [m EXCEPT !.ProcessName = s])
      [] f.num = 3 -> GetVarint(f, LAMBDA d : [m EXCEPT !.CrossInfo = Uint64(d)])
      [] OTHER -> SkipField(f, m)

-----------------------------------------------------------------------------
(* StepDuration                                                            *)

EmptyStepDuration ==
    [Type |-> <<>>, StartTime |-> <<>>, StepDuration |-> <<>>, UntilDuration |-> <<>>,
     Msg |-> <<>>]

MarshalStepDuration(m) ==
    PutVarint(1, m.Type) \o PutVarint(2, m.StartTime) \o PutVarint(3, m.StepDuration)
    \o PutVarint(4, m.UntilDuration) \o PutString(5, m.Msg)

SizeStepDuration(m) ==
    SizeVarint(m.Type) + SizeVarint(m.StartTime) + SizeVarint(m.StepDuration)
    + SizeVarint(m.UntilDuration) + SizeString(m.Msg)

\* Mutant: a duration has 32 bits.
SetStepDuration_Int32(m, f) ==
    CASE f.num = 1 -> GetVarint(f, LAMBDA d : [m EXCEPT !.Type = Int32(d)])
      [] f.num = 2 -> GetVarint(f, LAMBDA d : [m EXCEPT !.StartTime = Uint64(d)])
      [] f.num = 3 -> GetVarint(f, LAMBDA d : [m EXCEPT !.StepDuration = Int32(d)])
      [] f.num = 4 -> GetVarint(f, LAMBDA d : [m EXCEPT !.UntilDuration = Uint64(d)])
      [] f.num = 5 -> GetBytes(f, LAMBDA s : [m EXCEPT !.Msg = s])
      [] OTHER -> SkipField(f, m)

SetStepDuration(m, f) ==
    CASE f.num = 1 -> GetVarint(f, LAMBDA d : [m EXCEPT !.Type = Int32(d)])
      [] f.num = 2 -> GetVarint(f, LAMBDA d : [m EXCEPT !.StartTime = Uint64(d)])
      [] f.num = 3 -> GetVarint(f, LAMBDA d : [m EXCEPT !.StepDuration = Uint64(d)])
      [] f.num = 4 -> GetVarint(f, LAMBDA d : [m EXCEPT !.UntilDuration = Uint64(d)])
      [] f.num = 5 -> GetBytes(f, LAMBDA s : [m EXCEPT !.Msg = s])
      [] OTHER -> SkipField(f, m)

-----------------------------------------------------------------------------
(* TxContext                                                               *)

EmptyTxContext == [WriteMap |-> <<>>, ReadMap |-> <<>>]

MarshalTxContext(m) == PutMap(1, m.WriteMap, order) \o PutMap(2, m.ReadMap, order)

SizeTxContext(m) == SizeMap(m.WriteMap) + SizeMap(m.ReadMap)

\* The maps of TxContext, of TxResponse and of ContractResponse.
SetWriteMap(m, f) == GetMap(f, m.WriteMap, LAMBDA x : [m EXCEPT !.WriteMap = x])

SetReadMap(m, f) == GetMap(f, m.ReadMap, LAMBDA x : [m EXCEPT !.ReadMap = x])

SetTxContext(m, f) ==
    CASE f.num = 1 -> SetWriteMap(m, f)
      [] f.num = 2 -> SetReadMap(m, f)
      [] OTHER -> SkipField(f, m)

-----------------------------------------------------------------------------
(* TxRequest                                                               *)

EmptyTxRequest ==
    [ContractName |-> <<>>, ContractVersion |-> <<>>, Method |-> <<>>, Parameters |-> <<>>,
     TxContext |-> <<>>, ChainId |-> <<>>]

MarshalTxRequest(m) ==
    PutString(1, m.ContractName) \o PutString(2, m.ContractVersion) \o PutString(3, m.Method)
    \o PutMap(4, m.Parameters, order) \o PutAll(5, Each(MarshalTxContext, m.TxContext))
    \o PutString(6, m.ChainId)

SizeTxRequest(m) ==
    SizeString(m.ContractName) + SizeString(m.ContractVersion) + SizeString(m.Method)
    + SizeMap(m.Parameters) + SizeAll(Sizes(SizeTxContext, m.TxContext))
    + SizeString(m.ChainId)

SetParameters(m, f) == GetMap(f, m.Parameters, LAMBDA x : [m EXCEPT !.Parameters = x])

SetTxRequest(m, f) ==
    CASE f.num = 1 -> GetBytes(f, LAMBDA s : [m EXCEPT !.ContractName = s])
      [] f.num = 2 -> GetBytes(f, LAMBDA s : [m EXCEPT !.ContractVersion = s])
      [] f.num = 3 -> GetBytes(f, LAMBDA s : [m EXCEPT !.Method = s])
      [] f.num = 4 -> SetParameters(m, f)
      [] f.num = 5 -> GetMessage(f, LAMBDA s : Inner("TxContext", Pointed(m.TxContext, EmptyTxContext), s),
                                 LAMBDA x : [m EXCEPT !.TxContext = <<x>>])
      [] f.num = 6 -> GetBytes(f, LAMBDA s : [m EXCEPT !.ChainId = s])
      [] OTHER -> SkipField(f, m)

-----------------------------------------------------------------------------
(* DockerContractEvent and Event, which have the same fields.              *)

EmptyEvent == [Topic |-> <<>>, ContractName |-> <<>>, Data |-> <<>>]

MarshalDockerContractEvent(m) ==
    PutString(1, m.Topic) \o PutString(2, m.ContractName) \o PutAll(3, m.Data)

SizeDockerContractEvent(m) ==
    SizeString(m.Topic) + SizeString(m.ContractName) + SizeAll(Lengths(m.Data))

SetDockerContractEvent(m, f) ==
    CASE f.num = 1 -> GetBytes(f, LAMBDA s : [m EXCEPT !.Topic = s])
      [] f.num = 2 -> GetBytes(f, LAMBDA s : [m EXCEPT !.ContractName = s])
      [] f.num = 3 -> GetBytes(f, LAMBDA s : [m EXCEPT !.Data = Append(@, s)])
      [] OTHER -> SkipField(f, m)

MarshalEvent(m) ==
    PutString(1, m.Topic) \o PutString(2, m.ContractName) \o PutAll(3, m.Data)

SizeEvent(m) ==
    SizeString(m.Topic) + SizeString(m.ContractName) + SizeAll(Lengths(m.Data))

SetEvent(m, f) ==
    CASE f.num = 1 -> GetBytes(f, LAMBDA s : [m EXCEPT !.Topic = s])
      [] f.num = 2 -> GetBytes(f, LAMBDA s : [m EXCEPT !.ContractName = s])
      [] f.num = 3 -> GetBytes(f, LAMBDA s : [m EXCEPT !.Data = Append(@, s)])
      [] OTHER -> SkipField(f, m)

-----------------------------------------------------------------------------
(* TxResponse                                                              *)

EmptyTxResponse ==
    [TxId |-> <<>>, Code |-> <<>>, Result |-> <<>>, Message |-> <<>>, WriteMap |-> <<>>,
     ReadMap |-> <<>>, Events |-> <<>>, ContractName |-> <<>>, ContractVersion |-> <<>>,
     ChainId |-> <<>>]

MarshalTxResponse(m) ==
    PutString(1, m.TxId) \o PutVarint(2, m.Code) \o PutString(3, m.Result)
    \o PutString(4, m.Message) \o PutMap(5, m.WriteMap, order) \o PutMap(6, m.ReadMap, order)
    \o PutAll(7, Each(MarshalDockerContractEvent, m.Events)) \o PutString(8, m.ContractName)
    \o PutString(9, m.ContractVersion) \o PutString(10, m.ChainId)

SizeTxResponse(m) ==
    SizeString(m.TxId) + SizeVarint(m.Code) + SizeString(m.Result) + SizeString(m.Message)
    + SizeMap(m.WriteMap) + SizeMap(m.ReadMap)
    + SizeAll(Sizes(SizeDockerContractEvent, m.Events)) + SizeString(m.ContractName)
    + SizeString(m.ContractVersion) + SizeString(m.ChainId)

SetTxResponse(m, f) ==
    CASE f.num = 1 -> GetBytes(f, LAMBDA s : [m EXCEPT !.TxId = s])
      [] f.num = 2 -> GetVarint(f, LAMBDA d : [m EXCEPT !.Code = Int32(d)])
      [] f.num = 3 -> GetBytes(f, LAMBDA s : [m EXCEPT !.Result = s])
      [] f.num = 4 -> GetBytes(f, LAMBDA s : [m EXCEPT !.Message = s])
      [] f.num = 5 -> SetWriteMap(m, f)
      [] f.num = 6 -> SetReadMap(m, f)
      [] f.num = 7 -> GetMessage(f, LAMBDA s : Inner("DockerContractEvent", EmptyEvent, s),
                                 LAMBDA x : [m EXCEPT !.Events = Append(@, x)])
      [] f.num = 8 -> GetBytes(f, LAMBDA s : [m EXCEPT !.ContractName = s])
      [] f.num = 9 -> GetBytes(f, LAMBDA s : [m EXCEPT !.ContractVersion = s])
      [] f.num = 10 -> GetBytes(f, LAMBDA s : [m EXCEPT !.ChainId = s])
      [] OTHER -> SkipField(f, m)

-----------------------------------------------------------------------------
(* DockerVMMessage                                                         *)

EmptyDockerVMMessage ==
    [TxId |-> <<>>, Type |-> <<>>, CrossContext |-> <<>>, SysCallMessage |-> <<>>,
     Request |-> <<>>, Response |-> <<>>, ChainId |-> <<>>, StepDurations |-> <<>>]

MarshalDockerVMMessage(m) ==
    PutString(1, m.TxId) \o PutVarint(2, m.Type)
    \o PutAll(3, Each(MarshalCrossContext, m.CrossContext))
    \o PutAll(4, Each(MarshalSysCallMessage, m.SysCallMessage))
    \o PutAll(5, Each(MarshalTxRequest, m.Request))
    \o PutAll(6, Each(MarshalTxResponse, m.Response))
    \o PutString(7, m.ChainId) \o PutAll(8, Each(MarshalStepDuration, m.StepDurations))

SizeDockerVMMessage(m) ==
    SizeString(m.TxId) + SizeVarint(m.Type)
    + SizeAll(Sizes(SizeCrossContext, m.CrossContext))
    + SizeAll(Sizes(SizeSysCallMessage, m.SysCallMessage))
    + SizeAll(Sizes(SizeTxRequest, m.Request))
    + SizeAll(Sizes(SizeTxResponse, m.Response))
    + SizeString(m.ChainId) + SizeAll(Sizes(SizeStepDuration, m.StepDurations))

\* The messages inside it.
SetPointers(m, f) ==
    CASE f.num = 3 -> GetMessage(f,
            LAMBDA s : Inner("CrossContext", Pointed(m.CrossContext, EmptyCrossContext), s),
            LAMBDA x : [m EXCEPT !.CrossContext = <<x>>])
      [] f.num = 4 -> GetMessage(f,
            LAMBDA s : Inner("SysCallMessage", Pointed(m.SysCallMessage, EmptySysCallMessage), s),
            LAMBDA x : [m EXCEPT !.SysCallMessage = <<x>>])
      [] f.num = 5 -> GetMessage(f,
            LAMBDA s : Inner("TxRequest", Pointed(m.Request, EmptyTxRequest), s),
            LAMBDA x : [m EXCEPT !.Request = <<x>>])
      [] f.num = 6 -> GetMessage(f,
            LAMBDA s : Inner("TxResponse", Pointed(m.Response, EmptyTxResponse), s),
            LAMBDA x : [m EXCEPT !.Response = <<x>>])

SetDockerVMMessage(m, f) ==
    CASE f.num = 1 -> GetBytes(f, LAMBDA s : [m EXCEPT !.TxId = s])
      [] f.num = 2 -> GetVarint(f, LAMBDA d : [m EXCEPT !.Type = Int32(d)])
      [] f.num \in 3 .. 6 -> SetPointers(m, f)
      [] f.num = 7 -> GetBytes(f, LAMBDA s : [m EXCEPT !.ChainId = s])
      [] f.num = 8 -> GetMessage(f, LAMBDA s : Inner("StepDuration", EmptyStepDuration, s),
                                 LAMBDA x : [m EXCEPT !.StepDurations = Append(@, x)])
      [] OTHER -> SkipField(f, m)

-----------------------------------------------------------------------------
(* CallContractRequest                                                     *)

EmptyCallContractRequest ==
    [ContractName |-> <<>>, ContractMethod |-> <<>>, Args |-> <<>>]

MarshalCallContractRequest(m) ==
    PutString(1, m.ContractName) \o PutString(2, m.ContractMethod) \o PutMap(3, m.Args, order)

SizeCallContractRequest(m) ==
    SizeString(m.ContractName) + SizeString(m.ContractMethod) + SizeMap(m.Args)

SetArgs(m, f) == GetMap(f, m.Args, LAMBDA x : [m EXCEPT !.Args = x])

SetCallContractRequest(m, f) ==
    CASE f.num = 1 -> GetBytes(f, LAMBDA s : [m EXCEPT !.ContractName = s])
      [] f.num = 2 -> GetBytes(f, LAMBDA s : [m EXCEPT !.ContractMethod = s])
      [] f.num = 3 -> SetArgs(m, f)
      [] OTHER -> SkipField(f, m)

-----------------------------------------------------------------------------
(* Response and ContractResponse                                           *)

EmptyResponse == [Status |-> <<>>, Message |-> <<>>, Payload |-> <<>>]

MarshalResponse(m) ==
    PutVarint(1, m.Status) \o PutString(2, m.Message) \o PutString(3, m.Payload)

SizeResponse(m) == SizeVarint(m.Status) + SizeString(m.Message) + SizeString(m.Payload)

SetResponse(m, f) ==
    CASE f.num = 1 -> GetVarint(f, LAMBDA d : [m EXCEPT !.Status = Int32(d)])
      [] f.num = 2 -> GetBytes(f, LAMBDA s : [m EXCEPT !.Message = s])
      [] f.num = 3 -> GetBytes(f, LAMBDA s : [m EXCEPT !.Payload = s])
      [] OTHER -> SkipField(f, m)

EmptyContractResponse ==
    [Response |-> <<>>, WriteMap |-> <<>>, ReadMap |-> <<>>, Events |-> <<>>]

MarshalContractResponse(m) ==
    PutAll(1, Each(MarshalResponse, m.Response)) \o PutMap(2, m.WriteMap, order)
    \o PutMap(3, m.ReadMap, order) \o PutAll(4, Each(MarshalEvent, m.Events))

SizeContractResponse(m) ==
    SizeAll(Sizes(SizeResponse, m.Response)) + SizeMap(m.WriteMap) + SizeMap(m.ReadMap)
    + SizeAll(Sizes(SizeEvent, m.Events))

SetContractResponse(m, f) ==
    CASE f.num = 1 -> GetMessage(f, LAMBDA s : Inner("Response", Pointed(m.Response, EmptyResponse), s),
                                 LAMBDA x : [m EXCEPT !.Response = <<x>>])
      [] f.num = 2 -> SetWriteMap(m, f)
      [] f.num = 3 -> SetReadMap(m, f)
      [] f.num = 4 -> GetMessage(f, LAMBDA s : Inner("Event", EmptyEvent, s),
                                 LAMBDA x : [m EXCEPT !.Events = Append(@, x)])
      [] OTHER -> SkipField(f, m)

-----------------------------------------------------------------------------
(* The loop of Unmarshal.                                                  *)

SetField(k, m, f) ==
    CASE k = "DockerVMMessage" -> SetDockerVMMessage(m, f)
      [] k = "SysCallMessage" -> SetSysCallMessage(m, f)
      [] k = "CrossContext" -> SetCrossContext(m, f)
      [] k = "StepDuration" -> SetStepDuration(m, f)
      [] k = "TxRequest" -> SetTxRequest(m, f)
      [] k = "TxContext" -> SetTxContext(m, f)
      [] k = "TxResponse" -> SetTxResponse(m, f)
      [] k = "DockerContractEvent" -> SetDockerContractEvent(m, f)
      [] k = "CallContractRequest" -> SetCallContractRequest(m, f)
      [] k = "Response" -> SetResponse(m, f)
      [] k = "ContractResponse" -> SetContractResponse(m, f)
      [] k = "Event" -> SetEvent(m, f)

Unmarshal(k, m, bs, i) ==
    IF i > Len(bs) THEN [ok |-> TRUE, m |-> m]
    ELSE Then(Varint(bs, i), LAMBDA tag :
            IF tag.d[1] % 8 = 4 \/ FieldNum(tag.d) = 0 THEN Err
            ELSE Then(SetField(k, m, FieldAt(bs, i, tag)),
                      LAMBDA r : Unmarshal(k, r.m, bs, r.i)))

-----------------------------------------------------------------------------
(* A message is sent as a DockerVMMessage over a stream, or as the payload *)
(* of a system call, in which the other two kinds travel.                  *)

Kinds == {"DockerVMMessage", "CallContractRequest", "ContractResponse"}

Empty(k) ==
    CASE k = "DockerVMMessage" -> EmptyDockerVMMessage
      [] k = "CallContractRequest" -> EmptyCallContractRequest
      [] k = "ContractResponse" -> EmptyContractResponse

Marshal ==
    CASE kind = "DockerVMMessage" -> MarshalDockerVMMessage(msg)
      [] kind = "CallContractRequest" -> MarshalCallContractRequest(msg)
      [] kind = "ContractResponse" -> MarshalContractResponse(msg)

Size ==
    CASE kind = "DockerVMMessage" -> SizeDockerVMMessage(msg)
      [] kind = "CallContractRequest" -> SizeCallContractRequest(msg)
      [] kind = "ContractResponse" -> SizeContractResponse(msg)

\* The fields that arrive, among them the one the receiver does not know.
Fields == IF newer = <<>> THEN Marshal ELSE InsertAt(Marshal, newer.at, newer.field)

Init ==
    /\ kind \in Kinds
    /\ msg \in Messages(kind)
    /\ order \in SetToSeqs(Keys)
    /\ newer = <<>>
    /\ got = <<>>

\* The sender is of a later version.
Newer ==
    /\ newer = <<>> /\ got = <<>>
    /\ \E at \in 1 .. Len(Marshal) + 1, field \in UnknownFields :
        newer' = [at |-> at, field |-> field]
    /\ UNCHANGED <<kind, msg, order, got>>

Receive ==
    /\ got = <<>>
    /\ got' = Unmarshal(kind, Empty(kind), FlattenSeq(Fields), 1)
    /\ UNCHANGED <<kind, msg, order, newer>>

Next == Newer \/ Receive

Spec == Init /\ [][Next]_vars

-----------------------------------------------------------------------------
(* Properties.                                                             *)

\* Marshal fills a buffer of Size bytes from its end; every byte of the buffer is
\* written and none before it, for every message and every order of its maps.
SizeExact == Size = Len(FlattenSeq(Marshal))

\* What is read is what was sent: integers in their width, maps in any order, an
\* empty value of a map, an empty message that is not nil; fields of a later
\* version are skipped.
RoundTrip == got # <<>> => got = [ok |-> TRUE, m |-> msg]

\* Bytes that end inside a field are refused, never read as a shorter message.
PrefixRefused ==
    got = <<>> =>
        LET bytes == FlattenSeq(Fields)
            ends == {Len(FlattenSeq(SubSeq(Fields, 1, k))) : k \in 0 .. Len(Fields)}
        IN \A n \in 0 .. Len(bytes) :
            Unmarshal(kind, Empty(kind), SubSeq(bytes, 1, n), 1).ok <=> n \in ends

=============================================================================
