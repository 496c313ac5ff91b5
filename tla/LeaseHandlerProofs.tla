-------------------------- MODULE LeaseHandlerProofs --------------------------
(***************************************************************************)
(* Theorems about Multiplexer, and about LeaseHandler over it, for every   *)
(* set of requests, every reentrant use, every bound of the queue and      *)
(* every lease.  Of the multiplexer alone: its types, and that ids         *)
(* increase, frames reach their request and outcomes are true when the     *)
(* application makes no request from the onComplete of a fire-and-forget.  *)
(***************************************************************************)
EXTENDS LeaseHandler, SequenceTheorems, TLAPS

-----------------------------------------------------------------------------
(* The multiplexer. *)

\* Pushing a call on the stack and returning from the innermost one keep its type.
LEMMA PushType ==
  ASSUME NEW calls \in Seq(StackFrames), NEW frame \in StackFrames
  PROVE  Push(frame, calls) \in Seq(StackFrames)
BY DEF Push

LEMMA CallbackType ==
  ASSUME NEW calls \in Seq(StackFrames), NEW kind \in Callbacks
  PROVE  CallbackFrom(kind, calls) \in Seq(StackFrames)
BY PushType DEF CallbackFrom, StackFrames

LEMMA TopType ==
  ASSUME stack \in Seq(StackFrames), stack # <<>>
  PROVE  /\ Head(stack) \in StackFrames
         /\ Tail(stack) \in Seq(StackFrames)
OBVIOUS

\* The frames of each type have the field of that type.
LEMMA FrameFields ==
  ASSUME stack \in Seq(StackFrames), stack # <<>>
  PROVE  /\ Running("ready") => Head(stack).id \in StreamIds
         /\ Running("data")  => Head(stack).frames \subseteq Frames
         /\ Running("close") => Head(stack).ids \subseteq StreamIds
BY TopType DEF StackFrames, Running

\* createRequestStream keeps the types of the multiplexer.
LEMMA CreateType ==
  ASSUME MuxAssumption, MuxTypeOK, NEW r \in Requests,
         CreateRequestStream(r, stack)
  PROVE  MuxTypeOK'
<1>1. CASE HandleReject(r, stack)
  BY <1>1, CallbackType DEF HandleReject, Settle, MuxTypeOK, Callbacks, Statuses
<1>2. NextId \in StreamIds
  BY DEF NextId, StreamIds, MuxTypeOK
<1>3. ASSUME SendRequest(r, NextId) PROVE wire' \in Seq(Frames)
  <2>1. [id |-> NextId, req |-> r] \in Frames
    BY <1>2 DEF Frames
  <2>2. Append(wire, [id |-> NextId, req |-> r]) \in Seq(Frames)
    BY <2>1 DEF MuxTypeOK
  <2>. QED
    BY <1>3, <2>2 DEF SendRequest, MuxTypeOK
<1>4. CASE HandleReadyStream(r, NextId, stack)
  <2>1. /\ DOMAIN registry' \subseteq StreamIds
        /\ \A id \in DOMAIN registry' : registry'[id] \in Requests
    BY <1>2, <1>4 DEF HandleReadyStream, MuxTypeOK
  <2>2. /\ status' \in [Requests -> Statuses]
        /\ sid' \in [Requests -> Nat]
        /\ currentId' \in Nat
    BY <1>2, <1>4 DEF HandleReadyStream, MuxTypeOK, Statuses, StreamIds
  <2>. QED
    BY <1>3, <1>4, <2>1, <2>2 DEF HandleReadyStream, MuxTypeOK
<1>5. CASE HandleReadyFnf(r, NextId, stack)
  <2>1. [type |-> "ready", id |-> NextId] \in StackFrames
    BY <1>2 DEF StackFrames
  <2>2. /\ status' \in [Requests -> Statuses]
        /\ signals' \in [Requests -> Nat]
        /\ sid' \in [Requests -> Nat]
    BY <1>2, <1>5 DEF HandleReadyFnf, Settle, MuxTypeOK, Statuses, StreamIds
  <2>. QED
    BY <1>3, <1>5, <2>1, <2>2, PushType DEF HandleReadyFnf, MuxTypeOK
<1>. QED
  BY <1>1, <1>4, <1>5 DEF CreateRequestStream

\* A settled request keeps the types of its two functions.
LEMMA SettleType ==
  ASSUME MuxTypeOK, NEW r \in Requests, NEW end \in Statuses, Settle(r, end)
  PROVE  /\ status' \in [Requests -> Statuses]
         /\ signals' \in [Requests -> Nat]
BY DEF Settle, MuxTypeOK

\* So does every other step of the multiplexer.
LEMMA MuxStepType ==
  ASSUME MuxAssumption, MuxTypeOK, MuxStep
  PROVE  MuxTypeOK'
<1>1. CASE ReturnReady
  BY <1>1, TopType, FrameFields DEF ReturnReady, Running, StreamIds, MuxTypeOK
<1>2. CASE ReturnCallback
  BY <1>2, TopType DEF ReturnCallback, Running, MuxTypeOK
<1>3. ASSUME NEW r \in Requests, CancelLive(r) PROVE MuxTypeOK'
  BY <1>3 DEF CancelLive, Without, Statuses, MuxTypeOK
<1>4. CASE HandleData
  <2>1. PICK frames \in SUBSET {f \in Unanswered : f.req \notin Fnf} :
          /\ answered' = answered \cup frames
          /\ stack' = Push([type |-> "data", frames |-> frames], stack)
    BY <1>4 DEF HandleData
  <2>2. frames \subseteq Frames
    BY <2>1 DEF Unanswered, MuxTypeOK
  <2>3. [type |-> "data", frames |-> frames] \in StackFrames
    BY <2>2 DEF StackFrames
  <2>4. stack' \in Seq(StackFrames) /\ answered' \subseteq Frames
    BY <2>1, <2>2, <2>3, PushType DEF MuxTypeOK
  <2>. QED
    BY <1>4, <2>4 DEF HandleData, MuxTypeOK
<1>5. ASSUME Running("data"), NEW f \in Head(stack).frames
      PROVE  f \in Frames /\ Rest(f) \in Seq(StackFrames)
  <2>1. f \in Frames /\ Head(stack).frames \subseteq Frames /\ Tail(stack) \in Seq(StackFrames)
    BY <1>5, TopType, FrameFields DEF Running, MuxTypeOK
  <2>2. [type |-> "data", frames |-> Head(stack).frames \ {f}] \in StackFrames
    BY <2>1 DEF StackFrames
  <2>. QED
    BY <2>1, <2>2, PushType DEF Rest
<1>6. CASE HandleFrame
  <2>1. PICK f \in Head(stack).frames :
          /\ f.id \in DOMAIN registry
          /\ Settle(registry[f.id], "completed")
          /\ got' = [got EXCEPT ![registry[f.id]] = @ \cup {f.req}]
          /\ registry' = Without(sid[registry[f.id]])
          /\ stack' = CallbackFrom("response", Rest(f))
    BY <1>6 DEF HandleFrame
  <2>2. f \in Frames /\ stack' \in Seq(StackFrames)
    BY <1>5, <1>6, <2>1, CallbackType DEF HandleFrame, Callbacks
  <2>3. registry[f.id] \in Requests /\ f.req \in Requests
    BY <2>1, <2>2 DEF MuxTypeOK, Frames
  <2>4. status' \in [Requests -> Statuses] /\ signals' \in [Requests -> Nat]
    BY <2>1, <2>3, SettleType DEF Statuses
  <2>5. got' \in [Requests -> SUBSET Requests]
    BY <2>1, <2>3 DEF MuxTypeOK
  <2>6. /\ DOMAIN registry' \subseteq StreamIds
        /\ \A id \in DOMAIN registry' : registry'[id] \in Requests
    BY <2>1 DEF Without, MuxTypeOK
  <2>. QED
    BY <1>6, <2>2, <2>4, <2>5, <2>6 DEF HandleFrame, MuxTypeOK
<1>7. CASE DropFrame
  BY <1>5, <1>7 DEF DropFrame, MuxTypeOK
<1>8. CASE HandleDataReturns
  BY <1>8, TopType DEF HandleDataReturns, Running, MuxTypeOK
<1>9. CASE Close
  <2>1. [type |-> "close", ids |-> DOMAIN registry] \in StackFrames
    BY DEF StackFrames, MuxTypeOK
  <2>. QED
    BY <1>9, <2>1, PushType DEF Close, MuxTypeOK
<1>10. ASSUME Running("close"), NEW id \in Head(stack).ids
       PROVE  OtherKeys(id) \in Seq(StackFrames)
  <2>1. Head(stack).ids \subseteq StreamIds /\ Tail(stack) \in Seq(StackFrames)
    BY <1>10, TopType, FrameFields DEF Running, MuxTypeOK
  <2>2. [type |-> "close", ids |-> Head(stack).ids \ {id}] \in StackFrames
    BY <2>1 DEF StackFrames
  <2>. QED
    BY <2>1, <2>2, PushType DEF OtherKeys
<1>11. CASE CloseStream
  <2>1. PICK id \in Head(stack).ids :
          \/ /\ id \in DOMAIN registry
             /\ Settle(registry[id], "failed")
             /\ stack' = CallbackFrom("close", OtherKeys(id))
          \/ /\ UNCHANGED <<status, signals>>
             /\ stack' = OtherKeys(id)
    BY <1>11 DEF CloseStream
  <2>2. stack' \in Seq(StackFrames)
    BY <1>10, <1>11, <2>1, CallbackType DEF CloseStream, Callbacks
  <2>3. status' \in [Requests -> Statuses] /\ signals' \in [Requests -> Nat]
    BY <2>1, SettleType DEF Statuses, MuxTypeOK
  <2>. QED
    BY <1>11, <2>2, <2>3 DEF CloseStream, MuxTypeOK
<1>13. CASE CloseReturns
  BY <1>13, TopType DEF CloseReturns, Running, MuxTypeOK
<1>. QED
  BY <1>1, <1>2, <1>3, <1>4, <1>6, <1>7, <1>8, <1>9, <1>11, <1>13 DEF MuxStep

\* The multiplexer keeps its types, whatever the application does in callbacks.
THEOREM MuxTypeCorrect ==
  ASSUME MuxAssumption
  PROVE  MuxSpec => []MuxTypeOK
<1>1. MuxInit => MuxTypeOK
  BY DEF MuxInit, MuxTypeOK, Statuses
<1>2. MuxTypeOK /\ [MuxNext]_muxVars => MuxTypeOK'
  <2>. SUFFICES ASSUME MuxTypeOK, [MuxNext]_muxVars PROVE MuxTypeOK'
    OBVIOUS
  <2>1. CASE MuxStep
    BY <2>1, MuxStepType
  <2>2. ASSUME NEW r \in Requests, Request(r) PROVE MuxTypeOK'
    BY <2>2, CreateType DEF Request
  <2>3. CASE UNCHANGED muxVars
    BY <2>3 DEF muxVars, MuxTypeOK
  <2>. QED
    BY <2>1, <2>2, <2>3 DEF MuxNext
<1>. QED
  BY <1>1, <1>2, PTL DEF MuxSpec

-----------------------------------------------------------------------------
(* The calls in progress. *)

Calls(s) == {s[i] : i \in DOMAIN s}

OnWire == {wire[i] : i \in DOMAIN wire}

LEMMA CallsOfPush ==
  ASSUME NEW calls \in Seq(StackFrames), NEW frame \in StackFrames
  PROVE  /\ Push(frame, calls) # <<>>
         /\ Head(Push(frame, calls)) = frame
         /\ Tail(Push(frame, calls)) = calls
BY DEF Push

LEMMA CallsOfTop ==
  ASSUME NEW calls \in Seq(StackFrames), calls # <<>>
  PROVE  /\ Head(calls) \in StackFrames
         /\ Tail(calls) \in Seq(StackFrames)
         /\ Calls(calls) = {Head(calls)} \cup Calls(Tail(calls))
<1>1. /\ Head(calls) = calls[1]
      /\ Head(calls) \in StackFrames
      /\ Tail(calls) \in Seq(StackFrames)
      /\ Len(calls) \in Nat \ {0}
      /\ Len(Tail(calls)) = Len(calls) - 1
      /\ \A i \in 1 .. Len(calls) - 1 : Tail(calls)[i] = calls[i + 1]
  BY HeadTailProperties
<1>2. DOMAIN calls = 1 .. Len(calls) /\ DOMAIN Tail(calls) = 1 .. Len(calls) - 1
  BY <1>1
<1>3. ASSUME NEW f \in Calls(calls) PROVE f \in {Head(calls)} \cup Calls(Tail(calls))
  <2>1. PICK i \in 1 .. Len(calls) : f = calls[i]
    BY <1>2 DEF Calls
  <2>2. CASE i = 1
    BY <1>1, <2>1, <2>2
  <2>3. CASE i # 1
    <3>1. i - 1 \in 1 .. Len(calls) - 1 /\ (i - 1) + 1 = i
      BY <1>1, <2>3
    <3>2. Tail(calls)[i - 1] = f
      BY <1>1, <2>1, <3>1
    <3>. QED
      BY <1>2, <3>1, <3>2 DEF Calls
  <2>. QED
    BY <2>2, <2>3
<1>4. ASSUME NEW f \in {Head(calls)} \cup Calls(Tail(calls)) PROVE f \in Calls(calls)
  <2>1. CASE f = Head(calls)
    <3>1. 1 \in DOMAIN calls
      BY <1>1, <1>2
    <3>. QED
      BY <1>1, <2>1, <3>1 DEF Calls
  <2>2. CASE f \in Calls(Tail(calls))
    <3>1. PICK i \in 1 .. Len(calls) - 1 : f = Tail(calls)[i]
      BY <1>2, <2>2 DEF Calls
    <3>2. i + 1 \in DOMAIN calls /\ f = calls[i + 1]
      BY <1>1, <1>2, <3>1
    <3>. QED
      BY <3>2 DEF Calls
  <2>. QED
    BY <2>1, <2>2
<1>. QED
  BY <1>1, <1>3, <1>4

LEMMA CallsAfterPush ==
  ASSUME NEW calls \in Seq(StackFrames), NEW frame \in StackFrames
  PROVE  Calls(Push(frame, calls)) = {frame} \cup Calls(calls)
<1>1. Push(frame, calls) \in Seq(StackFrames)
  BY PushType
<1>. QED
  BY <1>1, CallsOfPush, CallsOfTop

-----------------------------------------------------------------------------
(* Stream ids and routing. *)

\* A fire-and-forget in handleReady is the innermost call and has the next id.
ReadyIsInnermost ==
  /\ stack # <<>> => \A f \in Calls(Tail(stack)) : f.type # "ready"
  /\ Running("ready") => Head(stack).id = currentId + 1

\* Ids on the wire have been handed out.
WireIdsIssued ==
  \A i \in DOMAIN wire :
    /\ wire[i].id <= currentId + 1
    /\ wire[i].id = currentId + 1 => Running("ready")

\* The registry holds each request in progress under its id, and none that is new.
RegistrySound ==
  \A id \in DOMAIN registry :
    /\ id <= currentId
    /\ sid[registry[id]] = id
    /\ status[registry[id]] # "new"

\* A request frame and the registry never disagree on whose an id is.
WireAgrees ==
  \A i \in DOMAIN wire :
    wire[i].id \in DOMAIN registry => registry[wire[i].id] = wire[i].req

\* Answers being handled are answers to frames that were written.
ChunksFromWire ==
  \A f \in Calls(stack) : f.type = "data" => f.frames \subseteq OnWire

RouteInv ==
  /\ MuxTypeOK
  /\ ReadyIsInnermost
  /\ WireIdsIssued
  /\ RegistrySound
  /\ WireAgrees
  /\ ChunksFromWire
  /\ IdsIncrease
  /\ ResponsesReachTheirRequest

\* Calls among which handleReady is not in progress.
FrameSound(f) ==
  /\ f.type # "ready"
  /\ f.type = "data" => f.frames \subseteq OnWire

CallsSound(calls) == \A f \in Calls(calls) : FrameSound(f)

LEMMA SoundPush ==
  ASSUME NEW calls \in Seq(StackFrames), CallsSound(calls),
         NEW frame \in StackFrames, FrameSound(frame)
  PROVE  Push(frame, calls) \in Seq(StackFrames) /\ CallsSound(Push(frame, calls))
BY PushType, CallsAfterPush DEF CallsSound

LEMMA SoundCallback ==
  ASSUME NEW calls \in Seq(StackFrames), CallsSound(calls), NEW kind \in Callbacks
  PROVE  CallsSound(CallbackFrom(kind, calls))
BY SoundPush DEF CallbackFrom, StackFrames, FrameSound

\* What is below the innermost call is sound, and so is all when that is not
\* handleReady: when the application runs, for instance.
LEMMA SoundTail ==
  ASSUME MuxTypeOK, ReadyIsInnermost, ChunksFromWire, stack # <<>>
  PROVE  Tail(stack) \in Seq(StackFrames) /\ CallsSound(Tail(stack))
BY CallsOfTop DEF MuxTypeOK, ReadyIsInnermost, ChunksFromWire, CallsSound, FrameSound

LEMMA SoundStack ==
  ASSUME MuxTypeOK, ReadyIsInnermost, ChunksFromWire, ~Running("ready")
  PROVE  stack \in Seq(StackFrames) /\ CallsSound(stack)
<1>1. CASE stack = <<>>
  BY <1>1 DEF Calls, CallsSound, MuxTypeOK
<1>2. CASE stack # <<>>
  <2>1. Calls(stack) = {Head(stack)} \cup Calls(Tail(stack))
    BY <1>2, CallsOfTop DEF MuxTypeOK
  <2>2. \A f \in Calls(stack) : f.type # "ready"
    BY <1>2, <2>1 DEF ReadyIsInnermost, Running
  <2>. QED
    BY <2>2 DEF MuxTypeOK, ChunksFromWire, CallsSound, FrameSound
<1>. QED
  BY <1>1, <1>2

LEMMA AppHasNoReady ==
  ASSUME "fnf" \notin ReenterFrom, AppCanRun
  PROVE  ~Running("ready")
BY DEF AppCanRun, Running

\* Sound calls keep the part of the invariant about them.
LEMMA SoundNext ==
  ASSUME NEW calls \in Seq(StackFrames), CallsSound(calls),
         stack' = calls, OnWire \subseteq OnWire'
  PROVE  ReadyIsInnermost' /\ ChunksFromWire' /\ ~Running("ready")'
<1>1. calls # <<>> => Calls(calls) = {Head(calls)} \cup Calls(Tail(calls))
  BY CallsOfTop
<1>2. ChunksFromWire'
  BY DEF ChunksFromWire, CallsSound, FrameSound
<1>3. ReadyIsInnermost' /\ ~Running("ready")'
  BY <1>1 DEF ReadyIsInnermost, CallsSound, FrameSound, Running
<1>. QED
  BY <1>2, <1>3

\* Steps that leave ids, registry, wire and responses alone and start no request.
LEMMA RouteUnchanged ==
  ASSUME RouteInv, MuxTypeOK', ~Running("ready"),
         UNCHANGED <<currentId, registry, sid, wire, got>>,
         \A r \in Requests : /\ status'[r] = "live" => status[r] = "live"
                             /\ status'[r] = "new" => status[r] = "new",
         NEW calls \in Seq(StackFrames), CallsSound(calls), stack' = calls
  PROVE  RouteInv'
<1>1. ReadyIsInnermost' /\ ChunksFromWire' /\ ~Running("ready")'
  BY SoundNext DEF OnWire
<1>2. WireIdsIssued'
  BY DEF RouteInv, WireIdsIssued
<1>3. RegistrySound'
  BY DEF RouteInv, RegistrySound, MuxTypeOK
<1>4. WireAgrees' /\ IdsIncrease' /\ ResponsesReachTheirRequest'
  BY DEF RouteInv, WireAgrees, IdsIncrease, ResponsesReachTheirRequest,
         LiveIsRegistered, OwnResponseOnly
<1>. QED
  BY <1>1, <1>2, <1>3, <1>4 DEF RouteInv

\* A request frame with the next id goes on the wire, or is lost.
LEMMA WireAfterSend ==
  ASSUME RouteInv, ~Running("ready"), NEW r \in Requests, SendRequest(r, NextId)
  PROVE  /\ IdsIncrease'
         /\ OnWire \subseteq OnWire'
         /\ connState = "open" => \E i \in DOMAIN wire' : wire'[i] = [id |-> NextId, req |-> r]
         /\ \A i \in DOMAIN wire' :
              \/ i \in DOMAIN wire /\ wire'[i] = wire[i] /\ wire[i].id <= currentId
              \/ wire'[i] = [id |-> NextId, req |-> r]
<1>1. \A i \in DOMAIN wire : wire[i].id \in Nat /\ wire[i].id <= currentId
  <2>. SUFFICES ASSUME NEW i \in DOMAIN wire PROVE wire[i].id \in Nat /\ wire[i].id <= currentId
    OBVIOUS
  <2>1. wire[i].id \in Nat /\ currentId \in Nat
    <3>1. wire \in Seq(Frames) /\ currentId \in Nat
      BY DEF RouteInv, MuxTypeOK
    <3>2. wire[i] \in Frames
      BY <3>1
    <3>. QED
      BY <3>1, <3>2 DEF Frames, StreamIds
  <2>. QED
    BY <2>1 DEF RouteInv, WireIdsIssued
<1>2. CASE wire' = wire /\ connState # "open"
  BY <1>1, <1>2 DEF RouteInv, IdsIncrease, OnWire
<1>3. CASE wire' = Append(wire, [id |-> NextId, req |-> r])
  <2>1. /\ DOMAIN wire = 1 .. Len(wire)
        /\ Len(wire) \in Nat
        /\ DOMAIN wire' = 1 .. Len(wire) + 1
        /\ \A i \in 1 .. Len(wire) : wire'[i] = wire[i]
        /\ wire'[Len(wire) + 1] = [id |-> NextId, req |-> r]
    BY <1>3 DEF RouteInv, MuxTypeOK
  <2>2. \A i \in DOMAIN wire' : i \in DOMAIN wire \/ i = Len(wire) + 1
    BY <2>1
  <2>3. OnWire \subseteq OnWire'
    BY <2>1 DEF OnWire
  <2>4. IdsIncrease'
    <3>. SUFFICES ASSUME NEW i \in DOMAIN wire', NEW j \in DOMAIN wire', i < j
                  PROVE  wire'[i].id < wire'[j].id
      BY DEF IdsIncrease
    <3>1. i \in DOMAIN wire
      BY <2>1
    <3>2. CASE j \in DOMAIN wire
      BY <2>1, <3>1, <3>2 DEF RouteInv, IdsIncrease
    <3>3. CASE j = Len(wire) + 1
      <4>1. wire'[j].id = currentId + 1 /\ currentId \in Nat
        BY <2>1, <3>3 DEF NextId, RouteInv, MuxTypeOK
      <4>. QED
        BY <1>1, <2>1, <3>1, <4>1
    <3>. QED
      BY <2>2, <3>2, <3>3
  <2>. QED
    BY <1>1, <2>1, <2>2, <2>3, <2>4
<1>. QED
  BY <1>2, <1>3 DEF SendRequest

\* A request that is given the next id: it and its registry entry are new.
LEMMA RouteRequest ==
  ASSUME MuxAssumption, "fnf" \notin ReenterFrom, RouteInv, NEW r \in Requests, Request(r)
  PROVE  RouteInv'
<1>. DEFINE id == NextId
<1>1. MuxTypeOK'
  BY CreateType DEF Request, RouteInv
<1>2. /\ ~Running("ready")
      /\ status[r] = "new"
      /\ stack \in Seq(StackFrames) /\ CallsSound(stack)
      /\ currentId \in Nat /\ id = currentId + 1
  BY AppHasNoReady, SoundStack DEF Request, RouteInv, MuxTypeOK, NextId
<1>3. \A i \in DOMAIN registry : i # id /\ i \in Nat /\ registry[i] # r
  BY <1>2 DEF RouteInv, RegistrySound, MuxTypeOK, StreamIds
<1>4. CASE HandleReject(r, stack)
  <2>1. /\ UNCHANGED <<currentId, registry, sid, wire, got>>
        /\ status' = [status EXCEPT ![r] = "rejected"]
        /\ stack' = CallbackFrom("reject", stack)
    BY <1>4 DEF HandleReject, Settle
  <2>2. CallbackFrom("reject", stack) \in Seq(StackFrames) /\ CallsSound(CallbackFrom("reject", stack))
    BY <1>2, SoundCallback, CallbackType DEF Callbacks
  <2>3. \A q \in Requests : /\ status'[q] = "live" => status[q] = "live"
                            /\ status'[q] = "new" => status[q] = "new"
    BY <2>1 DEF RouteInv, MuxTypeOK
  <2>. QED
    BY <1>1, <1>2, <2>1, <2>2, <2>3, RouteUnchanged
<1>5. CASE HandleReadyStream(r, id, stack)
  <2>1. /\ status' = [status EXCEPT ![r] = "live"]
        /\ sid' = [sid EXCEPT ![r] = id]
        /\ registry' = [i \in DOMAIN registry \cup {id} |-> IF i = id THEN r ELSE registry[i]]
        /\ SendRequest(r, id)
        /\ currentId' = id
        /\ stack' = stack
        /\ got' = got
    BY <1>5 DEF HandleReadyStream
  <2>2. /\ IdsIncrease'
        /\ OnWire \subseteq OnWire'
        /\ \A i \in DOMAIN wire' :
              \/ i \in DOMAIN wire /\ wire'[i] = wire[i] /\ wire[i].id <= currentId
              \/ wire'[i] = [id |-> id, req |-> r]
    BY <1>2, <2>1, WireAfterSend
  <2>3. ReadyIsInnermost' /\ ChunksFromWire' /\ ~Running("ready")'
    BY <1>2, <2>1, <2>2, SoundNext
  <2>4. \A i \in DOMAIN wire' : wire'[i].id \in Nat
    <3>1. wire' \in Seq(Frames)
      BY <1>1 DEF MuxTypeOK
    <3>2. \A i \in DOMAIN wire' : wire'[i] \in Frames
      BY <3>1
    <3>. QED
      BY <3>2 DEF Frames, StreamIds
  <2>5. WireIdsIssued'
    BY <1>2, <2>1, <2>2, <2>4 DEF WireIdsIssued
  <2>6. RegistrySound'
    BY <1>2, <1>3, <2>1 DEF RouteInv, RegistrySound, MuxTypeOK, StreamIds
  <2>7. WireAgrees'
    BY <1>2, <1>3, <2>1, <2>2, <2>4 DEF RouteInv, WireAgrees
  <2>8. LiveIsRegistered'
    BY <1>3, <2>1 DEF RouteInv, ResponsesReachTheirRequest, LiveIsRegistered, MuxTypeOK
  <2>9. OwnResponseOnly'
    BY <2>1 DEF RouteInv, ResponsesReachTheirRequest, OwnResponseOnly
  <2>. QED
    BY <1>1, <2>2, <2>3, <2>5, <2>6, <2>7, <2>8, <2>9 DEF RouteInv, ResponsesReachTheirRequest
<1>6. CASE HandleReadyFnf(r, id, stack)
  <2>. DEFINE frame == [type |-> "ready", id |-> id]
  <2>1. /\ status' = [status EXCEPT ![r] = "completed"]
        /\ sid' = [sid EXCEPT ![r] = id]
        /\ SendRequest(r, id)
        /\ stack' = Push(frame, stack)
        /\ UNCHANGED <<currentId, registry, got>>
    BY <1>6 DEF HandleReadyFnf, Settle
  <2>2. /\ IdsIncrease'
        /\ OnWire \subseteq OnWire'
        /\ \A i \in DOMAIN wire' :
              \/ i \in DOMAIN wire /\ wire'[i] = wire[i] /\ wire[i].id <= currentId
              \/ wire'[i] = [id |-> id, req |-> r]
    BY <1>2, <2>1, WireAfterSend
  <2>3. frame \in StackFrames
    BY <1>2 DEF StackFrames, StreamIds
  <2>4. stack' # <<>> /\ Head(stack') = frame /\ Tail(stack') = stack
        /\ Calls(stack') = {frame} \cup Calls(stack)
    BY <1>2, <2>1, <2>3, CallsOfPush, CallsAfterPush
  <2>5. ReadyIsInnermost' /\ Running("ready")'
    <3>1. \A f \in Calls(Tail(stack')) : f.type # "ready"
      BY <1>2, <2>4 DEF CallsSound, FrameSound
    <3>2. Head(stack').type = "ready" /\ Head(stack').id = id /\ id = currentId' + 1
      BY <1>2, <2>1, <2>4
    <3>. QED
      BY <2>4, <3>1, <3>2 DEF ReadyIsInnermost, Running
  <2>6. ChunksFromWire'
    BY <1>2, <2>2, <2>4 DEF ChunksFromWire, CallsSound, FrameSound
  <2>7. WireIdsIssued'
    <3>1. \A i \in DOMAIN wire' : wire'[i] \in Frames
      BY <1>1 DEF MuxTypeOK
    <3>2. \A i \in DOMAIN wire' : wire'[i].id \in Nat
      BY <3>1 DEF Frames, StreamIds
    <3>. QED
      BY <1>2, <2>1, <2>2, <2>5, <3>2 DEF WireIdsIssued
  <2>8. RegistrySound'
    BY <1>3, <2>1 DEF RouteInv, RegistrySound, MuxTypeOK
  <2>9. WireAgrees'
    BY <1>3, <2>1, <2>2 DEF RouteInv, WireAgrees
  <2>10. ResponsesReachTheirRequest'
    BY <2>1 DEF RouteInv, ResponsesReachTheirRequest, LiveIsRegistered, OwnResponseOnly, MuxTypeOK
  <2>. QED
    BY <1>1, <2>2, <2>5, <2>6, <2>7, <2>8, <2>9, <2>10 DEF RouteInv
<1>. QED
  BY <1>4, <1>5, <1>6 DEF Request, CreateRequestStream

\* A response goes to the request registered under its id, which is the one the
\* peer answered, and leaves the registry.
LEMMA RouteFrame ==
  ASSUME MuxAssumption, RouteInv, Running("data"), NEW f \in Head(stack).frames
  PROVE  /\ Rest(f) \in Seq(StackFrames) /\ CallsSound(Rest(f))
         /\ f \in OnWire
         /\ f.id \in DOMAIN registry =>
              /\ registry[f.id] = f.req
              /\ f.req \in Requests
              /\ sid[f.req] = f.id
<1>1. stack # <<>> /\ stack \in Seq(StackFrames)
  BY DEF RouteInv, MuxTypeOK, Running
<1>2. Tail(stack) \in Seq(StackFrames) /\ CallsSound(Tail(stack))
  BY <1>1, SoundTail DEF RouteInv
<1>3. Head(stack).frames \subseteq OnWire /\ Head(stack).frames \subseteq Frames
  BY <1>1, CallsOfTop, FrameFields DEF RouteInv, ChunksFromWire, Running
<1>. DEFINE rest == [type |-> "data", frames |-> Head(stack).frames \ {f}]
<1>4. rest \in StackFrames /\ FrameSound(rest)
  BY <1>3 DEF StackFrames, FrameSound
<1>5. Rest(f) \in Seq(StackFrames) /\ CallsSound(Rest(f))
  BY <1>2, <1>4, SoundPush DEF Rest
<1>6. ASSUME f.id \in DOMAIN registry PROVE registry[f.id] = f.req
  BY <1>3, <1>6 DEF RouteInv, WireAgrees, OnWire
<1>. QED
  BY <1>3, <1>5, <1>6 DEF RouteInv, RegistrySound, MuxTypeOK

\* Deleting the entry of a request that is no longer in progress.
LEMMA RouteWithout ==
  ASSUME RouteInv, MuxTypeOK', ~Running("ready"), NEW r \in Requests,
         sid[r] \in DOMAIN registry, registry[sid[r]] = r,
         NEW end \in Statuses \ {"new", "live"},
         status' = [status EXCEPT ![r] = end],
         registry' = Without(sid[r]),
         UNCHANGED <<currentId, sid, wire>>,
         OwnResponseOnly',
         NEW calls \in Seq(StackFrames), CallsSound(calls), stack' = calls
  PROVE  RouteInv'
<1>1. ReadyIsInnermost' /\ ChunksFromWire' /\ ~Running("ready")'
  BY SoundNext DEF OnWire
<1>2. WireIdsIssued'
  BY DEF RouteInv, WireIdsIssued
<1>3. DOMAIN registry' = DOMAIN registry \ {sid[r]}
      /\ \A i \in DOMAIN registry' : registry'[i] = registry[i]
  BY DEF Without
<1>4. RegistrySound'
  BY <1>3 DEF RouteInv, RegistrySound, MuxTypeOK
<1>5. WireAgrees' /\ IdsIncrease'
  BY <1>3 DEF RouteInv, WireAgrees, IdsIncrease
<1>6. LiveIsRegistered'
  <2>. SUFFICES ASSUME NEW q \in Requests, status'[q] = "live"
                PROVE  sid[q] \in DOMAIN registry' /\ registry'[sid[q]] = q
    BY DEF LiveIsRegistered
  <2>1. q # r /\ status[q] = "live"
    BY DEF RouteInv, MuxTypeOK
  <2>2. sid[q] \in DOMAIN registry /\ registry[sid[q]] = q
    BY <2>1 DEF RouteInv, ResponsesReachTheirRequest, LiveIsRegistered
  <2>3. CASE sid[q] # sid[r]
    BY <1>3, <2>2, <2>3
  <2>4. CASE sid[q] = sid[r]
    BY <2>1, <2>2, <2>4
  <2>. QED
    BY <2>3, <2>4
<1>. QED
  BY <1>1, <1>2, <1>4, <1>5, <1>6 DEF RouteInv, ResponsesReachTheirRequest

LEMMA RouteStep ==
  ASSUME MuxAssumption, "fnf" \notin ReenterFrom, RouteInv, MuxStep
  PROVE  RouteInv'
<1>0. MuxTypeOK'
  BY MuxStepType DEF RouteInv
<1>1. CASE ReturnReady
  <2>1. /\ stack # <<>> /\ stack' = Tail(stack)
        /\ currentId' = currentId + 1
        /\ currentId \in Nat
        /\ UNCHANGED <<registry, status, sid, wire, got>>
    BY <1>1 DEF ReturnReady, Running, RouteInv, ReadyIsInnermost, MuxTypeOK
  <2>2. Tail(stack) \in Seq(StackFrames) /\ CallsSound(Tail(stack))
    BY <2>1, SoundTail DEF RouteInv
  <2>3. ReadyIsInnermost' /\ ChunksFromWire' /\ ~Running("ready")'
    BY <2>1, <2>2, SoundNext DEF OnWire
  <2>4. WireIdsIssued'
    <3>1. \A i \in DOMAIN wire : wire[i] \in Frames
      BY DEF RouteInv, MuxTypeOK
    <3>2. \A i \in DOMAIN wire : wire[i].id \in Nat
      BY <3>1 DEF Frames, StreamIds
    <3>. QED
      BY <2>1, <3>2 DEF RouteInv, WireIdsIssued
  <2>5. RegistrySound'
    BY <2>1 DEF RouteInv, RegistrySound, MuxTypeOK, StreamIds
  <2>6. WireAgrees' /\ IdsIncrease' /\ ResponsesReachTheirRequest'
    BY <2>1 DEF RouteInv, WireAgrees, IdsIncrease, ResponsesReachTheirRequest,
                LiveIsRegistered, OwnResponseOnly
  <2>. QED
    BY <1>0, <2>3, <2>4, <2>5, <2>6 DEF RouteInv
<1>2. CASE ReturnCallback \/ HandleDataReturns \/ CloseReturns
  <2>1. /\ stack # <<>> /\ stack' = Tail(stack) /\ ~Running("ready")
        /\ UNCHANGED <<currentId, registry, status, sid, wire, got>>
    BY <1>2 DEF ReturnCallback, HandleDataReturns, CloseReturns, Running
  <2>2. Tail(stack) \in Seq(StackFrames) /\ CallsSound(Tail(stack))
    BY <2>1, SoundTail DEF RouteInv
  <2>. QED
    BY <1>0, <2>1, <2>2, RouteUnchanged
<1>3. ASSUME NEW r \in Requests, CancelLive(r) PROVE RouteInv'
  <2>1. ~Running("ready")
    BY <1>3, AppHasNoReady DEF CancelLive
  <2>2. stack \in Seq(StackFrames) /\ CallsSound(stack)
    BY <2>1, SoundStack DEF RouteInv
  <2>3. sid[r] \in DOMAIN registry /\ registry[sid[r]] = r
    BY <1>3 DEF CancelLive, RouteInv, ResponsesReachTheirRequest, LiveIsRegistered
  <2>4. OwnResponseOnly'
    BY <1>3 DEF CancelLive, RouteInv, ResponsesReachTheirRequest, OwnResponseOnly
  <2>5. /\ status' = [status EXCEPT ![r] = "cancelled"]
        /\ registry' = Without(sid[r])
        /\ UNCHANGED <<currentId, sid, wire>>
        /\ stack' = stack
        /\ "cancelled" \in Statuses \ {"new", "live"}
    BY <1>3 DEF CancelLive, Statuses
  <2>. QED
    BY <1>0, <2>1, <2>2, <2>3, <2>4, <2>5, RouteWithout
<1>4. CASE HandleData
  <2>1. PICK frames \in SUBSET {f \in Unanswered : f.req \notin Fnf} :
          stack' = Push([type |-> "data", frames |-> frames], stack)
    BY <1>4 DEF HandleData
  <2>2. frames \subseteq OnWire /\ frames \subseteq Frames
    BY <2>1 DEF Unanswered, OnWire, RouteInv, MuxTypeOK
  <2>. DEFINE frame == [type |-> "data", frames |-> frames]
  <2>3. frame \in StackFrames /\ FrameSound(frame)
    BY <2>2 DEF StackFrames, FrameSound
  <2>4. ~Running("ready")
    BY <1>4 DEF HandleData, Running
  <2>5. stack \in Seq(StackFrames) /\ CallsSound(stack)
    BY <2>4, SoundStack DEF RouteInv
  <2>6. Push(frame, stack) \in Seq(StackFrames) /\ CallsSound(Push(frame, stack))
    BY <2>3, <2>5, SoundPush
  <2>7. UNCHANGED <<currentId, registry, status, sid, wire, got>>
    BY <1>4 DEF HandleData
  <2>. QED
    BY <1>0, <2>1, <2>4, <2>6, <2>7, RouteUnchanged
<1>5. CASE HandleFrame
  <2>1. Running("data") /\ ~Running("ready")
    BY <1>5 DEF HandleFrame, Running
  <2>2. PICK f \in Head(stack).frames :
          /\ f.id \in DOMAIN registry
          /\ Settle(registry[f.id], "completed")
          /\ got' = [got EXCEPT ![registry[f.id]] = @ \cup {f.req}]
          /\ registry' = Without(sid[registry[f.id]])
          /\ stack' = CallbackFrom("response", Rest(f))
    BY <1>5 DEF HandleFrame
  <2>. DEFINE calls == CallbackFrom("response", Rest(f))
  <2>3. /\ Rest(f) \in Seq(StackFrames) /\ CallsSound(Rest(f))
        /\ registry[f.id] = f.req /\ f.req \in Requests /\ sid[f.req] = f.id
    BY <2>1, <2>2, RouteFrame
  <2>4. calls \in Seq(StackFrames) /\ CallsSound(calls)
    BY <2>3, SoundCallback, CallbackType DEF Callbacks
  <2>5. OwnResponseOnly'
    BY <2>2, <2>3 DEF RouteInv, ResponsesReachTheirRequest, OwnResponseOnly, MuxTypeOK
  <2>6. /\ status' = [status EXCEPT ![f.req] = "completed"]
        /\ registry' = Without(sid[f.req])
        /\ UNCHANGED <<currentId, sid, wire>>
        /\ "completed" \in Statuses \ {"new", "live"}
    BY <1>5, <2>2, <2>3 DEF HandleFrame, Settle, Statuses
  <2>7. stack' = calls
    BY <2>2
  <2>8. sid[f.req] \in DOMAIN registry /\ registry[sid[f.req]] = f.req
    BY <2>2, <2>3
  <2>. HIDE DEF calls
  <2>. QED
    BY <1>0, <2>1, <2>3, <2>4, <2>5, <2>6, <2>7, <2>8, RouteWithout
<1>6. CASE DropFrame
  <2>1. Running("data") /\ ~Running("ready")
    BY <1>6 DEF DropFrame, Running
  <2>2. PICK f \in Head(stack).frames : stack' = Rest(f)
    BY <1>6 DEF DropFrame
  <2>3. Rest(f) \in Seq(StackFrames) /\ CallsSound(Rest(f))
    BY <2>1, RouteFrame
  <2>4. UNCHANGED <<currentId, registry, status, sid, wire, got>>
    BY <1>6 DEF DropFrame
  <2>. QED
    BY <1>0, <2>1, <2>2, <2>3, <2>4, RouteUnchanged
<1>7. CASE Close
  <2>1. ~Running("ready")
    BY <1>7, AppHasNoReady DEF Close
  <2>. DEFINE frame == [type |-> "close", ids |-> DOMAIN registry]
  <2>2. frame \in StackFrames /\ FrameSound(frame)
    BY DEF StackFrames, FrameSound, RouteInv, MuxTypeOK
  <2>3. stack \in Seq(StackFrames) /\ CallsSound(stack)
    BY <2>1, SoundStack DEF RouteInv
  <2>4. Push(frame, stack) \in Seq(StackFrames) /\ CallsSound(Push(frame, stack))
    BY <2>2, <2>3, SoundPush
  <2>5. UNCHANGED <<currentId, registry, status, sid, wire, got>> /\ stack' = Push(frame, stack)
    BY <1>7 DEF Close
  <2>. QED
    BY <1>0, <2>1, <2>4, <2>5, RouteUnchanged
<1>8. CASE CloseStream
  <2>1. /\ Running("close") /\ ~Running("ready") /\ stack # <<>>
        /\ UNCHANGED <<currentId, registry, sid, wire, got>>
    BY <1>8 DEF CloseStream, Running
  <2>2. PICK id \in Head(stack).ids :
          \/ /\ id \in DOMAIN registry
             /\ Settle(registry[id], "failed")
             /\ stack' = CallbackFrom("close", OtherKeys(id))
          \/ /\ status' = status
             /\ stack' = OtherKeys(id)
    BY <1>8 DEF CloseStream
  <2>3. OtherKeys(id) \in Seq(StackFrames) /\ CallsSound(OtherKeys(id))
    <3>. DEFINE frame == [type |-> "close", ids |-> Head(stack).ids \ {id}]
    <3>1. frame \in StackFrames /\ FrameSound(frame)
      BY <2>1, FrameFields DEF StackFrames, FrameSound, RouteInv, MuxTypeOK
    <3>2. Tail(stack) \in Seq(StackFrames) /\ CallsSound(Tail(stack))
      BY <2>1, SoundTail DEF RouteInv
    <3>. QED
      BY <3>1, <3>2, SoundPush DEF OtherKeys
  <2>4. /\ CallbackFrom("close", OtherKeys(id)) \in Seq(StackFrames)
        /\ CallsSound(CallbackFrom("close", OtherKeys(id)))
    BY <2>3, SoundCallback, CallbackType DEF Callbacks
  <2>5. \A q \in Requests : /\ status'[q] = "live" => status[q] = "live"
                            /\ status'[q] = "new" => status[q] = "new"
    BY <2>2 DEF Settle, RouteInv, MuxTypeOK
  <2>. QED
    BY <1>0, <2>1, <2>2, <2>3, <2>4, <2>5, RouteUnchanged
<1>. QED
  BY <1>1, <1>2, <1>3, <1>4, <1>5, <1>6, <1>7, <1>8 DEF MuxStep

LEMMA RouteInductive ==
  ASSUME MuxAssumption, "fnf" \notin ReenterFrom
  PROVE  /\ MuxInit => RouteInv
         /\ RouteInv /\ [MuxNext]_muxVars => RouteInv'
<1>1. ASSUME MuxInit PROVE RouteInv
  <2>1. MuxTypeOK
    BY <1>1 DEF MuxInit, MuxTypeOK, Statuses
  <2>2. stack = <<>> /\ wire = <<>> /\ Calls(stack) = {}
    BY <1>1 DEF MuxInit, Calls
  <2>3. ReadyIsInnermost /\ WireIdsIssued /\ WireAgrees /\ ChunksFromWire /\ IdsIncrease
    BY <2>2 DEF ReadyIsInnermost, Running, WireIdsIssued, WireAgrees, ChunksFromWire, IdsIncrease
  <2>4. RegistrySound /\ ResponsesReachTheirRequest
    BY <1>1 DEF MuxInit, RegistrySound, ResponsesReachTheirRequest, LiveIsRegistered, OwnResponseOnly
  <2>. QED
    BY <2>1, <2>3, <2>4 DEF RouteInv
<1>2. ASSUME RouteInv, [MuxNext]_muxVars PROVE RouteInv'
  <2>1. CASE MuxStep
    BY <1>2, <2>1, RouteStep
  <2>2. ASSUME NEW r \in Requests, Request(r) PROVE RouteInv'
    BY <1>2, <2>2, RouteRequest
  <2>3. CASE UNCHANGED muxVars
    <3>1. MuxTypeOK'
      BY <1>2, <2>3 DEF RouteInv, MuxTypeOK, muxVars
    <3>2. ReadyIsInnermost' /\ WireIdsIssued' /\ WireAgrees' /\ ChunksFromWire' /\ IdsIncrease'
      BY <1>2, <2>3 DEF RouteInv, ReadyIsInnermost, Running, WireIdsIssued, WireAgrees,
                        ChunksFromWire, OnWire, IdsIncrease, muxVars
    <3>3. RegistrySound' /\ ResponsesReachTheirRequest'
      BY <1>2, <2>3 DEF RouteInv, RegistrySound, ResponsesReachTheirRequest,
                        LiveIsRegistered, OwnResponseOnly, muxVars
    <3>. QED
      BY <3>1, <3>2, <3>3 DEF RouteInv
  <2>. QED
    BY <1>2, <2>1, <2>2, <2>3 DEF MuxNext
<1>. QED
  BY <1>1, <1>2

\* An application that makes no request while StreamIdGenerator.next is in a
\* fire-and-forget's handleReady never has an id handed out twice ...
THEOREM IdsIncreaseCorrect ==
  ASSUME MuxAssumption, "fnf" \notin ReenterFrom
  PROVE  MuxSpec => []IdsIncrease
<1>1. RouteInv => IdsIncrease
  BY DEF RouteInv
<1>. QED
  BY <1>1, RouteInductive, PTL DEF MuxSpec

\* ... and every request is the one registered under its id, whatever else is
\* sent, cancelled or closed from callbacks: it only gets its own response.
THEOREM RoutingCorrect ==
  ASSUME MuxAssumption, "fnf" \notin ReenterFrom
  PROVE  MuxSpec => []ResponsesReachTheirRequest
<1>1. RouteInv => ResponsesReachTheirRequest
  BY DEF RouteInv
<1>. QED
  BY <1>1, RouteInductive, PTL DEF MuxSpec

-----------------------------------------------------------------------------
(* Outcomes. *)

\* mux.close is among the calls once at most ...
OneClose(calls) ==
  \A i, j \in DOMAIN calls : calls[i].type = "close" /\ calls[j].type = "close" => i = j

NoClose(calls) == \A f \in Calls(calls) : f.type # "close"

Covers(ids) == \A r \in Requests : Written(r) /\ status[r] = "live" => sid[r] \in ids

\* ... while the connection is closing, and the keys it has left cover the
\* requests that were written and are in progress, whatever the callbacks above
\* it have done.
ClosingWith(calls) ==
  /\ \A f \in Calls(calls) : f.type = "close" => connState = "closing" /\ Covers(f.ids)
  /\ OneClose(calls)

\* A receiver has had no signal before its request is settled, and just one if
\* that was by close.
SignalsTold ==
  \A r \in Requests :
    /\ status[r] \in {"new", "live", "cancelled"} => signals[r] = 0
    /\ status[r] = "failed" => signals[r] = 1 /\ connState # "open"

\* The registry holds streams in progress, and those that close has failed.
EntriesSound == \A id \in DOMAIN registry : status[registry[id]] \in {"live", "failed"}

NewUnsent == \A r \in Requests : status[r] = "new" => ~Written(r)

OutcomeInv ==
  /\ RouteInv
  /\ ClosingWith(stack)
  /\ SignalsTold
  /\ EntriesSound
  /\ NewUnsent
  /\ OpenMeansWritten
  /\ ClosedMeansTold

ToldOncePerStep == \A r \in Requests : ToldOnce(r)

LEMMA OneClosePush ==
  ASSUME NEW calls \in Seq(StackFrames), OneClose(calls), NEW frame \in StackFrames,
         frame.type # "close" \/ NoClose(calls)
  PROVE  OneClose(Push(frame, calls))
<1>. PICK s : s = Push(frame, calls)
  OBVIOUS
<1>1. /\ DOMAIN calls = 1 .. Len(calls) /\ Len(calls) \in Nat
      /\ DOMAIN s = 1 .. Len(calls) + 1
      /\ s[1] = frame
      /\ \A i \in 2 .. Len(calls) + 1 : s[i] = calls[i - 1]
  BY DEF Push
<1>2. \A i \in DOMAIN s : i = 1 \/ (i - 1 \in DOMAIN calls /\ s[i] = calls[i - 1])
  BY <1>1
<1>3. ASSUME NEW i \in DOMAIN s, NEW j \in DOMAIN s, s[i].type = "close", s[j].type = "close"
      PROVE  i = j
  <2>1. CASE frame.type # "close"
    <3>1. i # 1 /\ j # 1
      BY <1>1, <1>3, <2>1
    <3>2. i - 1 = j - 1
      BY <1>2, <1>3, <3>1 DEF OneClose
    <3>. QED
      BY <1>1, <3>2
  <2>2. CASE NoClose(calls)
    <3>1. i = 1 /\ j = 1
      BY <1>2, <1>3, <2>2 DEF NoClose, Calls
    <3>. QED
      BY <3>1
  <2>. QED
    BY <2>1, <2>2
<1>. QED
  BY <1>3 DEF OneClose

LEMMA OneCloseTail ==
  ASSUME NEW calls \in Seq(StackFrames), calls # <<>>, OneClose(calls)
  PROVE  /\ OneClose(Tail(calls))
         /\ Head(calls).type = "close" => NoClose(Tail(calls))
<1>1. /\ Head(calls) = calls[1]
      /\ Len(calls) \in Nat \ {0}
      /\ Tail(calls) \in Seq(StackFrames)
      /\ Len(Tail(calls)) = Len(calls) - 1
      /\ \A i \in 1 .. Len(calls) - 1 : Tail(calls)[i] = calls[i + 1]
  BY HeadTailProperties
<1>2. DOMAIN calls = 1 .. Len(calls) /\ DOMAIN Tail(calls) = 1 .. Len(calls) - 1
  BY <1>1
<1>3. \A i \in DOMAIN Tail(calls) :
        i \in Int /\ i + 1 \in DOMAIN calls /\ i + 1 # 1 /\ Tail(calls)[i] = calls[i + 1]
  BY <1>1, <1>2
<1>4. OneClose(Tail(calls))
  <2>. SUFFICES ASSUME NEW i \in DOMAIN Tail(calls), NEW j \in DOMAIN Tail(calls),
                       Tail(calls)[i].type = "close", Tail(calls)[j].type = "close"
                PROVE  i = j
    BY DEF OneClose
  <2>1. i + 1 = j + 1
    BY <1>3 DEF OneClose
  <2>. QED
    BY <1>3, <2>1
<1>5. ASSUME Head(calls).type = "close" PROVE NoClose(Tail(calls))
  <2>. SUFFICES ASSUME NEW i \in DOMAIN Tail(calls), Tail(calls)[i].type = "close" PROVE FALSE
    BY DEF NoClose, Calls
  <2>1. 1 \in DOMAIN calls /\ calls[1].type = "close"
    BY <1>1, <1>2, <1>5
  <2>. QED
    BY <1>3, <2>1 DEF OneClose
<1>. QED
  BY <1>4, <1>5

LEMMA ClosingPush ==
  ASSUME NEW calls \in Seq(StackFrames), ClosingWith(calls),
         NEW frame \in StackFrames, frame.type # "close"
  PROVE  Push(frame, calls) \in Seq(StackFrames) /\ ClosingWith(Push(frame, calls))
BY PushType, CallsAfterPush, OneClosePush DEF ClosingWith

LEMMA ClosingCallback ==
  ASSUME NEW calls \in Seq(StackFrames), ClosingWith(calls), NEW kind \in Callbacks
  PROVE  CallbackFrom(kind, calls) \in Seq(StackFrames) /\ ClosingWith(CallbackFrom(kind, calls))
BY ClosingPush DEF CallbackFrom, StackFrames

LEMMA ClosingTail ==
  ASSUME OutcomeInv, stack # <<>>
  PROVE  /\ Tail(stack) \in Seq(StackFrames) /\ ClosingWith(Tail(stack))
         /\ Running("close") => /\ NoClose(Tail(stack))
                                /\ connState = "closing" /\ Covers(Head(stack).ids)
<1>1. stack \in Seq(StackFrames) /\ ClosingWith(stack)
  BY DEF OutcomeInv, RouteInv, MuxTypeOK
<1>2. /\ Tail(stack) \in Seq(StackFrames)
      /\ Calls(stack) = {Head(stack)} \cup Calls(Tail(stack))
  BY <1>1, CallsOfTop
<1>. QED
  BY <1>1, <1>2, OneCloseTail DEF ClosingWith, Running

\* Such calls stay so while no further written request is in progress. While the
\* connection is open there is no mux.close among them.
LEMMA ClosingNext ==
  ASSUME NEW calls \in Seq(StackFrames), ClosingWith(calls),
         stack' = calls, connState' = connState,
         connState # "open" =>
           \A r \in Requests : Written(r)' /\ status'[r] = "live" =>
             Written(r) /\ status[r] = "live" /\ sid'[r] = sid[r]
  PROVE  ClosingWith(stack)'
<1>1. ASSUME NEW f \in Calls(calls), f.type = "close"
      PROVE  connState' = "closing" /\ Covers(f.ids)'
  BY <1>1 DEF ClosingWith, Covers
<1>. QED
  BY <1>1 DEF ClosingWith, OneClose, Calls

\* Requests keep their outcome when a step only changes ids and calls.
LEMMA OutcomesUnchanged ==
  ASSUME OutcomeInv, UNCHANGED <<registry, status, signals, wire>>,
         connState' = connState
  PROVE  SignalsTold' /\ EntriesSound' /\ NewUnsent' /\ OpenMeansWritten' /\ ClosedMeansTold'
BY DEF OutcomeInv, SignalsTold, EntriesSound, NewUnsent, OpenMeansWritten, ClosedMeansTold, Written

LEMMA OutcomeCalls ==
  ASSUME OutcomeInv, RouteInv', UNCHANGED <<connState, registry, status, sid, signals, wire>>,
         NEW calls \in Seq(StackFrames), ClosingWith(calls), stack' = calls
  PROVE  OutcomeInv' /\ ToldOncePerStep
<1>1. ClosingWith(stack)'
  BY ClosingNext DEF Written
<1>. QED
  BY <1>1, OutcomesUnchanged DEF OutcomeInv, ToldOncePerStep, ToldOnce

LEMMA OutcomeRequest ==
  ASSUME MuxAssumption, "fnf" \notin ReenterFrom, OutcomeInv, NEW r \in Requests, Request(r)
  PROVE  OutcomeInv' /\ ToldOncePerStep
<1>1. RouteInv'
  BY RouteRequest DEF OutcomeInv
<1>2. stack \in Seq(StackFrames) /\ ClosingWith(stack)
  BY DEF OutcomeInv, RouteInv, MuxTypeOK
<1>3. /\ status[r] = "new" /\ ~Running("ready") /\ signals[r] = 0 /\ ~Written(r)
      /\ \A id \in DOMAIN registry : registry[id] # r
  BY AppHasNoReady DEF Request, OutcomeInv, RouteInv, RegistrySound, SignalsTold, NewUnsent
<1>4. /\ status \in [Requests -> Statuses] /\ signals \in [Requests -> Nat]
      /\ sid \in [Requests -> Nat]
      /\ connState \in {"open", "closing", "closed"}
      /\ \A id \in DOMAIN registry : registry[id] \in Requests
      /\ NextId \in StreamIds
  BY DEF OutcomeInv, RouteInv, MuxTypeOK, NextId, StreamIds
<1>5. CASE connState = "closed" /\ HandleReject(r, stack)
  <2>1. /\ UNCHANGED <<connState, registry, sid, wire>>
        /\ status' = [status EXCEPT ![r] = "rejected"]
        /\ signals' = [signals EXCEPT ![r] = @ + 1]
        /\ stack' = CallbackFrom("reject", stack)
    BY <1>5 DEF HandleReject, Settle
  <2>2. ClosingWith(stack)'
    <3>1. \A q \in Requests : Written(q)' /\ status'[q] = "live" =>
            Written(q) /\ status[q] = "live" /\ sid'[q] = sid[q]
      BY <1>4, <2>1 DEF Written
    <3>2. /\ CallbackFrom("reject", stack) \in Seq(StackFrames)
          /\ ClosingWith(CallbackFrom("reject", stack))
      BY <1>2, ClosingCallback DEF Callbacks
    <3>. QED
      BY <2>1, <3>1, <3>2, ClosingNext
  <2>3. SignalsTold' /\ EntriesSound'
    BY <1>3, <1>4, <2>1 DEF OutcomeInv, SignalsTold, EntriesSound
  <2>4. NewUnsent' /\ OpenMeansWritten' /\ ClosedMeansTold'
    BY <1>4, <1>5, <2>1 DEF OutcomeInv, NewUnsent, OpenMeansWritten, ClosedMeansTold, Written
  <2>5. ToldOncePerStep
    BY <1>3, <1>4, <2>1 DEF ToldOncePerStep, ToldOnce
  <2>. QED
    BY <1>1, <2>2, <2>3, <2>4, <2>5 DEF OutcomeInv
<1>6. ASSUME connState # "closed", connState' = connState, SendRequest(r, NextId),
             NEW end \in {"live", "completed"}, status' = [status EXCEPT ![r] = end],
             sid' = [sid EXCEPT ![r] = NextId]
      PROVE  /\ NewUnsent' /\ OpenMeansWritten' /\ ClosedMeansTold'
             /\ connState # "open" =>
                  \A q \in Requests : Written(q)' /\ status'[q] = "live" =>
                    Written(q) /\ status[q] = "live" /\ sid'[q] = sid[q]
  <2>1. /\ OnWire \subseteq OnWire'
        /\ connState = "open" => \E i \in DOMAIN wire' : wire'[i] = [id |-> NextId, req |-> r]
        /\ \A i \in DOMAIN wire' : \/ i \in DOMAIN wire /\ wire'[i] = wire[i]
                                   \/ wire'[i] = [id |-> NextId, req |-> r]
    BY <1>3, <1>6, WireAfterSend DEF OutcomeInv
  <2>2. \A q \in Requests : Written(q)' => Written(q) \/ q = r
    BY <2>1 DEF Written
  <2>3. \A q \in Requests : Written(q) => Written(q)'
    BY <2>1 DEF Written, OnWire
  <2>4. connState = "open" => Written(r)'
    BY <2>1 DEF Written
  <2>5. ASSUME connState # "open" PROVE wire' = wire
    BY <1>6, <2>5 DEF SendRequest
  <2>6. NewUnsent'
    BY <1>4, <1>6, <2>2 DEF OutcomeInv, NewUnsent
  <2>7. OpenMeansWritten' /\ ClosedMeansTold'
    BY <1>4, <1>6, <2>3, <2>4 DEF OutcomeInv, OpenMeansWritten, ClosedMeansTold
  <2>8. ASSUME connState # "open", NEW q \in Requests, Written(q)', status'[q] = "live"
        PROVE  Written(q) /\ status[q] = "live" /\ sid'[q] = sid[q]
    <3>1. Written(q)
      BY <2>5, <2>8 DEF Written
    <3>2. q # r
      BY <1>3, <3>1
    <3>. QED
      BY <1>4, <1>6, <2>8, <3>1, <3>2
  <2>. QED
    BY <2>6, <2>7, <2>8
<1>7. CASE connState # "closed" /\ HandleReadyStream(r, NextId, stack)
  <2>1. /\ connState' = connState
        /\ status' = [status EXCEPT ![r] = "live"]
        /\ sid' = [sid EXCEPT ![r] = NextId]
        /\ registry' = [i \in DOMAIN registry \cup {NextId} |-> IF i = NextId THEN r ELSE registry[i]]
        /\ SendRequest(r, NextId)
        /\ stack' = stack
        /\ signals' = signals
    BY <1>7 DEF HandleReadyStream
  <2>2. ClosingWith(stack)' /\ NewUnsent' /\ OpenMeansWritten' /\ ClosedMeansTold'
    BY <1>2, <1>6, <1>7, <2>1, ClosingNext
  <2>3. SignalsTold' /\ EntriesSound'
    BY <1>3, <1>4, <2>1 DEF OutcomeInv, SignalsTold, EntriesSound
  <2>. QED
    BY <1>1, <2>1, <2>2, <2>3 DEF OutcomeInv, ToldOncePerStep, ToldOnce
<1>8. CASE connState # "closed" /\ HandleReadyFnf(r, NextId, stack)
  <2>. PICK frame : frame = [type |-> "ready", id |-> NextId]
    OBVIOUS
  <2>1. /\ connState' = connState
        /\ status' = [status EXCEPT ![r] = "completed"]
        /\ signals' = [signals EXCEPT ![r] = @ + 1]
        /\ sid' = [sid EXCEPT ![r] = NextId]
        /\ registry' = registry
        /\ SendRequest(r, NextId)
        /\ stack' = Push(frame, stack)
    BY <1>8 DEF HandleReadyFnf, Settle
  <2>2. frame \in StackFrames /\ frame.type # "close"
    BY <1>4 DEF StackFrames
  <2>3. Push(frame, stack) \in Seq(StackFrames) /\ ClosingWith(Push(frame, stack))
    BY <1>2, <2>2, ClosingPush
  <2>4. ClosingWith(stack)' /\ NewUnsent' /\ OpenMeansWritten' /\ ClosedMeansTold'
    BY <1>6, <1>8, <2>1, <2>3, ClosingNext
  <2>5. SignalsTold' /\ EntriesSound'
    BY <1>3, <1>4, <2>1 DEF OutcomeInv, SignalsTold, EntriesSound
  <2>6. ToldOncePerStep
    BY <1>3, <1>4, <2>1 DEF ToldOncePerStep, ToldOnce
  <2>. QED
    BY <1>1, <2>4, <2>5, <2>6 DEF OutcomeInv
<1>. QED
  BY <1>5, <1>7, <1>8 DEF Request, CreateRequestStream

\* What becomes of a request whose entry leaves the registry as it ends.
LEMMA OutcomeWithout ==
  ASSUME OutcomeInv, NEW r \in Requests, status[r] \in {"live", "failed"},
         NEW end \in {"cancelled", "completed"},
         status' = [status EXCEPT ![r] = end], registry' = Without(sid[r]),
         UNCHANGED <<connState, sid, wire>>
  PROVE  /\ EntriesSound' /\ NewUnsent' /\ OpenMeansWritten' /\ ClosedMeansTold'
         /\ \A q \in Requests : Written(q)' /\ status'[q] = "live" =>
              Written(q) /\ status[q] = "live" /\ sid'[q] = sid[q]
<1>1. /\ status \in [Requests -> Statuses]
      /\ \A id \in DOMAIN registry : registry[id] \in Requests
  BY DEF OutcomeInv, RouteInv, MuxTypeOK
<1>2. \A id \in DOMAIN registry' :
        id \in DOMAIN registry /\ id # sid[r] /\ registry'[id] = registry[id]
  BY DEF Without
<1>3. \A id \in DOMAIN registry' : registry[id] # r
  BY <1>2 DEF OutcomeInv, RouteInv, RegistrySound
<1>4. EntriesSound'
  BY <1>1, <1>2, <1>3 DEF OutcomeInv, EntriesSound
<1>5. NewUnsent' /\ OpenMeansWritten' /\ ClosedMeansTold'
  BY <1>1 DEF OutcomeInv, NewUnsent, OpenMeansWritten, ClosedMeansTold, Written
<1>. QED
  BY <1>1, <1>4, <1>5 DEF Written

\* A response of the chunk, also one that comes after close has failed its receiver.
LEMMA OutcomeHandleFrame ==
  ASSUME MuxAssumption, OutcomeInv, RouteInv', HandleFrame
  PROVE  OutcomeInv' /\ ToldOncePerStep
<1>1. Running("data") /\ stack # <<>> /\ UNCHANGED <<connState, sid, wire>>
  BY DEF HandleFrame, Running
<1>2. PICK f \in Head(stack).frames :
        /\ f.id \in DOMAIN registry
        /\ Settle(registry[f.id], "completed")
        /\ got' = [got EXCEPT ![registry[f.id]] = @ \cup {f.req}]
        /\ registry' = Without(sid[registry[f.id]])
        /\ stack' = CallbackFrom("response", Rest(f))
  BY DEF HandleFrame
<1>3. f \in OnWire /\ registry[f.id] = f.req /\ f.req \in Requests /\ Rest(f) \in Seq(StackFrames)
  BY <1>1, <1>2, RouteFrame DEF OutcomeInv
<1>4. /\ status[f.req] \in {"live", "failed"}
      /\ status' = [status EXCEPT ![f.req] = "completed"]
      /\ signals' = [signals EXCEPT ![f.req] = @ + 1]
      /\ registry' = Without(sid[f.req])
  BY <1>2, <1>3 DEF Settle, OutcomeInv, EntriesSound
<1>5. ClosingWith(Rest(f))
  <2>. PICK frame : frame = [type |-> "data", frames |-> Head(stack).frames \ {f}]
    OBVIOUS
  <2>1. Head(stack).frames \subseteq Frames
    BY <1>1, FrameFields DEF OutcomeInv, RouteInv, MuxTypeOK
  <2>2. frame \in StackFrames /\ frame.type # "close"
    BY <2>1 DEF StackFrames
  <2>3. Tail(stack) \in Seq(StackFrames) /\ ClosingWith(Tail(stack))
    BY <1>1, ClosingTail
  <2>4. Rest(f) = Push(frame, Tail(stack))
    BY DEF Rest
  <2>. QED
    BY <2>2, <2>3, <2>4, ClosingPush
<1>6. /\ EntriesSound' /\ NewUnsent' /\ OpenMeansWritten' /\ ClosedMeansTold'
      /\ \A q \in Requests : Written(q)' /\ status'[q] = "live" =>
           Written(q) /\ status[q] = "live" /\ sid'[q] = sid[q]
  BY <1>1, <1>3, <1>4, OutcomeWithout
<1>7. ClosingWith(stack)'
  <2>1. /\ CallbackFrom("response", Rest(f)) \in Seq(StackFrames)
        /\ ClosingWith(CallbackFrom("response", Rest(f)))
    BY <1>3, <1>5, ClosingCallback DEF Callbacks
  <2>. QED
    BY <1>1, <1>2, <1>6, <2>1, ClosingNext
<1>8. status \in [Requests -> Statuses] /\ signals \in [Requests -> Nat]
  BY DEF OutcomeInv, RouteInv, MuxTypeOK
<1>9. SignalsTold'
  BY <1>1, <1>3, <1>4, <1>8 DEF OutcomeInv, SignalsTold
<1>10. ToldOncePerStep
  <2>1. CASE status[f.req] = "live"
    BY <1>3, <1>4, <1>8, <2>1 DEF OutcomeInv, SignalsTold, ToldOncePerStep, ToldOnce
  <2>2. CASE status[f.req] = "failed"
    <3>1. signals[f.req] = 1 /\ connState # "open"
      BY <1>3, <2>2 DEF OutcomeInv, SignalsTold
    <3>2. got'[f.req] = {f.req}
      BY <1>2, <1>3 DEF OutcomeInv, RouteInv, MuxTypeOK, ResponsesReachTheirRequest, OwnResponseOnly
    <3>3. LateResponse(f.req)
      BY <1>1, <2>2, <3>1, <3>2 DEF LateResponse
    <3>. QED
      BY <1>3, <1>4, <1>8, <3>3 DEF ToldOncePerStep, ToldOnce
  <2>. QED
    BY <1>4, <2>1, <2>2
<1>. QED
  BY <1>6, <1>7, <1>9, <1>10 DEF OutcomeInv

\* One round of the loop of mux.close.
LEMMA OutcomeCloseStream ==
  ASSUME OutcomeInv, RouteInv', CloseStream
  PROVE  OutcomeInv' /\ ToldOncePerStep
<1>1. /\ Running("close") /\ stack # <<>> /\ stack \in Seq(StackFrames)
      /\ UNCHANGED <<connState, registry, sid, wire>>
  BY DEF CloseStream, Running, OutcomeInv, RouteInv, MuxTypeOK
<1>2. /\ connState = "closing" /\ Covers(Head(stack).ids)
      /\ Tail(stack) \in Seq(StackFrames) /\ ClosingWith(Tail(stack)) /\ NoClose(Tail(stack))
  BY <1>1, ClosingTail
<1>3. PICK id \in Head(stack).ids :
        IF id \in DOMAIN registry /\ status[registry[id]] = "live"
        THEN /\ Settle(registry[id], "failed")
             /\ stack' = CallbackFrom("close", OtherKeys(id))
        ELSE /\ UNCHANGED <<status, signals>>
             /\ stack' = OtherKeys(id)
  BY DEF CloseStream
<1>. PICK frame, calls : /\ frame = [type |-> "close", ids |-> Head(stack).ids \ {id}]
                         /\ calls = OtherKeys(id)
  OBVIOUS
<1>4. frame \in StackFrames
  BY <1>1, FrameFields DEF StackFrames, OutcomeInv, RouteInv
<1>5. /\ calls \in Seq(StackFrames) /\ OneClose(calls)
      /\ Calls(calls) = {frame} \cup Calls(Tail(stack))
  <2>1. calls = Push(frame, Tail(stack))
    BY DEF OtherKeys
  <2>. QED
    BY <1>2, <1>4, <2>1, PushType, CallsAfterPush, OneClosePush DEF ClosingWith
<1>6. \A r \in Requests : status[r] = "live" => sid[r] \in DOMAIN registry /\ registry[sid[r]] = r
  BY DEF OutcomeInv, RouteInv, ResponsesReachTheirRequest, LiveIsRegistered
<1>7. /\ status \in [Requests -> Statuses] /\ signals \in [Requests -> Nat]
      /\ \A i \in DOMAIN registry : registry[i] \in Requests
  BY DEF OutcomeInv, RouteInv, MuxTypeOK
<1>8. ASSUME NEW s \in Seq(StackFrames), OneClose(s), stack' = s, Covers(frame.ids)',
             \A f \in Calls(s) : f.type = "close" => f = frame
      PROVE  ClosingWith(stack)'
  <2>1. \A f \in Calls(s) : f.type = "close" => Covers(f.ids)'
    BY <1>8
  <2>. QED
    BY <1>1, <1>2, <1>8, <2>1 DEF ClosingWith, OneClose, Calls
<1>9. \A f \in Calls(calls) : f.type = "close" => f = frame
  BY <1>2, <1>5 DEF NoClose
<1>10. CASE id \in DOMAIN registry /\ status[registry[id]] = "live"
  <2>. PICK r, top : r = registry[id] /\ top = [type |-> "callback", from |-> "close"]
    OBVIOUS
  <2>1. /\ r \in Requests /\ status[r] = "live"
        /\ status' = [status EXCEPT ![r] = "failed"]
        /\ signals' = [signals EXCEPT ![r] = @ + 1]
        /\ stack' = Push(top, calls)
    BY <1>3, <1>7, <1>10 DEF Settle, CallbackFrom
  <2>2. top \in StackFrames /\ top.type # "close"
    BY DEF StackFrames, Callbacks
  <2>3. Covers(frame.ids)'
    BY <1>1, <1>2, <1>6, <1>7, <2>1 DEF Covers, Written
  <2>4. ClosingWith(stack)'
    <3>1. Push(top, calls) \in Seq(StackFrames) /\ OneClose(Push(top, calls))
      BY <1>5, <2>2, PushType, OneClosePush
    <3>2. \A f \in Calls(Push(top, calls)) : f.type = "close" => f = frame
      BY <1>5, <1>9, <2>2, CallsAfterPush
    <3>. QED
      BY <1>8, <2>1, <2>3, <3>1, <3>2
  <2>5. SignalsTold' /\ EntriesSound'
    BY <1>1, <1>2, <1>7, <2>1 DEF OutcomeInv, SignalsTold, EntriesSound
  <2>6. NewUnsent' /\ OpenMeansWritten' /\ ClosedMeansTold'
    BY <1>1, <1>2, <1>7, <2>1 DEF OutcomeInv, NewUnsent, OpenMeansWritten, ClosedMeansTold, Written
  <2>7. ToldOncePerStep
    BY <1>7, <2>1 DEF OutcomeInv, SignalsTold, ToldOncePerStep, ToldOnce
  <2>. QED
    BY <2>4, <2>5, <2>6, <2>7 DEF OutcomeInv
<1>11. CASE ~(id \in DOMAIN registry /\ status[registry[id]] = "live")
  <2>1. UNCHANGED <<status, signals>> /\ stack' = calls
    BY <1>3, <1>11
  <2>2. Covers(frame.ids)'
    BY <1>1, <1>2, <1>6, <1>11, <2>1 DEF Covers, Written
  <2>3. ClosingWith(stack)'
    BY <1>5, <1>8, <1>9, <2>1, <2>2
  <2>. QED
    BY <1>1, <2>1, <2>3, OutcomesUnchanged DEF OutcomeInv, ToldOncePerStep, ToldOnce
<1>. QED
  BY <1>10, <1>11

LEMMA OutcomeStep ==
  ASSUME MuxAssumption, "fnf" \notin ReenterFrom, OutcomeInv, MuxStep
  PROVE  OutcomeInv' /\ ToldOncePerStep
<1>0. RouteInv'
  BY RouteStep DEF OutcomeInv
<1>1. /\ stack \in Seq(StackFrames) /\ ClosingWith(stack)
      /\ status \in [Requests -> Statuses] /\ signals \in [Requests -> Nat]
  BY DEF OutcomeInv, RouteInv, MuxTypeOK
<1>2. CASE ReturnReady \/ ReturnCallback \/ HandleDataReturns
  <2>1. /\ stack # <<>> /\ stack' = Tail(stack)
        /\ UNCHANGED <<connState, registry, status, sid, signals, wire>>
    BY <1>2 DEF ReturnReady, ReturnCallback, HandleDataReturns, Running
  <2>2. Tail(stack) \in Seq(StackFrames) /\ ClosingWith(Tail(stack))
    BY <2>1, ClosingTail
  <2>. QED
    BY <1>0, <2>1, <2>2, OutcomeCalls
<1>3. ASSUME NEW r \in Requests, CancelLive(r) PROVE OutcomeInv' /\ ToldOncePerStep
  <2>1. /\ status[r] = "live"
        /\ status' = [status EXCEPT ![r] = "cancelled"]
        /\ registry' = Without(sid[r])
        /\ UNCHANGED <<connState, stack, sid, signals, wire>>
    BY <1>3 DEF CancelLive
  <2>2. /\ EntriesSound' /\ NewUnsent' /\ OpenMeansWritten' /\ ClosedMeansTold'
        /\ \A q \in Requests : Written(q)' /\ status'[q] = "live" =>
             Written(q) /\ status[q] = "live" /\ sid'[q] = sid[q]
    BY <2>1, OutcomeWithout
  <2>3. ClosingWith(stack)'
    BY <1>1, <2>1, <2>2, ClosingNext
  <2>4. SignalsTold'
    BY <1>1, <2>1 DEF OutcomeInv, SignalsTold
  <2>. QED
    BY <1>0, <2>1, <2>2, <2>3, <2>4 DEF OutcomeInv, ToldOncePerStep, ToldOnce
<1>4. CASE HandleData
  <2>1. PICK frames \in SUBSET {f \in Unanswered : f.req \notin Fnf} :
          stack' = Push([type |-> "data", frames |-> frames], stack)
    BY <1>4 DEF HandleData
  <2>. PICK frame : frame = [type |-> "data", frames |-> frames]
    OBVIOUS
  <2>2. frames \subseteq Frames
    BY <2>1 DEF Unanswered, OutcomeInv, RouteInv, MuxTypeOK
  <2>3. frame \in StackFrames /\ frame.type # "close"
    BY <2>2 DEF StackFrames
  <2>4. Push(frame, stack) \in Seq(StackFrames) /\ ClosingWith(Push(frame, stack))
    BY <1>1, <2>3, ClosingPush
  <2>5. UNCHANGED <<connState, registry, status, sid, signals, wire>>
    BY <1>4 DEF HandleData
  <2>. QED
    BY <1>0, <2>1, <2>4, <2>5, OutcomeCalls
<1>5. CASE HandleFrame
  BY <1>0, <1>5, OutcomeHandleFrame
<1>6. CASE DropFrame
  <2>1. /\ Running("data") /\ stack # <<>>
        /\ UNCHANGED <<connState, registry, status, sid, signals, wire>>
    BY <1>6 DEF DropFrame, Running
  <2>2. PICK f \in Head(stack).frames : stack' = Rest(f)
    BY <1>6 DEF DropFrame
  <2>. PICK frame : frame = [type |-> "data", frames |-> Head(stack).frames \ {f}]
    OBVIOUS
  <2>3. Head(stack).frames \subseteq Frames
    BY <1>1, <2>1, FrameFields
  <2>4. frame \in StackFrames /\ frame.type # "close"
    BY <2>3 DEF StackFrames
  <2>5. Tail(stack) \in Seq(StackFrames) /\ ClosingWith(Tail(stack))
    BY <2>1, ClosingTail
  <2>6. Rest(f) = Push(frame, Tail(stack))
    BY DEF Rest
  <2>7. Rest(f) \in Seq(StackFrames) /\ ClosingWith(Rest(f))
    BY <2>4, <2>5, <2>6, ClosingPush
  <2>. QED
    BY <1>0, <2>1, <2>2, <2>7, OutcomeCalls
<1>7. CASE Close
  <2>. PICK frame : frame = [type |-> "close", ids |-> DOMAIN registry]
    OBVIOUS
  <2>1. /\ connState = "open" /\ connState' = "closing"
        /\ stack' = Push(frame, stack)
        /\ UNCHANGED <<registry, status, sid, signals, wire>>
    BY <1>7 DEF Close
  <2>2. NoClose(stack)
    BY <1>1, <2>1 DEF ClosingWith, NoClose
  <2>3. frame \in StackFrames
    BY DEF StackFrames, OutcomeInv, RouteInv, MuxTypeOK
  <2>4. /\ OneClose(Push(frame, stack))
        /\ \A f \in Calls(Push(frame, stack)) : f.type = "close" => f = frame
    BY <1>1, <2>2, <2>3, OneClosePush, CallsAfterPush DEF ClosingWith, NoClose
  <2>5. Covers(frame.ids)'
    BY <2>1 DEF OutcomeInv, RouteInv, ResponsesReachTheirRequest, LiveIsRegistered, Covers
  <2>6. ClosingWith(stack)'
    <3>. PICK s : s = Push(frame, stack)
      OBVIOUS
    <3>1. stack' = s /\ OneClose(s) /\ \A f \in Calls(s) : f.type = "close" => f = frame
      BY <2>1, <2>4
    <3>2. \A f \in Calls(s) : f.type = "close" => Covers(f.ids)'
      BY <2>5, <3>1
    <3>. QED
      BY <2>1, <3>1, <3>2 DEF ClosingWith, OneClose, Calls
  <2>7. SignalsTold' /\ EntriesSound' /\ NewUnsent' /\ OpenMeansWritten' /\ ClosedMeansTold'
    BY <2>1 DEF OutcomeInv, SignalsTold, EntriesSound, NewUnsent, OpenMeansWritten,
                ClosedMeansTold, Written
  <2>. QED
    BY <1>0, <2>1, <2>6, <2>7 DEF OutcomeInv, ToldOncePerStep, ToldOnce
<1>8. CASE CloseStream
  BY <1>0, <1>8, OutcomeCloseStream
<1>9. CASE CloseReturns
  <2>1. /\ Running("close") /\ stack # <<>> /\ Head(stack).ids = {}
        /\ connState' = "closed" /\ stack' = Tail(stack)
        /\ UNCHANGED <<registry, status, sid, signals, wire>>
    BY <1>9 DEF CloseReturns, Running
  <2>2. /\ Tail(stack) \in Seq(StackFrames) /\ ClosingWith(Tail(stack)) /\ NoClose(Tail(stack))
        /\ connState = "closing" /\ Covers(Head(stack).ids)
    BY <2>1, ClosingTail
  <2>3. ClosingWith(stack)'
    BY <2>1, <2>2 DEF ClosingWith, NoClose, OneClose, Calls
  <2>4. ClosedMeansTold'
    BY <2>1, <2>2 DEF Covers, ClosedMeansTold, Written
  <2>5. SignalsTold' /\ EntriesSound' /\ NewUnsent' /\ OpenMeansWritten'
    BY <2>1 DEF OutcomeInv, SignalsTold, EntriesSound, NewUnsent, OpenMeansWritten, Written
  <2>. QED
    BY <1>0, <2>1, <2>3, <2>4, <2>5 DEF OutcomeInv, ToldOncePerStep, ToldOnce
<1>. QED
  BY <1>2, <1>3, <1>4, <1>5, <1>6, <1>7, <1>8, <1>9 DEF MuxStep

\* Whatever the application sends, cancels and closes from callbacks, but for the
\* requests of IdsIncreaseCorrect, and however many frames a chunk carries, what
\* it is told of its requests is true.
THEOREM OutcomesCorrect ==
  ASSUME MuxAssumption, "fnf" \notin ReenterFrom
  PROVE  MuxSpec => OutcomesAreTrue
<1>1. MuxInit => OutcomeInv
  <2>. SUFFICES ASSUME MuxInit PROVE OutcomeInv
    OBVIOUS
  <2>1. RouteInv
    BY RouteInductive
  <2>2. stack = <<>> /\ wire = <<>> /\ connState = "open" /\ DOMAIN registry = {}
        /\ \A r \in Requests : status[r] = "new" /\ signals[r] = 0
    BY DEF MuxInit
  <2>3. ClosingWith(stack)
    BY <2>2 DEF ClosingWith, OneClose, Calls
  <2>4. SignalsTold /\ EntriesSound /\ NewUnsent /\ OpenMeansWritten /\ ClosedMeansTold
    BY <2>2 DEF SignalsTold, EntriesSound, NewUnsent, OpenMeansWritten, ClosedMeansTold, Written
  <2>. QED
    BY <2>1, <2>3, <2>4 DEF OutcomeInv
<1>2. OutcomeInv /\ [MuxNext]_muxVars => OutcomeInv' /\ [ToldOncePerStep]_muxVars
  <2>. SUFFICES ASSUME OutcomeInv, [MuxNext]_muxVars
                PROVE  OutcomeInv' /\ [ToldOncePerStep]_muxVars
    OBVIOUS
  <2>1. CASE MuxStep
    BY <2>1, OutcomeStep
  <2>2. ASSUME NEW r \in Requests, Request(r) PROVE OutcomeInv' /\ ToldOncePerStep
    BY <2>2, OutcomeRequest
  <2>3. CASE UNCHANGED muxVars
    <3>1. RouteInv'
      BY <2>3, RouteInductive DEF OutcomeInv
    <3>2. ClosingWith(stack)'
      BY <2>3 DEF OutcomeInv, ClosingWith, OneClose, Calls, Covers, Written, muxVars
    <3>3. SignalsTold' /\ EntriesSound' /\ NewUnsent' /\ OpenMeansWritten' /\ ClosedMeansTold'
      BY <2>3, OutcomesUnchanged DEF muxVars
    <3>. QED
      BY <2>3, <3>1, <3>2, <3>3 DEF OutcomeInv
  <2>. QED
    BY <2>1, <2>2, <2>3 DEF MuxNext
<1>3. OutcomeInv => OpenMeansWritten /\ ClosedMeansTold
  BY DEF OutcomeInv
<1>. QED
  BY <1>1, <1>2, <1>3, PTL DEF MuxSpec, OutcomesAreTrue, ToldOncePerStep

-----------------------------------------------------------------------------
(* The lease handler. *)

\* The drain loop stays the outermost call while the calls inside it come and go.
LEMMA PushKeepsOutermost ==
  ASSUME NEW calls \in Seq(StackFrames), calls # <<>>, NEW frame \in StackFrames
  PROVE  /\ Push(frame, calls) # <<>>
         /\ Push(frame, calls)[Len(Push(frame, calls))] = calls[Len(calls)]
BY DEF Push

LEMMA ReturnKeepsOutermost ==
  ASSUME stack \in Seq(StackFrames), Draining, Head(stack).type # "drain"
  PROVE  /\ Tail(stack) # <<>>
         /\ Tail(stack)[Len(Tail(stack))] = stack[Len(stack)]
<1>1. Len(stack) \in Nat /\ Len(stack) # 0 /\ Len(stack) # 1
  BY DEF Draining
<1>2. Tail(stack) \in Seq(StackFrames) /\ Len(Tail(stack)) = Len(stack) - 1
  BY <1>1
<1>3. \A i \in 1 .. Len(Tail(stack)) : Tail(stack)[i] = stack[i + 1]
  BY <1>1, HeadTailProperties
<1>4. Len(Tail(stack)) \in 1 .. Len(Tail(stack)) /\ Len(Tail(stack)) + 1 = Len(stack)
  BY <1>1, <1>2
<1>5. Tail(stack)[Len(Tail(stack))] = stack[Len(stack)]
  BY <1>3, <1>4
<1>6. Tail(stack) # <<>>
  BY <1>1, <1>2
<1>. QED
  BY <1>5, <1>6

LEMMA CreateKeepsDraining ==
  ASSUME MuxTypeOK, NEW r \in Requests, CreateRequestStream(r, stack), Draining
  PROVE  Draining'
<1>1. CASE HandleReject(r, stack)
  <2>1. [type |-> "callback", from |-> "reject"] \in StackFrames
    BY DEF StackFrames, Callbacks
  <2>. QED
    BY <1>1, <2>1, PushKeepsOutermost DEF HandleReject, CallbackFrom, Draining, MuxTypeOK
<1>2. CASE HandleReadyStream(r, NextId, stack)
  BY <1>2 DEF HandleReadyStream, Draining
<1>3. CASE HandleReadyFnf(r, NextId, stack)
  <2>1. [type |-> "ready", id |-> NextId] \in StackFrames
    BY DEF StackFrames, NextId, StreamIds, MuxTypeOK
  <2>. QED
    BY <1>3, <2>1, PushKeepsOutermost DEF HandleReadyFnf, Draining, MuxTypeOK
<1>. QED
  BY <1>1, <1>2, <1>3 DEF CreateRequestStream

LEMMA MuxStepKeepsDraining ==
  ASSUME MuxAssumption, MuxTypeOK, MuxStep, Draining
  PROVE  Draining'
<1>. stack \in Seq(StackFrames) /\ stack # <<>>
  BY DEF MuxTypeOK, Draining
<1>1. CASE ReturnReady \/ ReturnCallback \/ HandleDataReturns \/ CloseReturns
  <2>1. Head(stack).type # "drain" /\ stack' = Tail(stack)
    BY <1>1 DEF ReturnReady, ReturnCallback, HandleDataReturns, CloseReturns, Running
  <2>. QED
    BY <2>1, ReturnKeepsOutermost DEF Draining
<1>2. ASSUME NEW r \in Requests, CancelLive(r) PROVE Draining'
  BY <1>2 DEF CancelLive, Draining
<1>3. CASE HandleData
  BY <1>3 DEF HandleData
<1>4. ASSUME Running("data") \/ Running("close")
      PROVE  Tail(stack) # <<>> /\ Tail(stack)[Len(Tail(stack))].type = "drain"
  BY <1>4, ReturnKeepsOutermost DEF Running, Draining
<1>5. ASSUME Running("data"), NEW f \in Head(stack).frames
      PROVE  /\ Rest(f) \in Seq(StackFrames)
             /\ Rest(f) # <<>>
             /\ Rest(f)[Len(Rest(f))].type = "drain"
  <2>1. Head(stack).frames \subseteq Frames /\ Tail(stack) \in Seq(StackFrames)
    BY <1>5, TopType, FrameFields
  <2>2. [type |-> "data", frames |-> Head(stack).frames \ {f}] \in StackFrames
    BY <2>1 DEF StackFrames
  <2>. QED
    BY <1>4, <1>5, <2>1, <2>2, PushType, PushKeepsOutermost DEF Rest
<1>6. ASSUME Running("close"), NEW id \in Head(stack).ids
      PROVE  /\ OtherKeys(id) \in Seq(StackFrames)
             /\ OtherKeys(id) # <<>>
             /\ OtherKeys(id)[Len(OtherKeys(id))].type = "drain"
  <2>1. Head(stack).ids \subseteq StreamIds /\ Tail(stack) \in Seq(StackFrames)
    BY <1>6, TopType, FrameFields
  <2>2. [type |-> "close", ids |-> Head(stack).ids \ {id}] \in StackFrames
    BY <2>1 DEF StackFrames
  <2>. QED
    BY <1>4, <1>6, <2>1, <2>2, PushType, PushKeepsOutermost DEF OtherKeys
<1>7. ASSUME NEW calls \in Seq(StackFrames), calls # <<>>, calls[Len(calls)].type = "drain",
             NEW kind \in Callbacks, stack' = CallbackFrom(kind, calls)
      PROVE  Draining'
  <2>1. [type |-> "callback", from |-> kind] \in StackFrames
    BY DEF StackFrames
  <2>. QED
    BY <1>7, <2>1, PushKeepsOutermost DEF CallbackFrom, Draining
<1>8. CASE HandleFrame
  <2>1. PICK f \in Head(stack).frames : stack' = CallbackFrom("response", Rest(f))
    BY <1>8 DEF HandleFrame
  <2>2. Running("data") /\ "response" \in Callbacks
    BY <1>8 DEF HandleFrame, Callbacks
  <2>. QED
    BY <1>5, <1>7, <2>1, <2>2
<1>9. CASE DropFrame
  BY <1>5, <1>9 DEF DropFrame, Draining
<1>10. CASE Close
  <2>1. [type |-> "close", ids |-> DOMAIN registry] \in StackFrames
    BY DEF StackFrames, MuxTypeOK
  <2>. QED
    BY <1>10, <2>1, PushKeepsOutermost DEF Close, Draining
<1>11. CASE CloseStream
  <2>1. PICK id \in Head(stack).ids :
          stack' = CallbackFrom("close", OtherKeys(id)) \/ stack' = OtherKeys(id)
    BY <1>11 DEF CloseStream
  <2>2. Running("close") /\ "close" \in Callbacks
    BY <1>11 DEF CloseStream, Callbacks
  <2>3. CASE stack' = OtherKeys(id)
    BY <1>6, <2>2, <2>3 DEF Draining
  <2>. QED
    BY <1>6, <1>7, <2>1, <2>2, <2>3
<1>. QED
  BY <1>1, <1>2, <1>3, <1>8, <1>9, <1>10, <1>11 DEF MuxStep

-----------------------------------------------------------------------------
\* The inductive invariant of the lease: a unit is used only when one is left
\* (so that the account stays in Nat), and a request that waits although the
\* lease is usable is about to be drained by the call that is outermost.
LeaseInv ==
  /\ LeaseTypeOK
  /\ LeaseAccounting
  /\ PendingBounded
  /\ WaitsOnlyWithoutLease

LEMMA LeaseInvInit == ASSUME LeaseAssumption PROVE LeaseInit => LeaseInv
BY DEF LeaseInit, MuxInit, LeaseInv, LeaseTypeOK, MuxTypeOK, Statuses, LeaseAccounting,
       PendingBounded, WaitsOnlyWithoutLease, LeaseAssumption

LEMMA UseLeaseType ==
  ASSUME LeaseInv, MuxAssumption, availableLease > 0,
         NEW r \in Requests, UseLease(r, stack)
  PROVE  /\ MuxTypeOK'
         /\ availableLease' \in Nat /\ used' \in Nat
         /\ timeLeft' = timeLeft /\ granted' = granted
         /\ LeaseAccounting'
         /\ availableLease' > 0 => availableLease > 0
BY CreateType DEF UseLease, LeaseInv, LeaseTypeOK, LeaseAccounting

LEMMA LeaseInvStep ==
  ASSUME MuxAssumption, LeaseAssumption, LeaseInv, [LeaseNext]_vars
  PROVE  LeaseInv'
<1>. USE DEF LeaseAssumption
<1>1. ASSUME NEW r \in Requests, RequestWithLease(r) PROVE LeaseInv'
  <2>1. UseLease(r, stack) /\ availableLease > 0 /\ pendingRequests' = pendingRequests
    BY <1>1 DEF RequestWithLease, UsableLease
  <2>2. WaitsOnlyWithoutLease'
    BY <1>1, <2>1, UseLeaseType, CreateKeepsDraining
    DEF WaitsOnlyWithoutLease, UsableLease, UseLease, RequestWithLease, LeaseInv, LeaseTypeOK
  <2>. QED
    BY <2>1, <2>2, UseLeaseType DEF LeaseInv, LeaseTypeOK, PendingBounded
<1>2. ASSUME NEW r \in Requests, RequestRefused(r) PROVE LeaseInv'
  <2>1. HandleReject(r, stack) /\ UNCHANGED leaseVars /\ ~UsableLease
    BY <1>2 DEF RequestRefused
  <2>2. MuxTypeOK'
    BY <2>1, CallbackType
    DEF HandleReject, Settle, MuxTypeOK, Callbacks, Statuses, LeaseInv, LeaseTypeOK
  <2>. QED
    BY <2>1, <2>2 DEF leaseVars, LeaseInv, LeaseTypeOK, LeaseAccounting, PendingBounded,
                      WaitsOnlyWithoutLease, UsableLease
<1>3. ASSUME NEW r \in Requests, RequestQueued(r) PROVE LeaseInv'
  <2>1. MuxTypeOK'
    BY <1>3 DEF RequestQueued, LeaseInv, LeaseTypeOK, MuxTypeOK, Statuses
  <2>2. pendingRequests' \in Seq(Requests) /\ PendingBounded'
    BY <1>3 DEF RequestQueued, LeaseInv, LeaseTypeOK, PendingBounded
  <2>. QED
    BY <1>3, <2>1, <2>2 DEF RequestQueued, LeaseInv, LeaseTypeOK, LeaseAccounting,
                            WaitsOnlyWithoutLease, UsableLease
<1>4. ASSUME NEW r \in Requests, CancelRequest(r) PROVE LeaseInv'
  <2>1. MuxTypeOK'
    BY <1>4 DEF CancelRequest, LeaseInv, LeaseTypeOK, MuxTypeOK, Statuses
  <2>2. /\ pendingRequests # <<>>
        /\ pendingRequests' \in Seq(Requests)
        /\ Len(pendingRequests') = Len(pendingRequests) - 1
    <3>1. PICK index \in DOMAIN pendingRequests : pendingRequests' = Splice(pendingRequests, index)
      BY <1>4 DEF CancelRequest
    <3>2. Len(pendingRequests) \in Nat \ {0}
      BY <3>1 DEF LeaseInv, LeaseTypeOK
    <3>3. \A i \in 1 .. Len(pendingRequests) - 1 : pendingRequests'[i] \in Requests
      BY <3>1, <3>2 DEF Splice, LeaseInv, LeaseTypeOK
    <3>4. pendingRequests' \in [1 .. Len(pendingRequests) - 1 -> Requests]
      BY <3>1, <3>3 DEF Splice
    <3>5. Len(pendingRequests) - 1 \in Nat
      BY <3>2
    <3>. QED
      BY <3>2, <3>4, <3>5
  <2>3. UNCHANGED <<stack, availableLease, timeLeft, granted, used>>
    BY <1>4 DEF CancelRequest
  <2>. QED
    BY <2>1, <2>2, <2>3 DEF LeaseInv, LeaseTypeOK, LeaseAccounting, PendingBounded,
                            WaitsOnlyWithoutLease, UsableLease, Draining
<1>5. CASE HandleLease
  <2>1. [type |-> "drain"] \in StackFrames /\ stack = <<>>
    BY <1>5 DEF StackFrames, HandleLease
  <2>2. stack' = <<[type |-> "drain"]>>
    BY <1>5, <2>1 DEF HandleLease, Push
  <2>3. MuxTypeOK'
    <3>1. stack' \in Seq(StackFrames)
      BY <2>1, <2>2
    <3>2. UNCHANGED <<connState, currentId, registry, status, sid, signals, wire, answered, got>>
      BY <1>5 DEF HandleLease
    <3>. QED
      BY <3>1, <3>2 DEF LeaseInv, LeaseTypeOK, MuxTypeOK
  <2>4. Draining'
    BY <2>2 DEF Draining
  <2>. QED
    BY <1>5, <2>3, <2>4 DEF HandleLease, LeaseInv, LeaseTypeOK, LeaseAccounting,
                            PendingBounded, WaitsOnlyWithoutLease
<1>6. CASE DrainPending
  <2>1. /\ Head(pendingRequests) \in Requests
        /\ pendingRequests' \in Seq(Requests)
        /\ Len(pendingRequests') < Len(pendingRequests)
        /\ Len(pendingRequests') \in Nat
        /\ pendingRequests # <<>>
    BY <1>6 DEF DrainPending, LeaseInv, LeaseTypeOK
  <2>2. UseLease(Head(pendingRequests), stack) /\ availableLease > 0
    BY <1>6 DEF DrainPending
  <2>3. WaitsOnlyWithoutLease'
    BY <2>1, <2>2, UseLeaseType, CreateKeepsDraining
    DEF WaitsOnlyWithoutLease, UsableLease, UseLease, LeaseInv, LeaseTypeOK
  <2>. QED
    BY <2>1, <2>2, <2>3, UseLeaseType DEF LeaseInv, LeaseTypeOK, PendingBounded
<1>7. CASE DrainReturns
  <2>1. MuxTypeOK /\ stack # <<>> /\ stack' = Tail(stack)
    BY <1>7 DEF DrainReturns, Running, LeaseInv, LeaseTypeOK
  <2>2. stack' \in Seq(StackFrames)
    BY <2>1, TopType DEF MuxTypeOK
  <2>3. MuxTypeOK'
    <3>1. UNCHANGED <<connState, currentId, registry, status, sid, signals, wire, answered, got>>
      BY <1>7 DEF DrainReturns
    <3>. QED
      BY <2>1, <2>2, <3>1 DEF MuxTypeOK
  <2>. QED
    BY <1>7, <2>3 DEF DrainReturns, leaseVars, LeaseInv, LeaseTypeOK, LeaseAccounting,
                      PendingBounded, WaitsOnlyWithoutLease, UsableLease
<1>8. CASE Tick
  BY <1>8 DEF Tick, muxVars, LeaseInv, LeaseTypeOK, MuxTypeOK, LeaseAccounting,
              PendingBounded, WaitsOnlyWithoutLease, UsableLease, Draining
<1>9. CASE MuxStep /\ UNCHANGED leaseVars
  <2>1. MuxTypeOK'
    BY <1>9, MuxStepType DEF LeaseInv, LeaseTypeOK
  <2>2. Draining => Draining'
    BY <1>9, MuxStepKeepsDraining DEF LeaseInv, LeaseTypeOK
  <2>. QED
    BY <1>9, <2>1, <2>2 DEF leaseVars, LeaseInv, LeaseTypeOK, LeaseAccounting,
                            PendingBounded, WaitsOnlyWithoutLease, UsableLease
<1>10. CASE UNCHANGED vars
  BY <1>10 DEF vars, muxVars, leaseVars, LeaseInv, LeaseTypeOK, MuxTypeOK, LeaseAccounting,
               PendingBounded, WaitsOnlyWithoutLease, UsableLease, Draining
<1>. QED
  BY <1>1, <1>2, <1>3, <1>4, <1>5, <1>6, <1>7, <1>8, <1>9, <1>10 DEF LeaseNext, LeaseStep

\* No lease is overdrawn, the queue keeps its bound, and no request waits while
\* there is a lease for it, for every use of the library from its callbacks.
THEOREM LeaseCorrect ==
  ASSUME MuxAssumption, LeaseAssumption
  PROVE  LeaseSpec => [](LeaseAccounting /\ PendingBounded /\ WaitsOnlyWithoutLease)
<1>1. LeaseInit => LeaseInv
  BY LeaseInvInit
<1>2. LeaseInv /\ [LeaseNext]_vars => LeaseInv'
  BY LeaseInvStep
<1>. QED
  BY <1>1, <1>2, PTL DEF LeaseSpec, LeaseInv

\* What is left of a lease stays a natural number although every request, also
\* those of callbacks of the drain loop, takes one off.
THEOREM LeaseTypeCorrect ==
  ASSUME MuxAssumption, LeaseAssumption
  PROVE  LeaseSpec => []LeaseTypeOK
<1>1. LeaseInit => LeaseInv
  BY LeaseInvInit
<1>2. LeaseInv /\ [LeaseNext]_vars => LeaseInv'
  BY LeaseInvStep
<1>. QED
  BY <1>1, <1>2, PTL DEF LeaseSpec, LeaseInv

-----------------------------------------------------------------------------
(* The queue. *)

\* What the queue's operations do to its members, while none is there twice.
NoneTwice(s) == \A i, j \in DOMAIN s : s[i] = s[j] => i = j

LEMMA FieldsOfAppend ==
  ASSUME NEW S, NEW s \in Seq(S), NEW r \in S
  PROVE  /\ Fields(Append(s, r)) = Fields(s) \cup {r}
         /\ NoneTwice(s) /\ r \notin Fields(s) => NoneTwice(Append(s, r))
<1>1. PICK t : t = Append(s, r)
  OBVIOUS
<1>2. /\ DOMAIN s = 1 .. Len(s) /\ Len(s) \in Nat /\ DOMAIN t = 1 .. Len(s) + 1
      /\ \A i \in 1 .. Len(s) : t[i] = s[i] /\ i \in 1 .. Len(s) + 1
      /\ t[Len(s) + 1] = r /\ Len(s) + 1 \in 1 .. Len(s) + 1
      /\ \A i \in 1 .. Len(s) + 1 : i \in 1 .. Len(s) \/ i = Len(s) + 1
  BY <1>1, AppendProperties, LenProperties
<1>3. Fields(t) = Fields(s) \cup {r}
  BY <1>2 DEF Fields
<1>4. ASSUME NoneTwice(s), r \notin Fields(s), NEW i \in DOMAIN t, NEW j \in DOMAIN t, t[i] = t[j]
      PROVE  i = j
  BY <1>2, <1>4 DEF NoneTwice, Fields
<1>. QED
  BY <1>1, <1>3, <1>4 DEF NoneTwice

LEMMA FieldsOfTail ==
  ASSUME NEW S, NEW s \in Seq(S), s # <<>>, NoneTwice(s)
  PROVE  /\ Fields(Tail(s)) = Fields(s) \ {Head(s)} /\ Head(s) \in Fields(s)
         /\ NoneTwice(Tail(s))
<1>1. PICK t : t = Tail(s)
  OBVIOUS
<1>2. /\ DOMAIN s = 1 .. Len(s) /\ Len(s) \in Nat \ {0} /\ DOMAIN t = 1 .. Len(s) - 1
      /\ \A i \in 1 .. Len(s) - 1 : t[i] = s[i + 1] /\ i + 1 \in 1 .. Len(s) /\ i + 1 # 1
      /\ \A i \in 1 .. Len(s) : i # 1 => /\ i - 1 \in 1 .. Len(s) - 1 /\ t[i - 1] = s[i]
      /\ Head(s) = s[1] /\ 1 \in 1 .. Len(s)
  <2>1. /\ DOMAIN s = 1 .. Len(s) /\ Len(s) \in Nat \ {0} /\ Head(s) = s[1]
        /\ t \in Seq(S) /\ Len(t) = Len(s) - 1 /\ \A i \in 1 .. Len(t) : t[i] = s[i + 1]
    BY <1>1, EmptySeq, HeadTailProperties, LenProperties
  <2>2. \A i \in 1 .. Len(s) : i # 1 => i - 1 \in 1 .. Len(t) /\ (i - 1) + 1 = i
    BY <2>1
  <2>3. \A i \in 1 .. Len(s) : i # 1 => t[i - 1] = s[i]
    BY <2>1, <2>2
  <2>. QED
    BY <2>1, <2>2, <2>3, LenProperties
<1>3. Fields(t) \subseteq Fields(s) \ {s[1]}
  BY <1>2 DEF Fields, NoneTwice
<1>4. Fields(s) \ {s[1]} \subseteq Fields(t)
  BY <1>2 DEF Fields
<1>5. ASSUME NEW i \in DOMAIN t, NEW j \in DOMAIN t, t[i] = t[j] PROVE i = j
  <2>1. i + 1 = j + 1
    BY <1>2, <1>5 DEF NoneTwice
  <2>. QED
    BY <1>2, <2>1
<1>6. s[1] \in Fields(s)
  BY <1>2 DEF Fields
<1>. QED
  BY <1>1, <1>2, <1>3, <1>4, <1>5, <1>6 DEF NoneTwice

LEMMA FieldsOfSplice ==
  ASSUME NEW S, NEW s \in Seq(S), NoneTwice(s), NEW index \in DOMAIN s
  PROVE  /\ Fields(Splice(s, index)) = Fields(s) \ {s[index]}
         /\ NoneTwice(Splice(s, index))
<1>1. PICK t : t = Splice(s, index)
  OBVIOUS
<1>2. DOMAIN s = 1 .. Len(s) /\ Len(s) \in Nat /\ index \in 1 .. Len(s)
  BY LenProperties
<1>3. DOMAIN t = 1 .. Len(s) - 1 /\ \A i \in 1 .. Len(s) - 1 : t[i] = IF i < index THEN s[i] ELSE s[i + 1]
  BY <1>1 DEF Splice
<1>4. ASSUME NEW i \in 1 .. Len(s) - 1
      PROVE  \E k \in 1 .. Len(s) : k # index /\ t[i] = s[k] /\ k = IF i < index THEN i ELSE i + 1
  BY <1>2, <1>3
<1>5. ASSUME NEW k \in 1 .. Len(s), k # index PROVE \E i \in 1 .. Len(s) - 1 : t[i] = s[k]
  <2>1. CASE k < index
    BY <1>2, <1>3, <2>1
  <2>2. CASE k > index
    <3>1. k - 1 \in 1 .. Len(s) - 1 /\ ~(k - 1 < index) /\ (k - 1) + 1 = k
      BY <1>2, <2>2
    <3>. QED
      BY <1>3, <3>1
  <2>. QED
    BY <1>2, <1>5, <2>1, <2>2
<1>6. Fields(t) \subseteq Fields(s) \ {s[index]}
  BY <1>2, <1>3, <1>4 DEF Fields, NoneTwice
<1>7. ASSUME NEW x \in Fields(s) \ {s[index]} PROVE x \in Fields(t)
  <2>1. PICK k \in 1 .. Len(s) : x = s[k] /\ k # index
    BY <1>2 DEF Fields
  <2>. QED
    BY <1>3, <1>5, <2>1 DEF Fields
<1>8. ASSUME NEW i \in DOMAIN t, NEW j \in DOMAIN t, t[i] = t[j] PROVE i = j
  <2>1. PICK k \in 1 .. Len(s) : t[i] = s[k] /\ k = IF i < index THEN i ELSE i + 1
    BY <1>3, <1>4
  <2>2. PICK l \in 1 .. Len(s) : t[j] = s[l] /\ l = IF j < index THEN j ELSE j + 1
    BY <1>3, <1>4
  <2>3. k = l
    BY <1>2, <1>8, <2>1, <2>2 DEF NoneTwice
  <2>. QED
    BY <1>2, <1>3, <2>1, <2>2, <2>3
<1>. QED
  BY <1>1, <1>6, <1>7, <1>8 DEF NoneTwice

Waiting == {r \in Requests : status[r] = "pending"}

\* A request in the registry has left the queue, or was never in it: what the
\* multiplexer does to its streams concerns no request that waits.
RegisteredStarted == \A id \in DOMAIN registry : status[registry[id]] \notin {"new", "pending"}

QueueInv == LeaseInv /\ QueueHoldsPending /\ RegisteredStarted

\* The status of requests changes, but for nobody who waits.
LEMMA NobodyElseWaits ==
  ASSUME MuxTypeOK, MuxTypeOK', QueueHoldsPending, RegisteredStarted,
         UNCHANGED pendingRequests, NEW r \in Requests, status[r] # "pending", status'[r] \notin {"new", "pending"},
         \A q \in Requests : q # r => status'[q] = status[q],
         \A id \in DOMAIN registry' : registry'[id] = r \/ (id \in DOMAIN registry /\ registry'[id] = registry[id])
  PROVE  QueueHoldsPending' /\ RegisteredStarted'
<1>1. Waiting' = Waiting
  BY DEF Waiting
<1>2. RegisteredStarted'
  BY DEF RegisteredStarted, MuxTypeOK
<1>. QED
  BY <1>1, <1>2 DEF QueueHoldsPending, Waiting

LEMMA MuxStepKeepsQueue ==
  ASSUME MuxAssumption, MuxTypeOK, QueueHoldsPending, RegisteredStarted, MuxStep, UNCHANGED pendingRequests
  PROVE  QueueHoldsPending' /\ RegisteredStarted'
<1>0. MuxTypeOK'
  BY MuxStepType
<1>1. CASE UNCHANGED <<registry, status>>
  BY <1>1 DEF QueueHoldsPending, RegisteredStarted
<1>2. ASSUME NEW r \in Requests, CancelLive(r) PROVE QueueHoldsPending' /\ RegisteredStarted'
  BY <1>0, <1>2, NobodyElseWaits DEF CancelLive, Without, MuxTypeOK
<1>3. CASE HandleFrame
  <2>1. PICK f \in Head(stack).frames :
          /\ f.id \in DOMAIN registry
          /\ status' = [status EXCEPT ![registry[f.id]] = "completed"]
          /\ registry' = Without(sid[registry[f.id]])
    BY <1>3 DEF HandleFrame, Settle
  <2>2. registry[f.id] \in Requests /\ status[registry[f.id]] # "pending"
    BY <2>1 DEF RegisteredStarted, MuxTypeOK
  <2>. QED
    BY <1>0, <2>1, <2>2, NobodyElseWaits DEF Without, MuxTypeOK
<1>4. CASE CloseStream
  <2>1. registry' = registry
    BY <1>4 DEF CloseStream
  <2>2. CASE status' = status
    BY <1>1, <2>1, <2>2
  <2>3. ASSUME NEW id \in DOMAIN registry, status[registry[id]] = "live",
               status' = [status EXCEPT ![registry[id]] = "failed"]
        PROVE  QueueHoldsPending' /\ RegisteredStarted'
    <3>1. registry[id] \in Requests
      BY DEF MuxTypeOK
    <3>. QED
      BY <1>0, <2>1, <2>3, <3>1, NobodyElseWaits DEF MuxTypeOK
  <2>. QED
    BY <1>4, <2>2, <2>3 DEF CloseStream, Settle
<1>. QED
  BY <1>1, <1>2, <1>3, <1>4
  DEF MuxStep, ReturnReady, ReturnCallback, HandleData, DropFrame, HandleDataReturns, Close, CloseReturns

\* A request given to the multiplexer is started, whatever comes of it.
LEMMA CreateStarts ==
  ASSUME MuxAssumption, MuxTypeOK, RegisteredStarted, NEW r \in Requests, CreateRequestStream(r, stack)
  PROVE  /\ status'[r] \notin {"new", "pending"} /\ \A q \in Requests : q # r => status'[q] = status[q]
         /\ \A id \in DOMAIN registry' :
              registry'[id] = r \/ (id \in DOMAIN registry /\ registry'[id] = registry[id])
         /\ wire' = wire \/ wire' = Append(wire, [id |-> NextId, req |-> r])
<1>1. CASE HandleReject(r, stack)
  BY <1>1 DEF HandleReject, Settle, MuxTypeOK
<1>2. CASE HandleReadyStream(r, NextId, stack)
  BY <1>2 DEF HandleReadyStream, SendRequest, MuxTypeOK
<1>3. CASE HandleReadyFnf(r, NextId, stack)
  BY <1>3 DEF HandleReadyFnf, Settle, SendRequest, MuxTypeOK
<1>. QED
  BY <1>1, <1>2, <1>3 DEF CreateRequestStream

\* The one that is issued from the queue is the one that waited longest.
LEMMA DrainKeepsQueue ==
  ASSUME MuxAssumption, QueueInv, DrainPending
  PROVE  QueueHoldsPending' /\ RegisteredStarted'
<1>. DEFINE r == Head(pendingRequests)
<1>1. /\ pendingRequests \in Seq(Requests) /\ pendingRequests # <<>> /\ MuxTypeOK
      /\ pendingRequests' = Tail(pendingRequests) /\ CreateRequestStream(r, stack)
  BY DEF QueueInv, LeaseInv, LeaseTypeOK, DrainPending, UseLease
<1>2. NoneTwice(pendingRequests) /\ Fields(pendingRequests) = Waiting
  BY DEF QueueInv, QueueHoldsPending, NoneTwice, Waiting
<1>3. /\ Fields(Tail(pendingRequests)) = Waiting \ {r} /\ r \in Waiting
      /\ NoneTwice(Tail(pendingRequests))
  BY <1>1, <1>2, FieldsOfTail
<1>4. r \in Requests
  BY <1>3 DEF Waiting
<1>. HIDE DEF r
<1>5. /\ status'[r] \notin {"new", "pending"} /\ \A q \in Requests : q # r => status'[q] = status[q]
      /\ \A id \in DOMAIN registry' :
           registry'[id] = r \/ (id \in DOMAIN registry /\ registry'[id] = registry[id])
  BY <1>1, <1>4, CreateStarts DEF QueueInv
<1>6. Waiting' = Waiting \ {r}
  BY <1>4, <1>5 DEF Waiting
<1>7. QueueHoldsPending'
  BY <1>1, <1>3, <1>6 DEF QueueHoldsPending, NoneTwice, Waiting
<1>8. RegisteredStarted'
  <2>1. ASSUME NEW id \in DOMAIN registry' PROVE status'[registry'[id]] \notin {"new", "pending"}
    <3>1. CASE registry'[id] = r
      BY <1>5, <3>1
    <3>2. CASE id \in DOMAIN registry /\ registry'[id] = registry[id] /\ registry[id] # r
      <4>1. registry[id] \in Requests
        BY <1>1, <3>2 DEF MuxTypeOK
      <4>. QED
        BY <1>5, <3>2, <4>1 DEF QueueInv, RegisteredStarted
    <3>. QED
      BY <1>5, <3>1, <3>2
  <2>. QED
    BY <2>1 DEF RegisteredStarted
<1>. QED
  BY <1>7, <1>8

LEMMA QueueInvStep ==
  ASSUME MuxAssumption, LeaseAssumption, QueueInv, [LeaseNext]_vars
  PROVE  QueueInv'
<1>0. LeaseInv' /\ MuxTypeOK /\ MuxTypeOK' /\ pendingRequests \in Seq(Requests)
  BY LeaseInvStep DEF QueueInv, LeaseInv, LeaseTypeOK
<1>n. NoneTwice(pendingRequests) /\ Fields(pendingRequests) = Waiting
  BY DEF QueueInv, QueueHoldsPending, NoneTwice, Waiting
<1>1. ASSUME NEW r \in Requests, RequestWithLease(r) \/ RequestRefused(r)
      PROVE  QueueHoldsPending' /\ RegisteredStarted'
  <2>1. status[r] = "new" /\ pendingRequests' = pendingRequests
    BY <1>1 DEF RequestWithLease, RequestRefused, leaseVars
  <2>2. /\ status'[r] \notin {"new", "pending"} /\ \A q \in Requests : q # r => status'[q] = status[q]
        /\ \A id \in DOMAIN registry' :
             registry'[id] = r \/ (id \in DOMAIN registry /\ registry'[id] = registry[id])
    <3>1. CASE RequestWithLease(r)
      BY <1>0, <3>1, CreateStarts DEF RequestWithLease, UseLease, QueueInv
    <3>2. CASE RequestRefused(r)
      BY <1>0, <3>2 DEF RequestRefused, HandleReject, Settle, MuxTypeOK
    <3>. QED
      BY <1>1, <3>1, <3>2
  <2>. QED
    BY <1>0, <2>1, <2>2, NobodyElseWaits DEF QueueInv
<1>2. ASSUME NEW r \in Requests, RequestQueued(r) PROVE QueueHoldsPending' /\ RegisteredStarted'
  <2>1. /\ status[r] = "new" /\ status' = [status EXCEPT ![r] = "pending"] /\ registry' = registry
        /\ pendingRequests' = Append(pendingRequests, r)
    BY <1>2 DEF RequestQueued
  <2>2. Waiting' = Waiting \cup {r} /\ r \notin Waiting
    BY <1>0, <2>1 DEF Waiting, MuxTypeOK
  <2>3. Fields(pendingRequests)' = Waiting' /\ NoneTwice(pendingRequests')
    BY <1>0, <1>n, <2>1, <2>2, FieldsOfAppend
  <2>4. RegisteredStarted'
    BY <1>0, <2>1 DEF RegisteredStarted, QueueInv, MuxTypeOK
  <2>. QED
    BY <2>3, <2>4 DEF QueueHoldsPending, NoneTwice, Waiting
<1>3. ASSUME NEW r \in Requests, CancelRequest(r) PROVE QueueHoldsPending' /\ RegisteredStarted'
  <2>1. /\ status[r] = "pending" /\ status' = [status EXCEPT ![r] = "cancelled"] /\ registry' = registry
    BY <1>3 DEF CancelRequest
  <2>2. PICK index \in DOMAIN pendingRequests :
          pendingRequests[index] = r /\ pendingRequests' = Splice(pendingRequests, index)
    BY <1>3 DEF CancelRequest
  <2>3. Waiting' = Waiting \ {r}
    BY <1>0, <2>1 DEF Waiting, MuxTypeOK
  <2>4. Fields(pendingRequests)' = Waiting' /\ NoneTwice(pendingRequests')
    BY <1>0, <1>n, <2>2, <2>3, FieldsOfSplice
  <2>5. RegisteredStarted'
    BY <1>0, <2>1 DEF RegisteredStarted, QueueInv, MuxTypeOK
  <2>. QED
    BY <2>4, <2>5 DEF QueueHoldsPending, NoneTwice, Waiting
<1>4. ASSUME DrainPending PROVE QueueHoldsPending' /\ RegisteredStarted'
  BY <1>4, DrainKeepsQueue
<1>5. ASSUME HandleLease \/ DrainReturns \/ Tick \/ UNCHANGED vars
      PROVE  QueueHoldsPending' /\ RegisteredStarted'
  BY <1>5 DEF HandleLease, DrainReturns, Tick, vars, leaseVars, muxVars, QueueInv,
              QueueHoldsPending, RegisteredStarted
<1>6. ASSUME MuxStep /\ UNCHANGED leaseVars PROVE QueueHoldsPending' /\ RegisteredStarted'
  BY <1>0, <1>6, MuxStepKeepsQueue DEF QueueInv, leaseVars
<1>. QED
  BY <1>0, <1>1, <1>2, <1>3, <1>4, <1>5, <1>6 DEF LeaseNext, LeaseStep, QueueInv

\* The step QueueSound is about.
ServesHead ==
  Len(wire') > Len(wire) /\ pendingRequests # <<>> /\ ~(Draining /\ Len(stack) > 1)
  => wire'[Len(wire')].req = Head(pendingRequests)

\* Outside of callbacks only the drain loop sends while requests wait.
LEMMA HeadFirst ==
  ASSUME MuxAssumption, QueueInv, [LeaseNext]_vars
  PROVE  ServesHead
<1>. SUFFICES ASSUME Len(wire') > Len(wire), pendingRequests # <<>>, ~(Draining /\ Len(stack) > 1)
              PROVE  wire'[Len(wire')].req = Head(pendingRequests)
  BY DEF ServesHead
<1>0. /\ MuxTypeOK /\ stack \in Seq(StackFrames) /\ pendingRequests \in Seq(Requests)
      /\ wire \in Seq(Frames) /\ Len(wire) \in Nat
  BY LenProperties DEF QueueInv, LeaseInv, LeaseTypeOK, MuxTypeOK
<1>1. wire' # wire
  BY <1>0
<1>2. ASSUME NEW r \in Requests, RequestWithLease(r) PROVE FALSE
  <2>1. Draining /\ AppCanRun
    BY <1>2 DEF RequestWithLease, QueueInv, LeaseInv, WaitsOnlyWithoutLease
  <2>2. stack # <<>> /\ stack[Len(stack)].type = "drain"
    BY <2>1 DEF Draining
  <2>3. stack[1].type # "drain"
    BY <1>0, <2>1, <2>2, HeadTailProperties DEF AppCanRun, Running
  <2>4. Len(stack) \in Nat /\ Len(stack) # 0 /\ Len(stack) # 1
    BY <1>0, <2>2, <2>3, EmptySeq, LenProperties
  <2>5. Len(stack) > 1
    <3>1. \A n \in Nat : n # 0 /\ n # 1 => n > 1
      OBVIOUS
    <3>. QED
      BY <2>4, <3>1
  <2>. QED
    BY <2>1, <2>5
<1>3. CASE DrainPending
  <2>1. Head(pendingRequests) \in Requests /\ CreateRequestStream(Head(pendingRequests), stack)
    BY <1>0, <1>3 DEF DrainPending, UseLease
  <2>2. wire' = Append(wire, [id |-> NextId, req |-> Head(pendingRequests)])
    BY <1>0, <1>1, <2>1, CreateStarts DEF QueueInv
  <2>3. [id |-> NextId, req |-> Head(pendingRequests)] \in Frames
    BY <1>0, <2>1 DEF Frames, NextId, StreamIds, MuxTypeOK
  <2>4. wire'[Len(wire')] = [id |-> NextId, req |-> Head(pendingRequests)]
    BY <1>0, <2>2, <2>3, AppendProperties
  <2>. QED
    BY <2>4
<1>. QED
  BY <1>1, <1>2, <1>3
  DEF LeaseNext, LeaseStep, vars, muxVars, RequestRefused, HandleReject, RequestQueued, CancelRequest,
      HandleLease, DrainReturns, Tick, MuxStep, ReturnReady, ReturnCallback, CancelLive, HandleData,
      HandleFrame, DropFrame, HandleDataReturns, Close, CloseStream, CloseReturns

\* A request waits once, as long as it must and no longer, and is served when its
\* turn comes: nobody overtakes it but in a callback of the drain loop.
THEOREM QueueSoundCorrect ==
  ASSUME MuxAssumption, LeaseAssumption
  PROVE  LeaseSpec => QueueSound
<1>1. LeaseInit => QueueInv
  <2>. SUFFICES ASSUME LeaseInit PROVE QueueInv
    OBVIOUS
  <2>1. LeaseInv
    BY LeaseInvInit
  <2>2. pendingRequests = <<>> /\ DOMAIN pendingRequests = {} /\ DOMAIN registry = {}
        /\ \A r \in Requests : status[r] = "new"
    BY DEF LeaseInit, MuxInit
  <2>. QED
    BY <2>1, <2>2 DEF QueueInv, QueueHoldsPending, RegisteredStarted, Fields
<1>2. QueueInv /\ [LeaseNext]_vars => QueueInv'
  BY QueueInvStep
<1>3. QueueInv => PendingBounded /\ WaitsOnlyWithoutLease /\ QueueHoldsPending
  BY DEF QueueInv, LeaseInv
<1>4. QueueInv /\ [LeaseNext]_vars => [ServesHead]_vars
  BY HeadFirst
<1>. QED
  BY <1>1, <1>2, <1>3, <1>4, PTL DEF LeaseSpec, QueueSound, ServesHead
==============================================================================
