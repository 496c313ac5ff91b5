----------------------------- MODULE Multiplexer -----------------------------
(***************************************************************************)
(* The requester side of ClientServerInputMultiplexerDemultiplexer: the    *)
(* stream registry, the StreamIdGenerator, createRequestStream and close,  *)
(* under the loop of TcpDuplexConnection.handleData that feeds it frames.  *)
(*                                                                         *)
(* The program is single threaded, but receiver callbacks run inside the   *)
(* library's own calls.  "stack" holds the library calls in progress, the  *)
(* innermost first; the application acts between events (empty stack) or   *)
(* inside a callback of a kind listed in ReenterFrom:                      *)
(*   fnf       onComplete called by RequestFnFRequesterStream.handleReady  *)
(*   response  onNext/onError called by the handler of a received frame    *)
(*   reject    onError called by handleReject                              *)
(*   close     onError called by the loop of multiplexer.close             *)
(***************************************************************************)
EXTENDS Naturals, Sequences, FiniteSets

CONSTANTS
  Requests,      \* the requests the application may issue
  Fnf,           \* those that are fire-and-forget
  ReenterFrom,   \* the callbacks in which the application calls the library
  MaxChunk       \* bound: frames carried by one socket chunk

Callbacks == {"fnf", "response", "reject", "close"}

ASSUME MuxAssumption == /\ Fnf \subseteq Requests
                        /\ ReenterFrom \subseteq Callbacks
                        /\ MaxChunk \in Nat

VARIABLES
  connState,  \* open; closing: connection done, mux.close running; closed: mux done
  currentId,  \* StreamIdGenerator.currentId, counted in steps of 2 from its seed
  registry,   \* stream id -> request, the handlers registered with connect()
  stack,      \* library calls in progress, innermost first
  status,     \* what became of each request
  sid,        \* the stream id given to each request, 0 while it has none
  signals,    \* terminal signals (onError, onComplete, last onNext) given to its receiver
  wire,       \* request frames written to the socket, in order
  answered,   \* the frames of wire the peer has answered
  got         \* the requests whose response was given to this request's receiver

muxVars == <<connState, currentId, registry, stack, status, sid, signals, wire,
             answered, got>>

StreamIds == Nat \ {0}

\* A request frame on the wire, and the answer to it.
Frames == [id : StreamIds, req : Requests]

StackFrames ==
       [type : {"callback"}, from : Callbacks]
  \cup [type : {"ready"}, id : StreamIds]              \* StreamIdGenerator.next
  \cup [type : {"data"}, frames : SUBSET Frames]       \* handleData: what is left of the chunk
  \cup [type : {"close"}, ids : SUBSET StreamIds]      \* mux.close: what is left of the keys
  \cup [type : {"drain"}]                              \* LeaseHandler.handle: the while loop

Statuses == {"new", "pending", "live", "completed", "failed", "rejected", "cancelled"}

MuxTypeOK ==
  /\ connState \in {"open", "closing", "closed"}
  /\ currentId \in Nat
  /\ DOMAIN registry \subseteq StreamIds
  /\ \A id \in DOMAIN registry : registry[id] \in Requests
  /\ stack \in Seq(StackFrames)
  /\ status \in [Requests -> Statuses]
  /\ sid \in [Requests -> Nat]
  /\ signals \in [Requests -> Nat]
  /\ wire \in Seq(Frames)
  /\ answered \subseteq Frames
  /\ got \in [Requests -> SUBSET Requests]

MuxInit ==
  /\ connState = "open"
  /\ currentId = 0
  /\ registry = [id \in {} |-> 0]
  /\ stack = <<>>
  /\ status = [r \in Requests |-> "new"]
  /\ sid = [r \in Requests |-> 0]
  /\ signals = [r \in Requests |-> 0]
  /\ wire = <<>>
  /\ answered = {}
  /\ got = [r \in Requests |-> {}]

-----------------------------------------------------------------------------
Running(type) == stack # <<>> /\ Head(stack).type = type

Push(frame, calls) == <<frame>> \o calls

CallbackFrom(kind, calls) == Push([type |-> "callback", from |-> kind], calls)

\* The application runs between events, or inside a callback it calls back from.
AppCanRun ==
  \/ stack = <<>>
  \/ Running("callback") /\ Head(stack).from \in ReenterFrom
  \/ Running("ready") /\ "fnf" \in ReenterFrom

Without(id) == [i \in DOMAIN registry \ {id} |-> registry[i]]

\* The receiver of r gets its terminal signal and r ends as "end".
Settle(r, end) ==
  /\ status' = [status EXCEPT ![r] = end]
  /\ signals' = [signals EXCEPT ![r] = @ + 1]

\* outbound.send of a request frame: the connection drops it once it is done.
SendRequest(r, id) ==
  wire' = IF connState = "open" THEN Append(wire, [id |-> id, req |-> r]) ELSE wire

-----------------------------------------------------------------------------
HandleReject(r, calls) ==
  /\ Settle(r, "rejected")
  /\ stack' = CallbackFrom("reject", calls)
  /\ UNCHANGED <<connState, currentId, registry, sid, wire, answered, got>>

\* Mutant: handleReady forgets to return true, so next() does not advance.
HandleReadyStreamReturnsNothing(r, id, calls) ==
  /\ status' = [status EXCEPT ![r] = "live"]
  /\ sid' = [sid EXCEPT ![r] = id]
  /\ registry' = [i \in DOMAIN registry \cup {id} |-> IF i = id THEN r ELSE registry[i]]
  /\ SendRequest(r, id)
  /\ stack' = calls
  /\ UNCHANGED <<connState, currentId, signals, answered, got>>

\* handleReady of the request/response, stream and channel requesters: it
\* registers, sends the request frame and returns true with no callback, so
\* that next() then advances currentId.
HandleReadyStream(r, id, calls) ==
  /\ status' = [status EXCEPT ![r] = "live"]
  /\ sid' = [sid EXCEPT ![r] = id]
  /\ registry' = [i \in DOMAIN registry \cup {id} |-> IF i = id THEN r ELSE registry[i]]
  /\ SendRequest(r, id)
  /\ currentId' = id
  /\ stack' = calls
  /\ UNCHANGED <<connState, signals, answered, got>>

\* handleReady of a fire-and-forget: it sends the frame, completes the
\* receiver, and only when that callback has returned does next() advance.
HandleReadyFnf(r, id, calls) ==
  /\ Settle(r, "completed")
  /\ sid' = [sid EXCEPT ![r] = id]
  /\ SendRequest(r, id)
  /\ stack' = Push([type |-> "ready", id |-> id], calls)
  /\ UNCHANGED <<connState, currentId, registry, answered, got>>

\* Mutant: next() offers the current id instead of the one after it.
NextIdNotAdvanced == currentId

NextId == currentId + 1

CreateRequestStream(r, calls) ==
  \/ /\ connState = "closed"
     /\ HandleReject(r, calls)
  \/ /\ connState # "closed"
     /\ r \notin Fnf
     /\ HandleReadyStream(r, NextId, calls)
  \/ /\ connState # "closed"
     /\ r \in Fnf
     /\ HandleReadyFnf(r, NextId, calls)

\* Mutant: handleReady of a fire-and-forget returns false.
ReturnReadyFalse ==
  /\ Running("ready")
  /\ stack' = Tail(stack)
  /\ UNCHANGED <<connState, currentId, registry, status, sid, signals, wire, answered, got>>

\* The callback of a fire-and-forget returned: StreamIdGenerator.next goes on.
ReturnReady ==
  /\ Running("ready")
  /\ currentId' = Head(stack).id
  /\ stack' = Tail(stack)
  /\ UNCHANGED <<connState, registry, status, sid, signals, wire, answered, got>>

ReturnCallback ==
  /\ Running("callback")
  /\ stack' = Tail(stack)
  /\ UNCHANGED <<connState, currentId, registry, status, sid, signals, wire, answered, got>>

\* cancel() of a request that has its stream id.
CancelLive(r) ==
  /\ AppCanRun
  /\ status[r] = "live"
  /\ status' = [status EXCEPT ![r] = "cancelled"]
  /\ registry' = Without(sid[r])
  /\ UNCHANGED <<connState, currentId, stack, sid, signals, wire, answered, got>>

-----------------------------------------------------------------------------
Unanswered == {wire[i] : i \in DOMAIN wire} \ answered

\* A chunk arrives that carries the peer's answers to some requests.
HandleData ==
  /\ stack = <<>>
  /\ connState = "open"
  /\ \E frames \in SUBSET {f \in Unanswered : f.req \notin Fnf} :
       /\ frames # {}
       /\ Cardinality(frames) <= MaxChunk
       /\ answered' = answered \cup frames
       /\ stack' = Push([type |-> "data", frames |-> frames], stack)
  /\ UNCHANGED <<connState, currentId, registry, status, sid, signals, wire, got>>

Rest(f) == Push([type |-> "data", frames |-> Head(stack).frames \ {f}], Tail(stack))

\* multiplexer.handle of the next answer of the chunk, whatever became of the
\* connection since the chunk was read: the registered handler is done,
\* disconnects and passes the response to its receiver.
HandleFrame ==
  /\ Running("data")
  /\ \E f \in Head(stack).frames :
       /\ f.id \in DOMAIN registry
       /\ LET handler == registry[f.id]
          IN /\ Settle(handler, "completed")
             /\ got' = [got EXCEPT ![handler] = @ \cup {f.req}]
             /\ registry' = Without(sid[handler])
       /\ stack' = CallbackFrom("response", Rest(f))
  /\ UNCHANGED <<connState, currentId, sid, wire, answered>>

\* A frame for a stream id nobody is registered under is dropped.
DropFrame ==
  /\ Running("data")
  /\ \E f \in Head(stack).frames :
       /\ f.id \notin DOMAIN registry
       /\ stack' = Rest(f)
  /\ UNCHANGED <<connState, currentId, registry, status, sid, signals, wire, answered, got>>

HandleDataReturns ==
  /\ Running("data")
  /\ Head(stack).frames = {}
  /\ stack' = Tail(stack)
  /\ UNCHANGED <<connState, currentId, registry, status, sid, signals, wire, answered, got>>

\* The connection closes (by the application, or by the socket): it is done
\* at once and its onClose callbacks start multiplexer.close.
Close ==
  /\ AppCanRun
  /\ connState = "open"
  /\ connState' = "closing"
  /\ stack' = Push([type |-> "close", ids |-> DOMAIN registry], stack)
  /\ UNCHANGED <<currentId, registry, status, sid, signals, wire, answered, got>>

\* One round of the loop over the registry, in the order of the ids; a key
\* added to the registry meanwhile is not visited.
NextKey(id) == id \in Head(stack).ids /\ \A other \in Head(stack).ids : id <= other

OtherKeys(id) == Push([type |-> "close", ids |-> Head(stack).ids \ {id}], Tail(stack))

\* Mutant: the loop ends at a key that is not in the registry any more.
CloseStreamEndsAtGone ==
  /\ Running("close")
  /\ \E id \in Head(stack).ids :
       /\ NextKey(id)
       /\ IF id \in DOMAIN registry /\ status[registry[id]] = "live"
          THEN /\ Settle(registry[id], "failed")
               /\ stack' = CallbackFrom("close", OtherKeys(id))
          ELSE /\ UNCHANGED <<status, signals>>
               /\ stack' = Push([type |-> "close", ids |-> {}], Tail(stack))
  /\ UNCHANGED <<connState, currentId, registry, sid, wire, answered, got>>

\* The next key of the registry: its stream fails, unless it is done or the key
\* was deleted meanwhile.
CloseStream ==
  /\ Running("close")
  /\ \E id \in Head(stack).ids :
       /\ NextKey(id)
       /\ IF id \in DOMAIN registry /\ status[registry[id]] = "live"
          THEN /\ Settle(registry[id], "failed")
               /\ stack' = CallbackFrom("close", OtherKeys(id))
          ELSE /\ UNCHANGED <<status, signals>>
               /\ stack' = OtherKeys(id)
  /\ UNCHANGED <<connState, currentId, registry, sid, wire, answered, got>>

CloseReturns ==
  /\ Running("close")
  /\ Head(stack).ids = {}
  /\ connState' = "closed"
  /\ stack' = Tail(stack)
  /\ UNCHANGED <<currentId, registry, status, sid, signals, wire, answered, got>>

-----------------------------------------------------------------------------
\* A request of RSocketRequester when no lease is in force.
Request(r) ==
  /\ AppCanRun
  /\ status[r] = "new"
  /\ CreateRequestStream(r, stack)

\* The steps every use of the multiplexer shares.
MuxStep ==
  \/ ReturnReady
  \/ ReturnCallback
  \/ \E r \in Requests : CancelLive(r)
  \/ HandleData
  \/ HandleFrame
  \/ DropFrame
  \/ HandleDataReturns
  \/ Close
  \/ CloseStream
  \/ CloseReturns

MuxNext == MuxStep \/ \E r \in Requests : Request(r)

MuxSpec == MuxInit /\ [][MuxNext]_muxVars

-----------------------------------------------------------------------------
(* What the multiplexer owes its users. *)

\* Stream ids of request frames strictly increase in the order they are sent:
\* StreamIdGenerator never hands the same id out twice.
IdsIncrease ==
  \A i, j \in DOMAIN wire : i < j => wire[i].id < wire[j].id

\* A request in progress is the one registered under its stream id, so frames
\* for it reach it: no other request has overwritten or deleted its entry.
LiveIsRegistered ==
  \A r \in Requests : status[r] = "live" =>
    /\ sid[r] \in DOMAIN registry
    /\ registry[sid[r]] = r

\* A receiver is only given the response of its own request.
OwnResponseOnly == \A r \in Requests : got[r] \subseteq {r}

\* Frames find the request they are for, and no other.
ResponsesReachTheirRequest == LiveIsRegistered /\ OwnResponseOnly

-----------------------------------------------------------------------------
(* What an application is told of its requests, whichever callbacks it calls *)
(* the library from and however many frames a chunk carries.                 *)

\* The request frame of r was written to the socket.
Written(r) == \E i \in DOMAIN wire : wire[i].req = r

\* handleData hands a receiver that close has failed, and that may have called
\* back since, the response that was in the same chunk.
LateResponse(r) ==
  /\ status[r] = "failed" /\ signals[r] = 1
  /\ connState # "open"
  /\ Running("data") /\ got'[r] = {r}

\* A step that signals the receiver of r gives it its first signal, and r was
\* neither cancelled nor settled; the response above is the only second signal.
ToldOnce(r) ==
  signals'[r] # signals[r] =>
    \/ /\ status[r] \in {"new", "live"}
       /\ signals[r] = 0 /\ signals'[r] = 1
    \/ LateResponse(r)

\* While the connection is open no request is refused, or completed unsent.
OpenMeansWritten ==
  connState = "open" => \A r \in Requests : status[r] # "new" => Written(r)

\* Once the connection is closed the receiver of no written request is left
\* waiting: the loop of close reaches each of them, although receivers it has
\* failed cancel others and issue more. Requests made inside that loop are
\* not written, and are promised nothing here.
ClosedMeansTold ==
  connState = "closed" => \A r \in Requests : Written(r) => status[r] # "live"

\* What an application is told of its requests is true, is told once, and is
\* told of all that were written by the time the connection is closed.
OutcomesAreTrue ==
  /\ [](OpenMeansWritten /\ ClosedMeansTold)
  /\ [][\A r \in Requests : ToldOnce(r)]_muxVars

-----------------------------------------------------------------------------
(* What the code does not keep, each in a configuration of its own. *)

\* "Publisher resolves with the response" (RSocket.ts): once, one way or the
\* other. Violated when a callback closes the connection inside a chunk.
OneTerminalSignal == \A r \in Requests : signals[r] <= 1

\* "The returned Publisher resolves when the passed payload is successfully
\* handled" (RSocket.ts): a fire-and-forget that completed was at least written
\* to the socket. Violated by one issued in a callback of the loop of close.
FnfCompletedWasSent == \A r \in Fnf : status[r] = "completed" => Written(r)
==============================================================================
