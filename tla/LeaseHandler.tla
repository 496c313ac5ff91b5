----------------------------- MODULE LeaseHandler -----------------------------
(***************************************************************************)
(* RSocketSupport.LeaseHandler over the requester side of the multiplexer: *)
(* requests wait in pendingRequests until a LEASE frame of the peer covers *)
(* them.  Time enters only through Date.now() < expirationTime, so the     *)
(* model keeps the time the lease has left.                                *)
(***************************************************************************)
EXTENDS Multiplexer

CONSTANTS
  MaxPending,     \* maxPendingRequests
  LeaseCounts,    \* requestCount of the LEASE frames the peer sends
  LeaseTtls       \* ttl of the LEASE frames the peer sends

ASSUME LeaseAssumption == /\ MaxPending \in Nat
                          /\ LeaseCounts \subseteq Nat
                          /\ LeaseTtls \subseteq Nat

VARIABLES
  pendingRequests,  \* the queue of requests without a lease
  availableLease,   \* requests the current lease still allows
  timeLeft,         \* max(expirationTime - Date.now(), 0)
  granted,          \* history: requestCount of the last LEASE frame
  used              \* history: requests given to the multiplexer since then

leaseVars == <<pendingRequests, availableLease, timeLeft, granted, used>>
vars == <<muxVars, leaseVars>>

Fields(s) == {s[i] : i \in DOMAIN s}

LeaseTypeOK ==
  /\ MuxTypeOK
  /\ pendingRequests \in Seq(Requests)
  /\ availableLease \in Nat
  /\ timeLeft \in Nat
  /\ granted \in Nat
  /\ used \in Nat

LeaseInit ==
  /\ MuxInit
  /\ pendingRequests = <<>>
  /\ availableLease = 0
  /\ timeLeft = 0
  /\ granted = 0
  /\ used = 0

UsableLease == availableLease > 0 /\ timeLeft > 0

\* handle() of a LEASE frame is in progress; frames arrive between events, so
\* it is the outermost call.
Draining == stack # <<>> /\ stack[Len(stack)].type = "drain"

-----------------------------------------------------------------------------
\* Mutant: the unit is taken from a copy and never written back.
UseLeaseOfCopy(r, calls) ==
  /\ used' = used + 1
  /\ CreateRequestStream(r, calls)
  /\ UNCHANGED <<availableLease, timeLeft, granted>>

\* A request takes one unit of the lease and goes to the multiplexer.
UseLease(r, calls) ==
  /\ availableLease' = availableLease - 1
  /\ used' = used + 1
  /\ CreateRequestStream(r, calls)
  /\ UNCHANGED <<timeLeft, granted>>

RequestWithLease(r) ==
  /\ AppCanRun
  /\ status[r] = "new"
  /\ UsableLease
  /\ UseLease(r, stack)
  /\ UNCHANGED pendingRequests

RequestRefused(r) ==
  /\ AppCanRun
  /\ status[r] = "new"
  /\ ~UsableLease
  /\ Len(pendingRequests) >= MaxPending
  /\ HandleReject(r, stack)
  /\ UNCHANGED leaseVars

RequestQueued(r) ==
  /\ AppCanRun
  /\ status[r] = "new"
  /\ ~UsableLease
  /\ Len(pendingRequests) < MaxPending
  /\ pendingRequests' = Append(pendingRequests, r)
  /\ status' = [status EXCEPT ![r] = "pending"]
  /\ UNCHANGED <<connState, currentId, registry, stack, sid, signals, wire, answered, got>>
  /\ UNCHANGED <<availableLease, timeLeft, granted, used>>

\* splice(index, 1)
Splice(s, index) == [i \in 1 .. Len(s) - 1 |-> IF i < index THEN s[i] ELSE s[i + 1]]

\* cancel() of a request that has no stream id: cancelRequest.
CancelRequest(r) ==
  /\ AppCanRun
  /\ status[r] = "pending"
  /\ status' = [status EXCEPT ![r] = "cancelled"]
  /\ \E index \in DOMAIN pendingRequests :
       /\ pendingRequests[index] = r
       /\ pendingRequests' = Splice(pendingRequests, index)
  /\ UNCHANGED <<connState, currentId, registry, stack, sid, signals, wire, answered, got>>
  /\ UNCHANGED <<availableLease, timeLeft, granted, used>>

\* A LEASE frame replaces what is left of the previous lease.
HandleLease ==
  /\ stack = <<>>
  /\ connState = "open"
  /\ \E count \in LeaseCounts, ttl \in LeaseTtls :
       /\ availableLease' = count
       /\ granted' = count
       /\ timeLeft' = ttl
  /\ used' = 0
  /\ stack' = Push([type |-> "drain"], stack)
  /\ UNCHANGED <<connState, currentId, registry, status, sid, signals, wire, answered, got>>
  /\ UNCHANGED pendingRequests

\* Mutant: the loop condition does not test availableLease.
DrainPendingUnguarded ==
  /\ Running("drain")
  /\ pendingRequests # <<>>
  /\ pendingRequests' = Tail(pendingRequests)
  /\ UseLease(Head(pendingRequests), stack)

\* Mutant: the queue is popped at its end.
DrainNewest ==
  /\ Running("drain")
  /\ availableLease > 0
  /\ pendingRequests # <<>>
  /\ pendingRequests' = SubSeq(pendingRequests, 1, Len(pendingRequests) - 1)
  /\ UseLease(pendingRequests[Len(pendingRequests)], stack)

\* One round of its while loop; the round does not look at the expiration.
DrainPending ==
  /\ Running("drain")
  /\ availableLease > 0
  /\ pendingRequests # <<>>
  /\ pendingRequests' = Tail(pendingRequests)
  /\ UseLease(Head(pendingRequests), stack)

\* Mutant: the loop stops while one unit is left.
DrainReturnsEarly ==
  /\ Running("drain")
  /\ availableLease <= 1 \/ pendingRequests = <<>>
  /\ stack' = Tail(stack)
  /\ UNCHANGED <<connState, currentId, registry, status, sid, signals, wire, answered, got>>
  /\ UNCHANGED leaseVars

DrainReturns ==
  /\ Running("drain")
  /\ availableLease = 0 \/ pendingRequests = <<>>
  /\ stack' = Tail(stack)
  /\ UNCHANGED <<connState, currentId, registry, status, sid, signals, wire, answered, got>>
  /\ UNCHANGED leaseVars

Tick ==
  /\ timeLeft > 0
  /\ timeLeft' = timeLeft - 1
  /\ UNCHANGED muxVars
  /\ UNCHANGED <<pendingRequests, availableLease, granted, used>>

LeaseStep ==
  \/ \E r \in Requests : RequestWithLease(r)
  \/ \E r \in Requests : RequestRefused(r)
  \/ \E r \in Requests : RequestQueued(r)
  \/ \E r \in Requests : CancelRequest(r)
  \/ HandleLease
  \/ DrainPending
  \/ DrainReturns
  \/ Tick

LeaseNext == LeaseStep \/ (MuxStep /\ UNCHANGED leaseVars)

LeaseSpec == LeaseInit /\ [][LeaseNext]_vars

\* The library's own calls run to their end, and the peer goes on granting
\* leases of at least one request while the connection is open.
LibraryStep ==
  \/ ReturnReady /\ UNCHANGED leaseVars
  \/ ReturnCallback /\ UNCHANGED leaseVars
  \/ (HandleFrame \/ DropFrame) /\ UNCHANGED leaseVars
  \/ HandleDataReturns /\ UNCHANGED leaseVars
  \/ CloseStream /\ UNCHANGED leaseVars
  \/ CloseReturns /\ UNCHANGED leaseVars
  \/ DrainPending
  \/ DrainReturns

LeaseFairness == WF_vars(LibraryStep) /\ SF_vars(HandleLease /\ granted' > 0)

FairLeaseSpec == LeaseSpec /\ LeaseFairness

-----------------------------------------------------------------------------
(* What the lease handler promises. *)

\* The unit account of a lease: what is left and what was used since the last
\* LEASE frame add up to its requestCount, whatever reentrant requests do in
\* the middle of the drain loop.  So no lease is ever overdrawn.
LeaseAccounting == used + availableLease = granted

\* pendingRequests never holds more than maxPendingRequests.
PendingBounded == Len(pendingRequests) <= MaxPending

\* A request waits only while there is no usable lease: none is left in the
\* queue when handle() of a LEASE frame has drained it.
WaitsOnlyWithoutLease ==
  pendingRequests # <<>> /\ UsableLease => Draining

\* The queue holds exactly the requests that wait, each once: a request that
\* was cancelled, issued or refused is never issued from the queue again.
QueueHoldsPending ==
  /\ Fields(pendingRequests) = {r \in Requests : status[r] = "pending"}
  /\ \A i, j \in DOMAIN pendingRequests : pendingRequests[i] = pendingRequests[j] => i = j

\* The queue holds what it should, no more than it may and no longer than it
\* must, and is served in order: no step sends the frame of a later request
\* while an earlier one waits, but for a request the application makes in a
\* callback of the drain loop.
QueueSound ==
  /\ [](PendingBounded /\ WaitsOnlyWithoutLease /\ QueueHoldsPending)
  /\ [][ /\ Len(wire') > Len(wire)
         /\ pendingRequests # <<>>
         /\ ~(Draining /\ Len(stack) > 1)
         => wire'[Len(wire')].req = Head(pendingRequests) ]_vars

\* A request that waits is eventually sent, refused or cancelled, or the
\* connection closes.
PendingProgress ==
  \A r \in Requests : status[r] = "pending" ~> (status[r] # "pending" \/ connState # "open")

\* "The returned Publisher resolves with the response": when the connection is
\* closed no request is left waiting for a lease that cannot come any more.
\* Does not hold: nothing tells the LeaseHandler of the close.
ClosedMeansNoneWaiting ==
  connState = "closed" /\ stack = <<>> => \A r \in Requests : status[r] # "pending"
==============================================================================
