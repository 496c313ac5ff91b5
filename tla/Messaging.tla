----------------------------- MODULE Messaging -----------------------------
(***************************************************************************)
(* Requests by route, end to end: RSocketRequester puts a route and other  *)
(* metadata on a request, the request travels as the frame of a            *)
(* connection, and RSocketResponder finds the handler.  A handler is known *)
(* by its path and the type of the requests it takes.                      *)
(***************************************************************************)
EXTENDS Wire

CONSTANTS
  Asks,          \* the requests: [type, route, extras, credentials]; an extra is an
                 \* entry of metadata, or routes as [id |-> ROUTING, mime, routes]
  Handlers       \* the handlers the responder may be given: <<path, type>>

VARIABLES
  routes,        \* the handlers registered so far
  asked,         \* the requests made, by the position of their frame, and (a history)
                 \* the handlers known when each was made
  outcomes       \* of every handled frame: what became of it, and of which routes

msgVars == <<vars, routes, asked, outcomes>>

NotFound == <<"Route not found">>

MsgInit ==
  /\ Init
  /\ routes = {} /\ asked = <<>> /\ outcomes = <<>>

-----------------------------------------------------------------------------
\* The metadata of a request is a map: an entry given for a type again takes
\* the place of the one before.
SameType(e, f) == e.id = f.id /\ e.mime = f.mime

metadata(entries, entry) ==
  IF \E i \in DOMAIN entries : SameType(entries[i], entry)
  THEN [i \in DOMAIN entries |-> IF SameType(entries[i], entry) THEN entry ELSE entries[i]]
  ELSE Append(entries, entry)

Routing(paths) == [id |-> ROUTING, mime |-> <<>>, content |-> Content(encodeRoutes(paths))]

route(path) == <<Routing(<<path>>)>>

\* Credentials are given as encoded authentication metadata, or not at all.
Authentication(credentials) ==
  CASE credentials.kind = "simple" ->
         <<encodeSimpleAuthMetadata(credentials.username, credentials.password)>>
    [] credentials.kind = "bearer" -> <<encodeBearerAuthMetadata(credentials.token)>>
    [] credentials.kind = "known" -> encodeWellKnownAuthMetadata(credentials.id, credentials.payload)
    [] credentials.kind = "custom" -> encodeCustomAuthMetadata(credentials.name, credentials.payload)
    [] credentials.kind = "none" -> <<>>

Credentials(buffer) ==
  LET auth == decodeAuthMetadata(buffer)
  IN CASE auth.id = SIMPLE -> decodeSimpleAuthPayload(auth.payload) @@ [kind |-> "simple"]
       [] auth.id = BEARER -> [kind |-> "bearer", token |-> auth.payload]
       [] OTHER -> [kind |-> "custom", name |-> auth.name, payload |-> auth.payload]

Entries(ask) ==
  LET given == Authentication(ask.credentials)
      extras == [i \in DOMAIN ask.extras |->
                   IF ask.extras[i].id = ROUTING THEN Routing(ask.extras[i].routes)
                   ELSE ask.extras[i]]
  IN FoldLeft(metadata, route(ask.route), extras)
       \o [i \in DOMAIN given |-> [id |-> AUTHENTICATION, mime |-> <<>>, content |-> given[i]]]

\* The frame of the request, without data.
RequestFrame(ask) ==
  [type |-> ask.type, streamId |-> 1, flags |-> METADATA,
   data |-> <<<<>>>>, metadata |-> encodeCompositeMetadata(Entries(ask))]
    @@ IF ask.type \in {REQUEST_STREAM, REQUEST_CHANNEL} THEN [requestN |-> 1] ELSE <<>>

-----------------------------------------------------------------------------
\* The routes named by the metadata, in order, and the errors met on the way.
Named(entry) ==
  IF entry = Thrown THEN <<Thrown>>
  ELSE IF mimeType(entry) = ROUTING THEN decodeRoutes(entry.content) ELSE <<>>

Candidates(buffer) ==
  LET entries == decodeCompositeMetadata(buffer)
  IN FlattenSeq([i \in DOMAIN entries |-> Named(entries[i])])

Paths(registry) == {handler[1] : handler \in registry}

\* The first route that has any handler decides, whatever types it handles.
findTypesRegistry(buffer, registry) ==
  SelectInSeq(Candidates(buffer),
              LAMBDA c : c = Thrown \/ c.route \in Paths(registry))

Dispatch(frame, registry) ==
  LET candidates == Candidates(Content(frame.metadata))
      found == findTypesRegistry(Content(frame.metadata), registry)
  IN IF found = 0 THEN NotFound
     ELSE IF candidates[found] = Thrown THEN <<"throws">>
     ELSE IF <<candidates[found].route, frame.type>> \in registry
     THEN <<"handled", candidates[found].route>>
     ELSE NotFound

\* Requests are dispatched as their frames are handled.
Outcome(frame) ==
  [result |-> IF isRequest(frame) THEN Dispatch(frame, routes) ELSE <<"no request">>,
   routes |-> routes]

Ask(ask) ==
  /\ Len(sent) < MaxFrames /\ (role = "server" => sent # <<>>)
  /\ Entries(ask) # <<>> /\ encodeCompositeMetadata(Entries(ask)) # <<>>
  /\ Send(RequestFrame(ask))
  /\ asked' = asked @@ (Len(sent') :> (ask @@ [known |-> routes]))
  /\ UNCHANGED <<routes, outcomes>>

Register(handler) ==
  /\ handler \notin routes
  /\ routes' = routes \union {handler}
  /\ UNCHANGED <<vars, asked, outcomes>>

Reads ==
  /\ ReadStep
  /\ outcomes' = outcomes \o [i \in 1 .. Len(handled') - Len(handled) |->
                                Outcome(handled'[Len(handled) + i])]
  /\ UNCHANGED <<routes, asked>>

MsgNext ==
  \/ (Sends \/ Close) /\ UNCHANGED <<routes, asked, outcomes>>
  \/ \E ask \in Asks : Ask(ask)
  \/ \E handler \in Handlers : Register(handler)
  \/ Reads

MsgSpec == MsgInit /\ [][MsgNext]_msgVars

-----------------------------------------------------------------------------
\* The routes the application gave a request, in its order, as it gave them.
GivenRoutes(ask) ==
  LET again == SelectSeq(ask.extras, LAMBDA extra : extra.id = ROUTING)
  IN IF again = <<>> THEN <<ask.route>> ELSE Last(again).routes

\* The positions of those that have a handler for requests of its type.
Takers(ask, registry) ==
  {k \in DOMAIN GivenRoutes(ask) : <<GivenRoutes(ask)[k], ask.type>> \in registry}

\* A route before the k-th has handlers, for requests of other types only.
Shadowed(k, ask, registry) ==
  \E j \in 1 .. k - 1 : /\ GivenRoutes(ask)[j] \in Paths(registry)
                        /\ j \notin Takers(ask, registry)

\* A request reaches a handler for its type, registered by the time its frame is
\* read, at the first of its routes that has one, with the bytes of the route as
\* given. It is only answered "Route not found" when none of its routes has one,
\* nor had one when it was made, but for those shadowed by a route for other
\* types. It never throws, whatever other metadata it carries.
RequestsReachTheirRoute ==
  \A i \in DOMAIN outcomes \intersect DOMAIN asked :
    LET ask == asked[i]
        registry == outcomes[i].routes
    IN \/ \E k \in Takers(ask, registry) :
            /\ outcomes[i].result = <<"handled", GivenRoutes(ask)[k]>>
            /\ \A j \in Takers(ask, registry) : k <= j
       \/ /\ outcomes[i].result = NotFound
          /\ \A k \in Takers(ask, registry \union ask.known) : Shadowed(k, ask, registry)

\* What the answer "Route not found" says: no route of the request has a
\* handler for its type. Violated by a request that names one after a route
\* registered for other types, for findTypesRegistry stops at that.
NotFoundIsTrue ==
  \A i \in DOMAIN outcomes \intersect DOMAIN asked :
    outcomes[i].result = NotFound => Takers(asked[i], outcomes[i].routes) = {}

\* The metadata of a request arrives as it was given, entry by entry, and the
\* credentials among it are read as they were written.
MetadataArrives ==
  \A i \in DOMAIN outcomes \intersect DOMAIN asked :
    LET entries == decodeCompositeMetadata(Content(handled[i].metadata))
    IN /\ entries = Entries(asked[i])
       /\ asked[i].credentials.kind # "none" =>
            Credentials(Last(entries).content) = asked[i].credentials
=============================================================================
