---------------------------- MODULE MCMessaging ----------------------------
(***************************************************************************)
(* Frames of every type, with nothing, with an empty buffer and with bytes *)
(* where a buffer may be; requests with every kind of metadata; and the    *)
(* credentials they carry.                                                 *)
(***************************************************************************)
EXTENDS Messaging

Null == <<>>
Empty == <<<<>>>>
Some == <<<<7, 200>>>>
Max31 == 2147483647

Setup(flags, token, metadataOrNull) ==
  [type |-> SETUP, streamId |-> 0, flags |-> flags, majorVersion |-> 1,
   minorVersion |-> 0, keepAlive |-> 60000, lifetime |-> Max31,
   resumeToken |-> token, metadataMimeType |-> <<97, 98>>, dataMimeType |-> <<>>,
   data |-> Some, metadata |-> metadataOrNull]

MCOpeners ==
  {Setup(COMPLETE, Null, Null), Setup(METADATA + FOLLOWS, Some, Some),
   [type |-> RESUME, streamId |-> 0, flags |-> 0, majorVersion |-> 1,
    minorVersion |-> 0, resumeToken |-> <<1, 2, 3>>, serverPosition |-> <<0, 300>>,
    clientPosition |-> <<1, 70000>>]}

MCFrames ==
  {[type |-> LEASE, streamId |-> 0, flags |-> METADATA, ttl |-> Max31,
    requestCount |-> 5, metadata |-> Some],
   [type |-> KEEPALIVE, streamId |-> 0, flags |-> FOLLOWS,
    lastReceivedPosition |-> <<0, 65536>>, data |-> Empty],
   [type |-> KEEPALIVE, streamId |-> 0, flags |-> 0,
    lastReceivedPosition |-> <<3, 1>>, data |-> Some],
   [type |-> REQUEST_RESPONSE, streamId |-> Max31, flags |-> METADATA,
    data |-> Null, metadata |-> Empty],
   [type |-> REQUEST_CHANNEL, streamId |-> 3, flags |-> METADATA + COMPLETE,
    requestN |-> Max31, data |-> Empty, metadata |-> Some],
   [type |-> REQUEST_N, streamId |-> 256, flags |-> 0, requestN |-> 128],
   [type |-> CANCEL, streamId |-> 255, flags |-> 0],
   [type |-> PAYLOAD, streamId |-> 1, flags |-> NEXT + FOLLOWS,
    data |-> Some, metadata |-> Null],
   [type |-> PAYLOAD, streamId |-> 1, flags |-> NEXT + COMPLETE + METADATA,
    data |-> Some, metadata |-> <<[i \in 1 .. 256 |-> i % 256]>>],
   [type |-> ERROR, streamId |-> 0, flags |-> IGNORE, code |-> 513, message |-> <<65>>],
   [type |-> ERROR, streamId |-> 5, flags |-> 0, code |-> 1, message |-> <<>>],
   [type |-> METADATA_PUSH, streamId |-> 0, flags |-> METADATA, metadata |-> Some],
   [type |-> RESUME_OK, streamId |-> 0, flags |-> 0, clientPosition |-> <<2, 66000>>]}

-----------------------------------------------------------------------------
A == <<97>>
B == <<98, 99>>
Long == [i \in 1 .. 255 |-> 100]

Entry(id, mime, content) == [id |-> id, mime |-> mime, content |-> content]
Custom(mime, content) == Entry(Explicit, mime, content)

\* A name of the greatest length, the id of a reserved type, and the routing
\* type given again with two routes, once after one of the greatest length.
LongName == [i \in 1 .. 128 |-> 120]
Routes(paths) == [id |-> ROUTING, mime |-> <<>>, routes |-> paths]

MCAsks ==
  {[type |-> REQUEST_RESPONSE, route |-> A, extras |-> <<>>,
    credentials |-> [kind |-> "none"]],
   [type |-> REQUEST_RESPONSE, route |-> B,
    extras |-> <<Entry(100, <<>>, <<1>>), Routes(<<B, A>>)>>,
    credentials |-> [kind |-> "simple", username |-> A, password |-> <<>>]],
   [type |-> REQUEST_FNF, route |-> B, extras |-> <<Custom(LongName, <<>>)>>,
    credentials |-> [kind |-> "bearer", token |-> <<1, 2>>]],
   [type |-> REQUEST_STREAM, route |-> A,
    extras |-> <<Routes(<<Long, B>>), Custom(<<120>>, <<5>>), Entry(0, <<>>, <<>>)>>,
    credentials |-> [kind |-> "custom", name |-> LongName, payload |-> <<9>>]],
   [type |-> REQUEST_RESPONSE, route |-> <<>>, extras |-> <<Custom(<<200>>, <<>>)>>,
    credentials |-> [kind |-> "none"]]}

\* Of a request with the routes B and A, one takes it at the first, one at the
\* second, and with both a request-response at the second is shadowed.
MCHandlers == {<<A, REQUEST_RESPONSE>>, <<B, REQUEST_STREAM>>}
=============================================================================
