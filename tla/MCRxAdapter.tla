---------------------------- MODULE MCRxAdapter ----------------------------
EXTENDS RxAdapter

\* A response; streams whose prefetch is one, and more than the items that make
\* it ask again; a channel with two.
Case(kind, prefetch, up, down) ==
  [kind |-> kind, prefetch |-> prefetch,
   items |-> [p \in Peers |-> IF p = Requester THEN up ELSE down]]

MCCases ==
  {Case("response", 1, 0, 1), Case("stream", 1, 0, 3), Case("stream", 4, 0, 5),
   Case("channel", 1, 2, 1), Case("channel", 2, 2, 2)}
=============================================================================
