---------------------------- MODULE MCConnection ----------------------------
EXTENDS Connection

\* Two ends that fit, with and without resumption, a server that has no leases
\* for a client that wants them, and one that keeps no sessions.
Config(lease, serverLease, resume, store, sends) ==
  [clientLease |-> lease, serverLease |-> serverLease, resume |-> resume,
   sessionStore |-> store, serverSideKeepAlive |-> sends]

MCConfigs ==
  {Config(FALSE, FALSE, FALSE, FALSE, FALSE), Config(TRUE, TRUE, TRUE, TRUE, TRUE),
   Config(TRUE, FALSE, FALSE, FALSE, FALSE), Config(FALSE, FALSE, TRUE, FALSE, FALSE)}
\* Two ends that keep a session.
MCResuming == {Config(FALSE, FALSE, TRUE, TRUE, TRUE)}
=============================================================================
