----------------------------- MODULE KeepAlive -----------------------------
(***************************************************************************)
(* KeepAliveHandler and KeepAliveSender of one end of a connection, as     *)
(* what their methods make of their state.  Time is counted in ticks.  An  *)
(* armed timer is the set of the ticks it has left, 0 or less when due, an *)
(* unarmed one is empty.                                                   *)
(***************************************************************************)
EXTENDS Integers

CONSTANTS
  Interval,     \* keepAlive of the setup frame
  Lifetime,     \* lifetime of the setup frame
  MinRearm,     \* the least time a timeout check is put off: 100 ms in the code
  Lag,          \* how late an event loop may run a timer that is due
  Delay         \* how long a frame may be on its way while the link works

\* A lifetime that cannot pass between two acks of a peer that is alive.
ASSUME KeepAliveAssumption ==
  /\ {Interval, Lifetime, MinRearm} \subseteq Nat \ {0}
  /\ {Lag, Delay} \subseteq Nat
  /\ Lifetime > Interval + Lag + 2 * Delay

Due(timer) == \E left \in timer : left <= 0
Elapsed(timer) == {left - 1 : left \in timer}

\* The handler of keepalive frames: how long ago it was started or had one.
NewHandler == [state |-> "Paused", idle |-> 0, timer |-> {}]

start(handler) ==
  IF handler.state = "Paused" THEN [state |-> "Running", idle |-> 0, timer |-> {Lifetime}]
  ELSE handler

pause(handler) ==
  IF handler.state = "Running" THEN [handler EXCEPT !.state = "Paused", !.timer = {}]
  ELSE handler

closeForgetsTimer(handler) == [handler EXCEPT !.state = "Closed"]
close(handler) == [handler EXCEPT !.state = "Closed", !.timer = {}]

handleKeepsTime(handler) == handler
handle(handler) == [handler EXCEPT !.idle = 0]

rearmNot(handler) == [handler EXCEPT !.timer = {}]

\* What a check that fires too early is put off by.
rearm(handler) ==
  LET left == Lifetime - handler.idle
  IN [handler EXCEPT !.timer = {IF left < MinRearm THEN MinRearm ELSE left}]

TimedOut(handler) == handler.idle >= Lifetime

\* The sender, which is the interval between two frames.
NewSender == [state |-> "Paused", timer |-> {}]

startSender(sender) ==
  IF sender.state = "Paused" THEN [state |-> "Running", timer |-> {Interval}] ELSE sender

pauseSender(sender) ==
  IF sender.state = "Running" THEN [state |-> "Paused", timer |-> {}] ELSE sender

closeSender == [state |-> "Closed", timer |-> {}]

nextInterval(sender) == [sender EXCEPT !.timer = {Interval}]

\* The longest a handler may be without a frame, and one tick more, where the
\* count stops.
LongestIdle == Lifetime + MinRearm + Lag

\* A tick passes for both.  Only a running handler's idle time is ever read.
Tick(end) ==
  [handler |-> [end.handler EXCEPT
                  !.timer = Elapsed(@),
                  !.idle = IF end.handler.state # "Running" THEN 0
                           ELSE IF @ > LongestIdle THEN @ ELSE @ + 1],
   sender |-> [end.sender EXCEPT !.timer = Elapsed(@)]]

\* No timer has been due for longer than the event loop takes.
InTime(end) == \A left \in end.handler.timer \union end.sender.timer : left > -Lag

Unarmed(end) == end.handler.timer = {} /\ end.sender.timer = {}
=============================================================================
