-------------------------- MODULE ConnectionProofs --------------------------
(***************************************************************************)
(* Theorems about Connection for every interval, lifetime and lateness of  *)
(* the keepalive, every set of configurations and any number of requests   *)
(* and resumptions.                                                        *)
(***************************************************************************)
EXTENDS Connection, SumsProofs

-----------------------------------------------------------------------------
(* The inductive invariant. *)

FrameTypes == {"SETUP", "KEEPALIVE", "REQUEST", "FIN", "REJECTED_SETUP"}
Frames == [type : FrameTypes, respond : BOOLEAN, age : 0 .. Delay]
Handlers == [state : {"Paused", "Running", "Closed"}, idle : Nat, timer : SUBSET Int]
Senders == [state : {"Paused", "Running", "Closed"}, timer : SUBSET Int]
Reasons == {"none", "peer", "application", "socket", "keepalive", "REJECTED_SETUP", "SETUP"}

\* What each variable holds.
Typed ==
  /\ config \in Configurations
  /\ conn \in [Peers -> {"none", "open", "closed", "failed"}]
  /\ reason \in [Peers -> Reasons]
  /\ accepting \in {"none", "awaited", "done"} /\ installed \in [Peers -> BOOLEAN]
  /\ responderCloses \in [Peers -> Nat]
  /\ ends \in [Peers -> [handler : Handlers, sender : Senders]]
  /\ pipe \in [Peers -> Seq(Frames)] /\ held \in Seq(Frames)
  /\ cut \in BOOLEAN /\ stalled \in BOOLEAN
  /\ requests \in [sent : Nat, dispatched : Nat] /\ resumes \in Nat

\* How far the setup has come.
Stages ==
  /\ installed[Client] <=> conn[Client] \in {"open", "closed"}
  /\ ~installed[Client] => conn[Server] = "none" /\ ~cut /\ requests.sent = 0 /\ pipe[Server] = <<>>
  /\ conn[Server] # "failed"
  /\ conn[Server] = "none" => ~installed[Server] /\ accepting = "none"
  /\ accepting = "none" => conn[Server] # "open"
  /\ installed[Server] => accepting = "done"
  /\ conn[Server] = "open" => accepting = "awaited" \/ installed[Server]
  /\ accepting # "awaited" => held = <<>>
  /\ resumes > 0 => installed[Client] /\ installed[Server]
  /\ conn[Server] = "open" \/ accepting # "none" => ~ResumeUnsupported /\ ~LeasesDiffer
  /\ ~installed[Server] => requests.dispatched = 0

\* What is on the way to each end, and when the end of a socket is.
Ended(frames) == \E f \in Range(frames) : f.type = "FIN"

Wires ==
  /\ cut => pipe[Client] = <<>> /\ pipe[Server] = <<>>
  /\ \A f \in Range(pipe[Client]) : f.type \in {"KEEPALIVE", "REJECTED_SETUP", "FIN"}
  /\ \A f \in Range(pipe[Server]) : f.type \in {"SETUP", "KEEPALIVE", "REQUEST", "FIN"}
  /\ ~installed[Server] /\ conn[Server] # "closed" => pipe[Client] = <<>>
  /\ conn[Server] = "none" /\ installed[Client] /\ ~cut =>
       pipe[Server] # <<>> /\ Head(pipe[Server]).type = "SETUP"
  /\ Ended(pipe[Client]) => conn[Server] = "closed"
  /\ conn[Server] = "closed" /\ conn[Client] = "open" /\ ~cut => Ended(pipe[Client])
  /\ conn[Client] = "closed" /\ conn[Server] # "closed" /\ ~cut => Ended(pipe[Server])

\* A client whose setup was rejected finds out first of all.
Told ==
  /\ conn[Server] # "closed" => reason[Client] # "peer"
  /\ reason[Server] = "REJECTED_SETUP" =>
       /\ conn[Server] = "closed" /\ reason[Client] # "peer"
       /\ conn[Client] = "open" => pipe[Client] = <<>> \/ Head(pipe[Client]).type = "REJECTED_SETUP"

\* Every request is dispatched, on its way or held.
Counted ==
  conn[Client] = "open" /\ conn[Server] # "closed" /\ resumes = 0 /\ ~cut =>
    requests.sent = requests.dispatched + RequestsIn(pipe[Server]) + RequestsIn(held)

\* The keepalive of an end: new, running or closed.
NewEnd == [handler |-> NewHandler, sender |-> NewSender]

Armed(handler) ==
  /\ handler.state = "Running"
  /\ \E left \in Int : handler.timer = {left} /\ -Lag <= left /\ handler.idle + left <= Lifetime + MinRearm

Sending(sender) ==
  sender.state = "Running" /\ \E left \in Int : sender.timer = {left} /\ -Lag <= left /\ left <= Interval

RunningEnd(end, sends) ==
  Armed(end.handler) /\ IF sends THEN Sending(end.sender) ELSE end.sender = NewSender

ClosedEnd(end) ==
  /\ end.handler.state = "Closed" /\ end.handler.timer = {} /\ end.handler.idle <= LongestIdle
  /\ end.sender = closeSender

Watched(p) == conn[p] = "open" /\ installed[p] /\ resumes = 0
Sends(p) == p = Client \/ config.serverSideKeepAlive

EndKept(p) ==
  /\ ~installed[p] => ends[p] = NewEnd /\ responderCloses[p] = 0
  /\ Watched(p) => RunningEnd(ends[p], Sends(p)) /\ responderCloses[p] = 0
  /\ installed[p] /\ ~Watched(p) => ClosedEnd(ends[p]) /\ responderCloses[p] = 1

\* How long an end has had no keepalive frame is accounted for: there is one,
\* or the end of the socket, on its way, or what will make the other end send
\* one is, or the sender of the client soon sends.
Works == resumes = 0 /\ ~cut /\ ~stalled
Asks(frames, idle) ==
  \E f \in Range(frames) : f.type = "KEEPALIVE" /\ f.respond /\ idle <= Interval + Lag + f.age
SendsSoon(idle) == \E left \in ends[Client].sender.timer : idle <= Interval - left

Answered(idle) == \E f \in Range(pipe[Client]) : idle <= Interval + Lag + Delay + f.age
Reached(idle) == \E f \in Range(pipe[Server]) : f.type # "REQUEST" /\ idle <= Interval + Lag + f.age

ClientHears ==
  Works /\ conn[Client] = "open" =>
    \/ Answered(ends[Client].handler.idle)
    \/ /\ conn[Server] # "closed"
       /\ \/ Asks(pipe[Server], ends[Client].handler.idle) \/ Asks(held, ends[Client].handler.idle)
          \/ SendsSoon(ends[Client].handler.idle)

ServerHears ==
  Works /\ Watched(Server) =>
    \/ Reached(ends[Server].handler.idle)
    \/ conn[Client] = "open" /\ SendsSoon(ends[Server].handler.idle)

Excused == \A p \in Peers : reason[p] = "keepalive" => cut \/ stalled

IInv ==
  /\ Typed /\ Stages /\ Wires /\ Told /\ Counted
  /\ EndKept(Client) /\ EndKept(Server)
  /\ ClientHears /\ ServerHears /\ Excused

-----------------------------------------------------------------------------
(* Frames. *)

\* The two ends are different and each is the other's other.
LEMMA TwoPeers ==
  /\ Client # Server /\ Peers = {Client, Server} /\ Client \in Peers /\ Server \in Peers
  /\ Other(Client) = Server /\ Other(Server) = Client
BY DEF Client, Server, Peers, Other

\* The keepalive's parameters are numbers.
LEMMA Parameters ==
  ASSUME KeepAliveAssumption
  PROVE  /\ Interval \in Nat /\ Interval > 0 /\ Lifetime \in Nat /\ MinRearm \in Nat /\ MinRearm > 0
         /\ Lag \in Nat /\ Delay \in Nat /\ Lifetime > Interval + Lag + Delay + Delay
         /\ LongestIdle = Lifetime + MinRearm + Lag
BY DEF KeepAliveAssumption, LongestIdle

\* A frame that an end sends is a frame, not old.
LEMMA FrameFacts ==
  ASSUME KeepAliveAssumption
  PROVE  /\ \A type \in FrameTypes : Frame(type) \in Frames /\ Frame(type).type = type /\ Frame(type).age = 0
         /\ \A respond \in BOOLEAN :
              /\ KeepAliveFrame(respond) \in Frames /\ KeepAliveFrame(respond).type = "KEEPALIVE"
              /\ KeepAliveFrame(respond).respond = respond /\ KeepAliveFrame(respond).age = 0
         /\ Fin = Frame("FIN")
<1>1. 0 \in 0 .. Delay
  BY Parameters
<1>2. FALSE \in BOOLEAN
  OBVIOUS
<1>. QED
  BY <1>1, <1>2 DEF Frame, KeepAliveFrame, Fin, Frames, FrameTypes

\* How many requests there are among some frames.
RequestWeight == [f \in Frames |-> IF f.type = "REQUEST" THEN 1 ELSE 0]

\* Counting requests is weighing the frames.
LEMMA RequestsWeigh ==
  ASSUME NEW s \in Seq(Frames)
  PROVE  RequestsIn(s) = Weigh(RequestWeight, s) /\ RequestsIn(s) \in Nat
<1>1. RequestWeight \in [Frames -> Nat]
  BY DEF RequestWeight
<1>2. \A i \in DOMAIN s : s[i] \in Frames
  BY LenProperties, ElementOfSeq
<1>3. [i \in DOMAIN s |-> IF s[i].type = "REQUEST" THEN 1 ELSE 0] = [i \in DOMAIN s |-> RequestWeight[s[i]]]
  BY <1>2 DEF RequestWeight
<1>4. RequestsIn(s) = Weigh(RequestWeight, s)
  BY ONLY <1>3, Zenon DEF RequestsIn, Weigh
<1>5. Weigh(RequestWeight, s) \in Nat
  BY ONLY <1>1, s \in Seq(Frames), WeighType
<1>. QED
  BY ONLY <1>4, <1>5

\* What a pipe is once frames were added to it.
Appended(s, frames, t) ==
  /\ t \in Seq(Frames) /\ Range(t) = Range(s) \cup Range(frames)
  /\ s = <<>> => t = frames
  /\ s # <<>> => t # <<>> /\ Head(t) = Head(s)
  /\ RequestsIn(t) = RequestsIn(s) + RequestsIn(frames)

\* Frames that are appended stay behind those there are.
LEMMA AppendedFacts ==
  ASSUME NEW s \in Seq(Frames), NEW t \in Seq(Frames)
  PROVE  Appended(s, t, s \o t)
<1>1. RequestWeight \in [Frames -> Nat]
  BY DEF RequestWeight
<1>2. s \o t \in Seq(Frames)
  BY AppendFacts
<1>3. RequestsIn(s \o t) = RequestsIn(s) + RequestsIn(t)
  <2>1. Weigh(RequestWeight, s \o t) = Weigh(RequestWeight, s) + Weigh(RequestWeight, t)
    BY ONLY <1>1, s \in Seq(Frames), t \in Seq(Frames), WeighConcat
  <2>. QED
    BY ONLY <2>1, <1>2, s \in Seq(Frames), t \in Seq(Frames), RequestsWeigh, Zenon
<1>. QED
  BY <1>2, <1>3, AppendFacts DEF Appended

\* One frame.
LEMMA OneFrame ==
  ASSUME NEW f \in Frames
  PROVE  /\ <<f>> \in Seq(Frames) /\ Range(<<f>>) = {f} /\ <<f>> # <<>> /\ Head(<<f>>) = f
         /\ RequestsIn(<<f>>) = IF f.type = "REQUEST" THEN 1 ELSE 0
<1>1. RequestWeight \in [Frames -> Nat]
  BY DEF RequestWeight
<1>2. <<f>> \in Seq(Frames)
  OBVIOUS
<1>3. RequestsIn(<<f>>) = RequestWeight[f]
  BY <1>1, <1>2, RequestsWeigh, WeighSingle
<1>. QED
  BY <1>2, <1>3, SingleFacts DEF RequestWeight

\* No frames.
LEMMA NoFrame == <<>> \in Seq(Frames) /\ Range(<<>>) = {} /\ RequestsIn(<<>>) = 0
<1>1. <<>> \in Seq(Frames)
  OBVIOUS
<1>. QED
  BY <1>1, RequestsWeigh, WeighEmpty, SingleFacts

\* The oldest frame is taken.
LEMMA TakenFacts ==
  ASSUME NEW s \in Seq(Frames), s # <<>>
  PROVE  /\ Head(s) \in Frames /\ Tail(s) \in Seq(Frames) /\ Range(s) = {Head(s)} \cup Range(Tail(s))
         /\ RequestsIn(s) = RequestsIn(Tail(s)) + IF Head(s).type = "REQUEST" THEN 1 ELSE 0
<1>1. RequestWeight \in [Frames -> Nat]
  BY DEF RequestWeight
<1>2. Head(s) \in Frames /\ Tail(s) \in Seq(Frames)
  BY TailFacts
<1>3. RequestsIn(s) = RequestWeight[Head(s)] + RequestsIn(Tail(s))
  BY <1>1, <1>2, RequestsWeigh, WeighTail
<1>4. RequestWeight[Head(s)] = IF Head(s).type = "REQUEST" THEN 1 ELSE 0
  BY <1>2 DEF RequestWeight
<1>5. RequestsIn(Tail(s)) \in Nat
  BY <1>2, RequestsWeigh
<1>6. RequestsIn(s) = RequestsIn(Tail(s)) + IF Head(s).type = "REQUEST" THEN 1 ELSE 0
  BY <1>3, <1>4, <1>5
<1>. QED
  BY <1>2, <1>6, TailFacts

\* The first chunk: SETUP, what came with it and what comes later.
LEMMA ChunkFacts ==
  ASSUME NEW s \in Seq(Frames), NEW n \in Nat, n >= 1, n <= Len(s)
  PROVE  /\ s # <<>> /\ SubSeq(s, 2, n) \in Seq(Frames) /\ SubSeq(s, n + 1, Len(s)) \in Seq(Frames)
         /\ Range(s) = {Head(s)} \cup Range(SubSeq(s, 2, n)) \cup Range(SubSeq(s, n + 1, Len(s)))
         /\ RequestsIn(s) = RequestsIn(SubSeq(s, 2, n)) + RequestsIn(SubSeq(s, n + 1, Len(s)))
                              + IF Head(s).type = "REQUEST" THEN 1 ELSE 0
         /\ \A f \in Range(SubSeq(s, 2, n)) : \E i \in 1 .. n : f = s[i]
<1>1. s # <<>> /\ Len(s) \in Nat
  OBVIOUS
<1>2. PICK h : h = SubSeq(s, 2, n)
  OBVIOUS
<1>3. PICK r : r = SubSeq(s, n + 1, Len(s))
  OBVIOUS
<1>4. \A i \in 1 .. Len(s) : s[i] \in Frames
  BY ElementOfSeq
<1>5. h \in Seq(Frames) /\ r \in Seq(Frames)
  <2>1. (\A i \in 2 .. n : s[i] \in Frames) /\ \A i \in n + 1 .. Len(s) : s[i] \in Frames
    BY <1>4
  <2>. QED
    BY <2>1, <1>1, <1>2, <1>3, SubSeqProperties
<1>6. Len(h) = n - 1 /\ \A i \in 1 .. n - 1 : h[i] = s[i + 1]
  <2>1. \A i \in 2 .. n : s[i] \in Frames
    BY <1>4
  <2>. QED
    BY <2>1, <1>2, SubSeqProperties
<1>7. Tail(s) = h \o r
  <2>1. Tail(s) = SubSeq(s, 2, Len(s))
    BY <1>1, TailIsSubSeq
  <2>2. 2 \in 1 .. Len(s) + 1 /\ n \in 2 - 1 .. Len(s) /\ Len(s) \in n .. Len(s)
    BY <1>1
  <2>3. SubSeq(s, 2, n) \o SubSeq(s, n + 1, Len(s)) = SubSeq(s, 2, Len(s))
    BY ONLY <2>2, s \in Seq(Frames), ConcatAdjacentSubSeq, ZenonT(40)
  <2>. QED
    BY ONLY <2>1, <2>3, <1>2, <1>3
<1>8. Range(Tail(s)) = Range(h) \cup Range(r) /\ RequestsIn(Tail(s)) = RequestsIn(h) + RequestsIn(r)
  BY ONLY ZenonT(40), <1>5, <1>7, AppendedFacts DEF Appended
<1>9. /\ Range(s) = {Head(s)} \cup Range(Tail(s))
      /\ RequestsIn(s) = RequestsIn(Tail(s)) + IF Head(s).type = "REQUEST" THEN 1 ELSE 0
  BY <1>1, TakenFacts
<1>10. \A f \in Range(h) : \E i \in 1 .. n : f = s[i]
  <2>1. DOMAIN h = 1 .. n - 1
    BY <1>5, <1>6, LenProperties
  <2>2. ASSUME NEW i \in 1 .. n - 1
        PROVE  \E j \in 1 .. n : h[i] = s[j]
    <3>1. i + 1 \in 1 .. n /\ h[i] = s[i + 1]
      BY <1>6
    <3>. QED
      BY <3>1
  <2>. QED
    BY ONLY <2>1, <2>2, Zenon DEF Range
<1>11. RequestsIn(h) \in Nat /\ RequestsIn(r) \in Nat
  BY <1>5, RequestsWeigh
<1>. QED
  BY ONLY <1>1, <1>2, <1>3, <1>5, <1>8, <1>9, <1>10, <1>11

\* Who is asked by a keepalive frame answers.
LEMMA AnswersFacts ==
  ASSUME KeepAliveAssumption, NEW s \in Seq(Frames)
  PROVE  /\ Answers(s) \in Seq(Frames) /\ \A f \in Range(Answers(s)) : f = KeepAliveFrame(FALSE)
         /\ (\E f \in Range(s) : f.type = "KEEPALIVE" /\ f.respond) =>
              Answers(s) # <<>> /\ KeepAliveFrame(FALSE) \in Range(Answers(s))
<1> DEFINE S == {i \in DOMAIN s : s[i].type = "KEEPALIVE" /\ s[i].respond}
<1>1. Len(s) \in Nat /\ DOMAIN s = 1 .. Len(s)
  BY LenProperties
<1>2. IsFiniteSet(S)
  <2>1. IsFiniteSet(1 .. Len(s))
    BY <1>1, FS_Interval
  <2>2. S \subseteq 1 .. Len(s)
    BY <1>1
  <2>. QED
    BY <2>1, <2>2, FS_Subset
<1>3. Asked(s) \in Nat /\ (Asked(s) = 0 <=> S = {})
  BY <1>2, FS_CardinalityType, FS_EmptySet DEF Asked
<1>4. PICK n : n = Asked(s)
  OBVIOUS
<1>5. KeepAliveFrame(FALSE) \in Frames
  BY FrameFacts
<1>6. PICK k : k = KeepAliveFrame(FALSE)
  OBVIOUS
<1>7. PICK a : a = [i \in 1 .. n |-> k]
  OBVIOUS
<1>8. a \in Seq(Frames) /\ \A f \in Range(a) : f = k
  <2>1. n \in Nat /\ k \in Frames
    BY <1>3, <1>4, <1>5, <1>6
  <2>2. a \in [1 .. n -> Frames] /\ DOMAIN a = 1 .. n /\ \A i \in 1 .. n : a[i] = k
    BY ONLY <2>1, <1>7, Zenon
  <2>3. a \in Seq(Frames)
    BY ONLY <2>1, <2>2, SeqDef, Zenon
  <2>. QED
    BY ONLY <2>2, <2>3, Zenon DEF Range
<1>9. n # 0 => a # <<>> /\ k \in Range(a)
  <2>1. HAVE n # 0
  <2>2. 1 \in DOMAIN a /\ a[1] = k
    BY <2>1, <1>3, <1>4, <1>7
  <2>. QED
    BY <2>2 DEF Range
<1>10. Answers(s) = a
  BY <1>4, <1>6, <1>7 DEF Answers
<1>11. (\E f \in Range(s) : f.type = "KEEPALIVE" /\ f.respond) => S # {}
  BY DEF Range
<1>. QED
  BY ONLY <1>3, <1>4, <1>6, <1>8, <1>9, <1>10, <1>11

\* The answers to one frame are no requests.
LEMMA AnswerFacts ==
  ASSUME KeepAliveAssumption, NEW f \in Frames
  PROVE  /\ Answers(<<f>>) \in Seq(Frames) /\ RequestsIn(Answers(<<f>>)) = 0
         /\ \A g \in Range(Answers(<<f>>)) : g = KeepAliveFrame(FALSE)
         /\ f.type = "KEEPALIVE" /\ f.respond => KeepAliveFrame(FALSE) \in Range(Answers(<<f>>))
<1>1. <<f>> \in Seq(Frames) /\ Range(<<f>>) = {f}
  BY OneFrame
<1>2. KeepAliveFrame(FALSE) \in Frames /\ KeepAliveFrame(FALSE).type # "REQUEST"
  BY FrameFacts
<1>3. Answers(<<f>>) = <<>> \/ Answers(<<f>>) = <<KeepAliveFrame(FALSE)>>
  <2>1. {i \in DOMAIN <<f>> : <<f>>[i].type = "KEEPALIVE" /\ <<f>>[i].respond} \in {{}, {1}}
    OBVIOUS
  <2>2. Asked(<<f>>) = 0 \/ Asked(<<f>>) = 1
    BY <2>1, FS_EmptySet, FS_Singleton DEF Asked
  <2>3. PICK k : k = KeepAliveFrame(FALSE)
    OBVIOUS
  <2>4. [i \in 1 .. 0 |-> k] = <<>> /\ [i \in 1 .. 1 |-> k] = <<k>>
    OBVIOUS
  <2>. QED
    BY <2>2, <2>3, <2>4 DEF Answers
<1>4. RequestsIn(Answers(<<f>>)) = 0
  BY <1>2, <1>3, OneFrame, NoFrame
<1>. QED
  BY <1>1, <1>4, AnswersFacts

\* A tick later.
Older(s) == [i \in DOMAIN s |-> [s[i] EXCEPT !.age = IF @ < Delay THEN @ + 1 ELSE @]]

\* Frames that get older are the same otherwise.
LEMMA OlderFacts ==
  ASSUME KeepAliveAssumption, NEW s \in Seq(Frames)
  PROVE  /\ Older(s) \in Seq(Frames) /\ (Older(s) = <<>> <=> s = <<>>)
         /\ RequestsIn(Older(s)) = RequestsIn(s)
         /\ s # <<>> => Head(Older(s)).type = Head(s).type
         /\ \A g \in Range(Older(s)) : \E f \in Range(s) : g.type = f.type
         /\ \A f \in Range(s) : \E g \in Range(Older(s)) :
              /\ g.type = f.type /\ g.respond = f.respond
              /\ f.age < Delay => g.age = f.age + 1
<1>1. Len(s) \in Nat /\ DOMAIN s = 1 .. Len(s) /\ \A i \in 1 .. Len(s) : s[i] \in Frames
  BY LenProperties, ElementOfSeq
<1>2. PICK o : o = Older(s)
  OBVIOUS
<1>3. DOMAIN o = 1 .. Len(s) /\ \A i \in 1 .. Len(s) : o[i] = [s[i] EXCEPT !.age = IF @ < Delay THEN @ + 1 ELSE @]
  BY <1>1, <1>2 DEF Older
<1>4. ASSUME NEW i \in 1 .. Len(s)
      PROVE  /\ o[i] \in Frames /\ o[i].type = s[i].type /\ o[i].respond = s[i].respond
             /\ s[i].age < Delay => o[i].age = s[i].age + 1
  <2>1. PICK f \in Frames : f = s[i]
    BY <1>1
  <2>2. o[i] = [f EXCEPT !.age = IF f.age < Delay THEN f.age + 1 ELSE f.age]
    BY <1>3, <2>1
  <2>3. f.age \in 0 .. Delay /\ f.type \in FrameTypes /\ f.respond \in BOOLEAN
    BY DEF Frames
  <2>4. (IF f.age < Delay THEN f.age + 1 ELSE f.age) \in 0 .. Delay
    <3>1. PICK a \in 0 .. Delay : a = f.age
      BY ONLY <2>3
    <3>2. Delay \in Nat
      BY Parameters
    <3>3. (IF a < Delay THEN a + 1 ELSE a) \in 0 .. Delay
      BY ONLY <3>2, a \in 0 .. Delay
    <3>. QED
      BY ONLY <3>1, <3>3, Zenon
  <2>5. o[i] = [type |-> f.type, respond |-> f.respond, age |-> IF f.age < Delay THEN f.age + 1 ELSE f.age]
    BY <2>2 DEF Frames
  <2>. QED
    BY <2>1, <2>3, <2>4, <2>5 DEF Frames
<1>5. o \in Seq(Frames) /\ Len(o) = Len(s)
  <2>1. o = [i \in 1 .. Len(s) |-> o[i]]
    BY <1>2, <1>3, <1>1 DEF Older
  <2>. QED
    BY <2>1, <1>1, <1>3, <1>4, IsASeq, LenProperties
<1>6. o = <<>> <=> s = <<>>
  BY <1>5, EmptySeq
<1>7. s # <<>> => Head(o).type = Head(s).type
  <2>1. HAVE s # <<>>
  <2>2. Len(s) >= 1 /\ 1 \in 1 .. Len(s)
    BY <2>1, <1>1, EmptySeq
  <2>. QED
    BY <2>2, <1>4, <1>5
<1>8. RequestsIn(o) = RequestsIn(s)
  <2>1. [i \in DOMAIN o |-> IF o[i].type = "REQUEST" THEN 1 ELSE 0]
          = [i \in DOMAIN s |-> IF s[i].type = "REQUEST" THEN 1 ELSE 0]
    BY <1>1, <1>3, <1>4
  <2>. QED
    BY ONLY <2>1, Zenon DEF RequestsIn
<1>9. \A g \in Range(o) : \E f \in Range(s) : g.type = f.type
  BY ONLY <1>1, <1>3, <1>4 DEF Range
<1>10. \A f \in Range(s) : \E g \in Range(o) :
         /\ g.type = f.type /\ g.respond = f.respond
         /\ f.age < Delay => g.age = f.age + 1
  <2>1. ASSUME NEW f \in Range(s)
        PROVE  \E g \in Range(o) : /\ g.type = f.type /\ g.respond = f.respond
                                   /\ f.age < Delay => g.age = f.age + 1
    <3>1. PICK i \in 1 .. Len(s) : f = s[i]
      BY <1>1 DEF Range
    <3>2. o[i] \in Range(o)
      BY <1>3 DEF Range
    <3>. QED
      BY <3>1, <3>2, <1>4
  <2>. QED
    BY <2>1
<1>. QED
  BY ONLY <1>2, <1>5, <1>6, <1>7, <1>8, <1>9, <1>10

-----------------------------------------------------------------------------
(* The keepalive of one end. *)

Kept == [handler : Handlers, sender : Senders]

\* An end and its parts, and what is left of them by each change.
LEMMA EndShape ==
  ASSUME NEW end \in Kept
  PROVE  /\ end.handler \in Handlers /\ end.sender \in Senders
         /\ end = [handler |-> end.handler, sender |-> end.sender]
         /\ \A h : [end EXCEPT !.handler = h] = [handler |-> h, sender |-> end.sender]
         /\ \A s : [end EXCEPT !.sender = s] = [handler |-> end.handler, sender |-> s]
BY DEF Kept

\* What closing, pausing and a keepalive frame leave of a handler.
LEMMA HandlerShape ==
  ASSUME NEW h \in Handlers
  PROVE  /\ close(h) = [state |-> "Closed", idle |-> h.idle, timer |-> {}]
         /\ h.state = "Running" => pause(h) = [state |-> "Paused", idle |-> h.idle, timer |-> {}]
         /\ handle(h) = [state |-> h.state, idle |-> 0, timer |-> h.timer]
<1>1. h = [state |-> h.state, idle |-> h.idle, timer |-> h.timer]
  BY DEF Handlers
<1>2. PICK a, b, c : a = h.state /\ b = h.idle /\ c = h.timer /\ h = [state |-> a, idle |-> b, timer |-> c]
  BY ONLY <1>1, Zenon
<1>3. handle(h) = [state |-> a, idle |-> 0, timer |-> c]
  BY ONLY <1>2, SMT DEF handle
<1>4. ASSUME NEW x
      PROVE  [h EXCEPT !.state = x, !.timer = {}] = [state |-> x, idle |-> b, timer |-> {}]
  <2>1. PICK g : g = [h EXCEPT !.state = x]
    OBVIOUS
  <2>2. g = [state |-> x, idle |-> b, timer |-> c]
    BY ONLY <1>2, <2>1, SMT
  <2>3. [g EXCEPT !.timer = {}] = [state |-> x, idle |-> b, timer |-> {}]
    BY ONLY <2>2, SMT
  <2>. QED
    BY <2>1, <2>3
<1>5. close(h) = [state |-> "Closed", idle |-> b, timer |-> {}]
  BY ONLY <1>4, Zenon DEF close
<1>6. h.state = "Running" => pause(h) = [state |-> "Paused", idle |-> b, timer |-> {}]
  BY ONLY <1>4, Zenon DEF pause
<1>. QED
  BY ONLY <1>2, <1>3, <1>5, <1>6, Zenon

\* What a timer that is armed within its bounds says of the idle time.
LEMMA ArmedFacts ==
  ASSUME KeepAliveAssumption, NEW handler \in Handlers, Armed(handler)
  PROVE  /\ handler.idle <= LongestIdle
         /\ \E left \in Int : handler = [state |-> "Running", idle |-> handler.idle, timer |-> {left}]
                              /\ -Lag <= left /\ handler.idle + left <= Lifetime + MinRearm
<1>1. PICK left \in Int : handler.timer = {left} /\ -Lag <= left /\ handler.idle + left <= Lifetime + MinRearm
  BY DEF Armed
<1>2. PICK idle \in Nat : idle = handler.idle
  BY DEF Handlers
<1>3. idle <= LongestIdle
  BY <1>1, <1>2, Parameters
<1>4. handler = [state |-> "Running", idle |-> idle, timer |-> {left}]
  BY <1>1, <1>2 DEF Handlers, Armed
<1>. QED
  BY <1>1, <1>2, <1>3, <1>4

\* A new end starts with its whole lifetime, and whether it sends or not.
LEMMA StartedFacts ==
  ASSUME KeepAliveAssumption, NEW sends \in BOOLEAN
  PROVE  /\ NewEnd \in Kept /\ Started(NewEnd, sends) \in Kept
         /\ RunningEnd(Started(NewEnd, sends), sends)
         /\ Started(NewEnd, sends).handler.idle = 0
         /\ sends => Started(NewEnd, sends).sender.timer = {Interval}
         /\ Started(Closed(NewEnd), sends) \in Kept /\ ClosedEnd(Started(Closed(NewEnd), sends))
<1>1. Interval \in Int /\ Lifetime \in Int /\ -Lag <= Interval /\ Interval <= Interval
      /\ -Lag <= Lifetime /\ 0 + Lifetime <= Lifetime + MinRearm /\ 0 <= LongestIdle
  BY Parameters
<1>2. NewEnd = [handler |-> [state |-> "Paused", idle |-> 0, timer |-> {}], sender |-> [state |-> "Paused", timer |-> {}]]
  BY DEF NewEnd, NewHandler, NewSender
<1>3. Started(NewEnd, sends) =
        [handler |-> [state |-> "Running", idle |-> 0, timer |-> {Lifetime}],
         sender |-> IF sends THEN [state |-> "Running", timer |-> {Interval}] ELSE NewSender]
  BY <1>2 DEF Started, start, startSender, NewSender
<1>4. NewEnd \in Kept
  BY <1>2 DEF Kept, Handlers, Senders
<1>5. Started(NewEnd, sends) \in Kept
  <2>1. CASE sends
    <3>1. [state |-> "Running", idle |-> 0, timer |-> {Lifetime}] \in Handlers
      BY <1>1 DEF Handlers
    <3>2. [state |-> "Running", timer |-> {Interval}] \in Senders
      BY <1>1 DEF Senders
    <3>3. Started(NewEnd, sends) =
            [handler |-> [state |-> "Running", idle |-> 0, timer |-> {Lifetime}],
             sender |-> [state |-> "Running", timer |-> {Interval}]]
      BY ONLY <2>1, <1>3, Zenon
    <3>. QED
      BY ONLY <3>1, <3>2, <3>3 DEF Kept
  <2>2. CASE ~sends
    BY <2>2, <1>1, <1>3 DEF Kept, Handlers, Senders, NewSender
  <2>. QED
    BY <2>1, <2>2
<1>6. Armed(Started(NewEnd, sends).handler)
  BY <1>1, <1>3 DEF Armed
<1>7. IF sends THEN Sending(Started(NewEnd, sends).sender) ELSE Started(NewEnd, sends).sender = NewSender
  BY <1>1, <1>3 DEF Sending
<1>8. Started(Closed(NewEnd), sends) =
        [handler |-> [state |-> "Closed", idle |-> 0, timer |-> {}], sender |-> closeSender]
  BY <1>2 DEF Started, start, startSender, Closed, close, closeSender
<1>9. Started(Closed(NewEnd), sends) \in Kept /\ ClosedEnd(Started(Closed(NewEnd), sends))
  BY <1>1, <1>8 DEF Kept, Handlers, Senders, ClosedEnd, closeSender
<1>. QED
  BY <1>3, <1>4, <1>5, <1>6, <1>7, <1>9 DEF RunningEnd

\* An end that runs, or that has been closed, is closed for good.
LEMMA ClosedFacts ==
  ASSUME KeepAliveAssumption, NEW end \in Kept
  PROVE  /\ \A sends : RunningEnd(end, sends) =>
              /\ Closed(end) \in Kept /\ ClosedEnd(Closed(end))
              /\ Closed(Paused(end)) \in Kept /\ ClosedEnd(Closed(Paused(end)))
         /\ ClosedEnd(end) => /\ Paused(end) = end /\ \A sends : Started(end, sends) = end
                              /\ Unarmed(end)
<1>1. PICK h \in Handlers : h = end.handler
  BY DEF Kept
<1>2. PICK s \in Senders : s = end.sender
  BY DEF Kept
<1>3. end = [handler |-> h, sender |-> s]
  BY <1>1, <1>2 DEF Kept
<1>4. ASSUME NEW sends, RunningEnd(end, sends)
      PROVE  /\ Closed(end) \in Kept /\ ClosedEnd(Closed(end))
             /\ Closed(Paused(end)) \in Kept /\ ClosedEnd(Closed(Paused(end)))
  <2>1. PICK idle \in Nat : idle = h.idle
    BY DEF Handlers
  <2>2. h.state = "Running" /\ idle <= LongestIdle
    BY <1>1, <1>4, <2>1, ArmedFacts DEF RunningEnd, Armed
  <2>3. close(h) = [state |-> "Closed", idle |-> idle, timer |-> {}]
    BY ONLY <2>1, h \in Handlers, HandlerShape, Zenon
  <2>4. close(pause(h)) = [state |-> "Closed", idle |-> idle, timer |-> {}]
    <3>1. pause(h) = [state |-> "Paused", idle |-> idle, timer |-> {}]
      BY ONLY <2>1, <2>2, h \in Handlers, HandlerShape, Zenon
    <3>2. pause(h) \in Handlers /\ pause(h).idle = idle
      BY ONLY <3>1, idle \in Nat DEF Handlers
    <3>. QED
      BY ONLY <2>1, <3>2, HandlerShape, Zenon
  <2>5. /\ Closed(end) = [handler |-> [state |-> "Closed", idle |-> idle, timer |-> {}], sender |-> closeSender]
        /\ Closed(Paused(end)) = [handler |-> [state |-> "Closed", idle |-> idle, timer |-> {}], sender |-> closeSender]
    BY <1>3, <2>3, <2>4 DEF Closed, Paused
  <2>. QED
    BY <2>1, <2>2, <2>5 DEF Kept, Handlers, Senders, ClosedEnd, closeSender
<1>5. ASSUME ClosedEnd(end)
      PROVE  /\ Paused(end) = end /\ \A sends : Started(end, sends) = end
             /\ Unarmed(end)
  <2>1. h.state = "Closed" /\ h.timer = {} /\ s = closeSender
    BY <1>1, <1>2, <1>5 DEF ClosedEnd
  <2>2. s.state = "Closed" /\ s.timer = {}
    BY <2>1 DEF closeSender
  <2>. QED
    BY Zenon, <1>3, <2>1, <2>2 DEF Paused, Started, start, startSender, pause, pauseSender, Unarmed
<1>. QED
  BY <1>4, <1>5

\* A keepalive frame comes in, a timer that is due is armed again.
LEMMA RunsOn ==
  ASSUME KeepAliveAssumption, NEW end \in Kept, NEW sends, RunningEnd(end, sends)
  PROVE  /\ [end EXCEPT !.handler = handle(@)] \in Kept
         /\ RunningEnd([end EXCEPT !.handler = handle(@)], sends)
         /\ [end EXCEPT !.handler = handle(@)].handler.idle = 0
         /\ [end EXCEPT !.handler = handle(@)].sender = end.sender
         /\ ~TimedOut(end.handler) =>
              /\ [end EXCEPT !.handler = rearm(@)] \in Kept
              /\ RunningEnd([end EXCEPT !.handler = rearm(@)], sends)
              /\ [end EXCEPT !.handler = rearm(@)].handler.idle = end.handler.idle
              /\ [end EXCEPT !.handler = rearm(@)].sender = end.sender
         /\ Due(end.sender.timer) =>
              /\ sends /\ [end EXCEPT !.sender = nextInterval(@)] \in Kept
              /\ RunningEnd([end EXCEPT !.sender = nextInterval(@)], sends)
              /\ [end EXCEPT !.sender = nextInterval(@)].handler = end.handler
<1>1. PICK h \in Handlers : h = end.handler
  BY DEF Kept
<1>2. PICK s \in Senders : s = end.sender
  BY DEF Kept
<1>3. end = [handler |-> h, sender |-> s]
  BY <1>1, <1>2 DEF Kept
<1>4. PICK left \in Int : h = [state |-> "Running", idle |-> h.idle, timer |-> {left}]
                          /\ -Lag <= left /\ h.idle + left <= Lifetime + MinRearm
  BY <1>1, ArmedFacts DEF RunningEnd
<1>5. PICK idle \in Nat : idle = h.idle
  BY DEF Handlers
<1>6. IF sends THEN Sending(s) ELSE s = NewSender
  BY <1>2 DEF RunningEnd
<1>7. /\ [end EXCEPT !.handler = handle(@)] \in Kept
      /\ RunningEnd([end EXCEPT !.handler = handle(@)], sends)
      /\ [end EXCEPT !.handler = handle(@)].handler.idle = 0
      /\ [end EXCEPT !.handler = handle(@)].sender = end.sender
  <2>1. handle(h) = [state |-> "Running", idle |-> 0, timer |-> {left}]
    <3>1. h.state = "Running" /\ h.timer = {left}
      BY <1>4
    <3>. QED
      BY ONLY <3>1, h \in Handlers, HandlerShape, Zenon
  <2>2. [end EXCEPT !.handler = handle(@)] = [handler |-> [state |-> "Running", idle |-> 0, timer |-> {left}], sender |-> s]
    BY ONLY <1>1, <1>2, <2>1, end \in Kept, EndShape, ZenonT(40)
  <2>3. 0 + left <= Lifetime + MinRearm
    BY <1>4, <1>5, Parameters
  <2>4. Armed([state |-> "Running", idle |-> 0, timer |-> {left}])
    BY <1>4, <2>3 DEF Armed
  <2>5. [handler |-> [state |-> "Running", idle |-> 0, timer |-> {left}], sender |-> s] \in Kept
    BY DEF Kept, Handlers
  <2>. QED
    <3>1. PICK g : g = [state |-> "Running", idle |-> 0, timer |-> {left}]
      OBVIOUS
    <3>2. PICK new : new = [end EXCEPT !.handler = handle(@)]
      OBVIOUS
    <3>3. new = [handler |-> g, sender |-> s] /\ g.idle = 0 /\ Armed(g) /\ new \in Kept
      BY ONLY <3>1, <3>2, <2>2, <2>4, <2>5
    <3>4. new.handler = g /\ new.sender = s
      BY ONLY <3>3
    <3>. QED
      BY ONLY <3>2, <3>3, <3>4, <1>2, <1>6 DEF RunningEnd
<1>8. ASSUME ~TimedOut(h)
      PROVE  /\ [end EXCEPT !.handler = rearm(@)] \in Kept
             /\ RunningEnd([end EXCEPT !.handler = rearm(@)], sends)
             /\ [end EXCEPT !.handler = rearm(@)].handler.idle = end.handler.idle
             /\ [end EXCEPT !.handler = rearm(@)].sender = end.sender
  <2>1. PICK next \in Int : next = IF Lifetime - idle < MinRearm THEN MinRearm ELSE Lifetime - idle
    BY Parameters
  <2>2. rearm(h) = [state |-> "Running", idle |-> idle, timer |-> {next}]
    <3>1. h = [state |-> "Running", idle |-> idle, timer |-> {left}]
      BY ONLY <1>4, <1>5, Zenon
    <3>2. [h EXCEPT !.timer = {next}] = [state |-> "Running", idle |-> idle, timer |-> {next}]
      BY ONLY <3>1, SMT
    <3>3. rearm(h) = [h EXCEPT !.timer = {next}]
      BY ONLY <2>1, <1>5, Zenon DEF rearm
    <3>. QED
      BY ONLY <3>2, <3>3
  <2>3. idle < Lifetime
    BY <1>5, <1>8, Parameters DEF TimedOut
  <2>4. -Lag <= next /\ idle + next <= Lifetime + MinRearm
    BY <2>1, <2>3, <1>5, Parameters
  <2>5. [end EXCEPT !.handler = rearm(@)] = [handler |-> [state |-> "Running", idle |-> idle, timer |-> {next}], sender |-> s]
    BY ONLY <1>1, <1>2, <2>2, end \in Kept, EndShape, ZenonT(40)
  <2>6. Armed([state |-> "Running", idle |-> idle, timer |-> {next}])
    BY <2>4 DEF Armed
  <2>7. [handler |-> [state |-> "Running", idle |-> idle, timer |-> {next}], sender |-> s] \in Kept
    BY DEF Kept, Handlers
  <2>. QED
    <3>1. PICK g : g = [state |-> "Running", idle |-> idle, timer |-> {next}]
      OBVIOUS
    <3>2. PICK new : new = [end EXCEPT !.handler = rearm(@)]
      OBVIOUS
    <3>3. new = [handler |-> g, sender |-> s] /\ g.idle = idle /\ Armed(g) /\ new \in Kept
      BY ONLY <3>1, <3>2, <2>5, <2>6, <2>7
    <3>4. new.handler = g /\ new.sender = s
      BY ONLY <3>3
    <3>. QED
      BY ONLY <3>2, <3>3, <3>4, <1>1, <1>2, <1>5, <1>6 DEF RunningEnd
<1>9. ASSUME Due(s.timer)
      PROVE  /\ sends /\ [end EXCEPT !.sender = nextInterval(@)] \in Kept
             /\ RunningEnd([end EXCEPT !.sender = nextInterval(@)], sends)
             /\ [end EXCEPT !.sender = nextInterval(@)].handler = end.handler
  <2>1. sends
    BY <1>6, <1>9 DEF Due, NewSender
  <2>2. s.state = "Running"
    BY <1>6, <2>1 DEF Sending
  <2>3. nextInterval(s) = [state |-> "Running", timer |-> {Interval}]
    <3>1. PICK timer : s = [state |-> "Running", timer |-> timer]
      BY <2>2 DEF Senders
    <3>. QED
      <4>1. PICK next : next = {Interval}
        OBVIOUS
      <4>2. [s EXCEPT !.timer = next] = [state |-> "Running", timer |-> next]
        BY ONLY <3>1, SMT
      <4>. QED
        BY ONLY <4>1, <4>2, Zenon DEF nextInterval
  <2>4. [end EXCEPT !.sender = nextInterval(@)] = [handler |-> h, sender |-> [state |-> "Running", timer |-> {Interval}]]
    BY ONLY <1>1, <1>2, <2>3, end \in Kept, EndShape, ZenonT(40)
  <2>5. Interval \in Int /\ -Lag <= Interval /\ Interval <= Interval
    BY Parameters
  <2>6. Sending([state |-> "Running", timer |-> {Interval}])
    BY <2>5 DEF Sending
  <2>7. [handler |-> h, sender |-> [state |-> "Running", timer |-> {Interval}]] \in Kept
    BY <2>5 DEF Kept, Senders
  <2>. QED
    BY <1>1, <2>1, <2>4, <2>6, <2>7 DEF RunningEnd
<1>. QED
  BY <1>1, <1>2, <1>7, <1>8, <1>9

\* A tick later nothing is later than it may be.
LEMMA TickFacts ==
  ASSUME KeepAliveAssumption, NEW end \in Kept, InTime(end)
  PROVE  /\ Tick(end) \in Kept
         /\ end = NewEnd => Tick(end) = NewEnd
         /\ ClosedEnd(end) => ClosedEnd(Tick(end))
         /\ \A sends : RunningEnd(end, sends) =>
              /\ RunningEnd(Tick(end), sends)
              /\ Tick(end).handler.idle = end.handler.idle + 1
              /\ \A left \in end.sender.timer : left - 1 \in Tick(end).sender.timer
<1>1. PICK h \in Handlers : h = end.handler
  BY DEF Kept
<1>2. PICK s \in Senders : s = end.sender
  BY DEF Kept
<1>3. PICK idle \in Nat : idle = h.idle
  BY DEF Handlers
<1>4. PICK next : next = IF h.state # "Running" THEN 0 ELSE IF idle > LongestIdle THEN idle ELSE idle + 1
  OBVIOUS
<1>5. LongestIdle \in Nat
  BY Parameters
<1>6. next \in Nat
  BY ONLY <1>4, <1>5, idle \in Nat
<1>7. h.state \in {"Paused", "Running", "Closed"} /\ s.state \in {"Paused", "Running", "Closed"}
  BY DEF Handlers, Senders
<1>8. Tick(end) = [handler |-> [state |-> h.state, idle |-> next, timer |-> Elapsed(h.timer)],
                   sender |-> [state |-> s.state, timer |-> Elapsed(s.timer)]]
  <2>1. h = [state |-> h.state, idle |-> h.idle, timer |-> h.timer]
    BY DEF Handlers
  <2>2. PICK a, c : h = [state |-> a, idle |-> idle, timer |-> c] /\ a = h.state /\ c = h.timer
    BY ONLY <2>1, <1>3, Zenon
  <2>3. PICK e : e = Elapsed(c)
    OBVIOUS
  <2>4. [h EXCEPT !.timer = e, !.idle = next] = [state |-> a, idle |-> next, timer |-> e]
    <3>1. PICK g : g = [h EXCEPT !.timer = e]
      OBVIOUS
    <3>2. g = [state |-> a, idle |-> idle, timer |-> e]
      BY ONLY <2>2, <3>1, SMT
    <3>3. [g EXCEPT !.idle = next] = [state |-> a, idle |-> next, timer |-> e]
      BY ONLY <3>2, SMT
    <3>. QED
      BY <3>1, <3>3
  <2>5. s = [state |-> s.state, timer |-> s.timer]
    BY DEF Senders
  <2>6. PICK b, d : s = [state |-> b, timer |-> d] /\ b = s.state /\ d = s.timer
    BY ONLY <2>5, Zenon
  <2>7. PICK o : o = Elapsed(d)
    OBVIOUS
  <2>8. [s EXCEPT !.timer = o] = [state |-> b, timer |-> o]
    BY ONLY <2>6, SMT
  <2>9. Tick(end) = [handler |-> [h EXCEPT !.timer = e, !.idle = next], sender |-> [s EXCEPT !.timer = o]]
    BY ONLY <1>1, <1>2, <1>3, <1>4, <2>2, <2>3, <2>6, <2>7, Zenon DEF Tick
  <2>. QED
    BY ONLY <2>2, <2>3, <2>4, <2>6, <2>7, <2>8, <2>9, Zenon
<1>9. PICK nh, ns : /\ nh = [state |-> h.state, idle |-> next, timer |-> Elapsed(h.timer)]
                    /\ ns = [state |-> s.state, timer |-> Elapsed(s.timer)]
  OBVIOUS
<1>10. /\ nh.state = h.state /\ nh.idle = next /\ nh.timer = Elapsed(h.timer)
       /\ ns.state = s.state /\ ns.timer = Elapsed(s.timer)
       /\ Tick(end).handler = nh /\ Tick(end).sender = ns /\ Tick(end) = [handler |-> nh, sender |-> ns]
  BY ONLY <1>8, <1>9
<1>11. h.timer \in SUBSET Int /\ s.timer \in SUBSET Int
  BY DEF Handlers, Senders
<1>12. Elapsed(h.timer) \in SUBSET Int /\ Elapsed(s.timer) \in SUBSET Int /\ Elapsed({}) = {}
  BY ONLY <1>11 DEF Elapsed
<1>13. Tick(end) \in Kept
  <2>1. nh \in Handlers
    BY ONLY <1>6, <1>7, <1>9, <1>12 DEF Handlers
  <2>2. ns \in Senders
    BY ONLY <1>7, <1>9, <1>12 DEF Senders
  <2>. QED
    BY ONLY <2>1, <2>2, <1>10 DEF Kept
<1>14. ASSUME end = NewEnd
       PROVE  Tick(end) = NewEnd
  <2>1. h.state = "Paused" /\ h.idle = 0 /\ h.timer = {} /\ s.state = "Paused" /\ s.timer = {}
    BY <1>1, <1>2, <1>14 DEF NewEnd, NewHandler, NewSender
  <2>2. next = 0
    BY ONLY <1>4, <2>1
  <2>. QED
    BY ONLY <2>1, <2>2, <1>8, <1>12, Zenon DEF NewEnd, NewHandler, NewSender
<1>15. ASSUME ClosedEnd(end)
       PROVE  ClosedEnd(Tick(end))
  <2>1. h.state = "Closed" /\ h.timer = {} /\ s = closeSender
    BY <1>1, <1>2, <1>15 DEF ClosedEnd
  <2>2. s.state = "Closed" /\ s.timer = {}
    BY ONLY <2>1 DEF closeSender
  <2>3. next = 0 /\ 0 <= LongestIdle
    BY ONLY <1>4, <1>5, <2>1
  <2>4. ns = closeSender
    BY ONLY <2>2, <1>9, <1>12, Zenon DEF closeSender
  <2>. QED
    BY ONLY <2>1, <2>3, <2>4, <1>10, <1>12, Zenon DEF ClosedEnd
<1>16. ASSUME NEW sends, RunningEnd(end, sends)
       PROVE  /\ RunningEnd(Tick(end), sends)
              /\ Tick(end).handler.idle = end.handler.idle + 1
              /\ \A left \in end.sender.timer : left - 1 \in Tick(end).sender.timer
  <2>1. PICK left \in Int : h.timer = {left} /\ -Lag <= left /\ idle + left <= Lifetime + MinRearm
    BY <1>1, <1>3, <1>16 DEF RunningEnd, Armed
  <2>2. h.state = "Running" /\ h.idle <= LongestIdle
    BY <1>1, <1>16, ArmedFacts DEF RunningEnd, Armed
  <2>3. next = idle + 1
    BY ONLY <1>3, <1>4, <1>5, <2>2, idle \in Nat
  <2>4. left > -Lag /\ \A due \in s.timer : due > -Lag
    BY <1>1, <1>2, <2>1 DEF InTime
  <2>5. left - 1 \in Int /\ -Lag <= left - 1 /\ next + (left - 1) <= Lifetime + MinRearm
    BY <2>1, <2>3, <2>4, Parameters
  <2>6. Elapsed(h.timer) = {left - 1}
    BY ONLY <2>1 DEF Elapsed
  <2>7. Armed(nh)
    BY ONLY <2>2, <2>5, <2>6, <1>10, Zenon DEF Armed
  <2>8. IF sends THEN Sending(ns) ELSE ns = NewSender
    <3>1. CASE sends
      <4>1. PICK due \in Int : s.state = "Running" /\ s.timer = {due} /\ -Lag <= due /\ due <= Interval
        BY <1>2, <1>16, <3>1 DEF RunningEnd, Sending
      <4>2. Elapsed(s.timer) = {due - 1}
        BY ONLY <4>1 DEF Elapsed
      <4>3. due > -Lag
        BY ONLY <4>1, <2>4
      <4>4. due - 1 \in Int /\ -Lag <= due - 1 /\ due - 1 <= Interval
        BY <4>1, <4>3, Parameters
      <4>5. Sending(ns)
        BY ONLY <4>1, <4>2, <4>4, <1>10, Zenon DEF Sending
      <4>. QED
        BY <3>1, <4>5
    <3>2. CASE ~sends
      <4>1. s = NewSender
        BY <1>2, <1>16, <3>2 DEF RunningEnd
      <4>2. s.state = "Paused" /\ s.timer = {}
        BY ONLY <4>1 DEF NewSender
      <4>3. ns = NewSender
        BY ONLY <4>2, <1>9, <1>12, Zenon DEF NewSender
      <4>. QED
        BY <3>2, <4>3
    <3>. QED
      BY <3>1, <3>2
  <2>9. \A due \in s.timer : due - 1 \in Elapsed(s.timer)
    BY ONLY <1>11 DEF Elapsed
  <2>. QED
    BY ONLY <2>3, <2>7, <2>8, <2>9, <1>1, <1>2, <1>3, <1>10, Zenon DEF RunningEnd
<1>. QED
  BY ONLY <1>13, <1>14, <1>15, <1>16

-----------------------------------------------------------------------------
(* The invariant holds at first and is kept by every step. *)

\* The invariant holds at first.
LEMMA InitInvariant ==
  ASSUME KeepAliveAssumption, ConnectionAssumption, Init
  PROVE  IInv
<1>1. NewEnd \in Kept
  BY StartedFacts
<1>2. Range(<<>>) = {}
  BY NoFrame
<1>3. Typed
  <2>1. ends \in [Peers -> Kept]
    BY <1>1 DEF Init, NewEnd
  <2>2. <<>> \in Seq(Frames)
    BY NoFrame
  <2>3. pipe \in [Peers -> Seq(Frames)] /\ held \in Seq(Frames)
    BY <2>2 DEF Init
  <2>4. requests \in [sent : Nat, dispatched : Nat] /\ resumes \in Nat
    BY DEF Init
  <2>. QED
    BY <2>1, <2>3, <2>4, ConnectionAssumption DEF Init, Typed, Kept, Reasons
<1>4. /\ \A p \in Peers : conn[p] = "none" /\ reason[p] = "none" /\ ~installed[p] /\ responderCloses[p] = 0
                          /\ ends[p] = NewEnd /\ pipe[p] = <<>>
      /\ held = <<>> /\ ~cut /\ ~stalled /\ requests.sent = 0 /\ requests.dispatched = 0 /\ resumes = 0
      /\ accepting = "none"
  BY DEF Init, NewEnd
<1>5. Stages /\ Told /\ Counted
  BY <1>4, TwoPeers DEF Stages, Told, Counted
<1>6. Wires
  BY <1>2, <1>4, TwoPeers DEF Wires, Ended
<1>7. EndKept(Client) /\ EndKept(Server)
  BY <1>4, TwoPeers DEF EndKept, Watched
<1>8. ClientHears /\ ServerHears /\ Excused
  BY <1>4, TwoPeers DEF ClientHears, ServerHears, Excused, Watched
<1>. QED
  BY <1>3, <1>5, <1>6, <1>7, <1>8 DEF IInv

\* What is sent is added to the pipe of the other end, if it gets anywhere.
LEMMA SentFacts ==
  ASSUME Typed, NEW p \in Peers, NEW frames \in Seq(Frames)
  PROVE  /\ Sent(p, frames) \in [Peers -> Seq(Frames)] /\ Sent(p, frames)[p] = pipe[p]
         /\ cut \/ conn[Other(p)] = "closed" => Sent(p, frames)[Other(p)] = pipe[Other(p)]
         /\ ~cut /\ conn[Other(p)] # "closed" =>
              Appended(pipe[Other(p)], frames, Sent(p, frames)[Other(p)])
<1>1. Other(p) \in Peers /\ Other(p) # p
  BY TwoPeers DEF Peers
<1>2. pipe \in [Peers -> Seq(Frames)] /\ pipe[Other(p)] \in Seq(Frames)
  BY <1>1 DEF Typed
<1>3. CASE cut \/ conn[Other(p)] = "closed"
  BY <1>2, <1>3 DEF Sent
<1>4. CASE ~(cut \/ conn[Other(p)] = "closed")
  <2>1. PICK t : t = pipe[Other(p)] \o frames
    OBVIOUS
  <2>2. Appended(pipe[Other(p)], frames, t)
    BY ONLY <1>2, <2>1, frames \in Seq(Frames), AppendedFacts
  <2>3. t \in Seq(Frames)
    BY <2>2 DEF Appended
  <2>4. Sent(p, frames) = [pipe EXCEPT ![Other(p)] = t]
    BY ONLY <1>4, <2>1, Zenon DEF Sent
  <2>5. Sent(p, frames) \in [Peers -> Seq(Frames)] /\ Sent(p, frames)[p] = pipe[p] /\ Sent(p, frames)[Other(p)] = t
    BY ONLY <1>1, <1>2, <2>3, <2>4, p \in Peers, Zenon
  <2>. QED
    BY ONLY <1>4, <2>2, <2>5
<1>. QED
  BY <1>3, <1>4

\* A pipe to which frames were added.
LEMMA AppendedEnded ==
  ASSUME NEW s, NEW frames, NEW t, Appended(s, frames, t)
  PROVE  Ended(t) <=> Ended(s) \/ Ended(frames)
BY DEF Appended, Ended

\* The listener comes up, fails or closes.
LEMMA BindInvariant ==
  ASSUME IInv, Bind \/ CloseListener
  PROVE  IInv'
<1>1. UNCHANGED <<config, conn, reason, accepting, installed, responderCloses, ends, pipe,
                  held, cut, stalled, requests, resumes>>
  BY DEF Bind, CloseListener
<1>2. Typed' /\ Stages' /\ Wires' /\ Told' /\ Counted'
  BY SMTT(40), <1>1 DEF IInv, Typed, Stages, Wires, Told, Counted, ResumeUnsupported, LeasesDiffer, Ended
<1>3. EndKept(Client)' /\ EndKept(Server)'
  BY <1>1 DEF IInv, EndKept, Watched, Sends
<1>4. ClientHears' /\ ServerHears' /\ Excused'
  BY <1>1 DEF IInv, ClientHears, ServerHears, Excused, Works, Watched, Answered, Reached, Asks, SendsSoon
<1>. QED
  BY <1>2, <1>3, <1>4 DEF IInv

\* There is no listener to connect to.
LEMMA ConnectFailsInvariant ==
  ASSUME IInv, ConnectFails
  PROVE  IInv'
<1>1. UNCHANGED <<config, reason, accepting, installed, responderCloses, ends, pipe,
                  held, cut, stalled, requests, resumes>>
  BY DEF ConnectFails
<1>2. conn'[Client] = "failed" /\ conn'[Server] = conn[Server] /\ conn[Client] = "none"
      /\ conn' \in [Peers -> {"none", "open", "closed", "failed"}]
  BY TwoPeers DEF ConnectFails, IInv, Typed
<1>3. ~installed[Client]
  BY <1>2 DEF IInv, Stages
<1>4. Typed'
  BY <1>1, <1>2 DEF IInv, Typed
<1>5. Stages' /\ Told' /\ Counted'
  BY <1>1, <1>2, <1>3 DEF IInv, Stages, Told, Counted, ResumeUnsupported, LeasesDiffer
<1>6. Wires'
  BY <1>1, <1>2, <1>3 DEF IInv, Wires, Ended, Stages
<1>7. EndKept(Client)' /\ EndKept(Server)'
  BY <1>1, <1>2, <1>3 DEF IInv, EndKept, Watched, Sends
<1>8. ClientHears' /\ ServerHears' /\ Excused'
  BY <1>1, <1>2, <1>3, TwoPeers DEF IInv, ClientHears, ServerHears, Excused, Works, Watched, Stages
<1>. QED
  BY <1>4, <1>5, <1>6, <1>7, <1>8 DEF IInv

\* The client has its handlers, its keepalive and a SETUP frame on its way.
LEMMA ConnectInvariant ==
  ASSUME KeepAliveAssumption, IInv, Connect
  PROVE  IInv'
<1>1. UNCHANGED <<config, reason, accepting, responderCloses, held, cut, stalled, requests, resumes>>
  BY DEF Connect
<1>2. /\ conn'[Client] = "open" /\ conn'[Server] = conn[Server] /\ conn[Client] = "none"
      /\ conn' \in [Peers -> {"none", "open", "closed", "failed"}]
      /\ installed'[Client] /\ installed'[Server] = installed[Server] /\ installed' \in [Peers -> BOOLEAN]
  BY TwoPeers DEF Connect, IInv, Typed
<1>3. /\ ~installed[Client] /\ conn[Server] = "none" /\ ~cut /\ requests.sent = 0 /\ pipe[Server] = <<>>
      /\ ~installed[Server] /\ accepting = "none" /\ held = <<>> /\ requests.dispatched = 0
      /\ pipe[Client] = <<>>
  BY <1>2 DEF IInv, Stages, Wires
<1>4. resumes = 0
  BY <1>3 DEF IInv, Stages, Typed
<1>5. ends[Client] = NewEnd /\ responderCloses[Client] = 0
  BY <1>3 DEF IInv, EndKept
<1>6. PICK setup \in Frames : setup = Frame("SETUP") /\ setup.type = "SETUP"
  BY FrameFacts DEF FrameTypes
<1>7. /\ pipe' \in [Peers -> Seq(Frames)] /\ pipe'[Client] = pipe[Client]
      /\ Appended(pipe[Server], <<setup>>, pipe'[Server])
  <2>1. pipe' = Sent(Client, <<setup>>)
    BY <1>6 DEF Connect
  <2>. QED
    BY <2>1, <1>3, TwoPeers, OneFrame, SentFacts DEF IInv
<1>8. pipe'[Server] = <<setup>> /\ Range(pipe'[Server]) = {setup} /\ pipe'[Server] # <<>>
      /\ Head(pipe'[Server]) = setup /\ RequestsIn(pipe'[Server]) = 0
  BY <1>3, <1>6, <1>7, OneFrame DEF Appended
<1>9. PICK end \in Kept : end = Started(NewEnd, TRUE) /\ RunningEnd(end, TRUE) /\ end.handler.idle = 0
                          /\ end.sender.timer = {Interval}
  BY StartedFacts
<1>10. ends'[Client] = end /\ ends'[Server] = ends[Server] /\ ends' \in [Peers -> Kept]
  <2>1. ends' = [ends EXCEPT ![Client] = end]
    BY <1>5, <1>9, Zenon DEF Connect
  <2>. QED
    BY <2>1, TwoPeers DEF IInv, Typed, Kept
<1>11. Typed'
  BY <1>1, <1>2, <1>7, <1>10 DEF IInv, Typed, Kept
<1>12. Stages' /\ Told'
  BY <1>1, <1>2, <1>3 DEF IInv, Stages, Told, ResumeUnsupported, LeasesDiffer
<1>13. Counted'
  BY <1>1, <1>3, <1>8, NoFrame DEF Counted
<1>14. Wires'
  BY <1>1, <1>2, <1>3, <1>6, <1>7, <1>8, NoFrame DEF Wires, Ended
<1>15. EndKept(Client)'
  <2>1. RunningEnd(ends'[Client], Sends(Client)')
    BY <1>9, <1>10 DEF RunningEnd, Sends
  <2>2. installed'[Client] /\ Watched(Client)' /\ responderCloses'[Client] = 0
    BY <1>1, <1>2, <1>4, <1>5 DEF Watched
  <2>. QED
    BY ONLY <2>1, <2>2, Zenon DEF EndKept
<1>16. EndKept(Server)'
  BY <1>1, <1>2, <1>10 DEF IInv, EndKept, Watched, Sends
<1>17. ClientHears'
  <2>1. 0 <= Interval - Interval
    BY Parameters
  <2>. QED
    BY <1>1, <1>2, <1>3, <1>9, <1>10, <2>1 DEF ClientHears, SendsSoon
<1>18. ServerHears' /\ Excused'
  BY <1>1, <1>2, <1>3, TwoPeers DEF IInv, ServerHears, Watched, Excused
<1>. QED
  BY <1>11, <1>12, <1>13, <1>14, <1>15, <1>16, <1>17, <1>18 DEF IInv

\* One request more is sent, and on its way if the server can still get it.
LEMMA RequestInvariant ==
  ASSUME KeepAliveAssumption, IInv, Request
  PROVE  IInv'
<1>1. UNCHANGED <<config, conn, reason, accepting, installed, responderCloses, ends,
                  held, cut, stalled, resumes>>
  BY DEF Request
<1>2. /\ requests' \in [sent : Nat, dispatched : Nat]
      /\ requests'.sent = requests.sent + 1 /\ requests'.dispatched = requests.dispatched
  <2>1. requests \in [sent : Nat, dispatched : Nat] /\ requests' = [requests EXCEPT !.sent = @ + 1]
    BY DEF Request, IInv, Typed
  <2>. QED
    BY ONLY <2>1
<1>3. conn[Client] = "open" /\ installed[Client]
  BY DEF Request, IInv, Stages
<1>4. PICK frame \in Frames : frame = Frame("REQUEST") /\ frame.type = "REQUEST"
  BY FrameFacts DEF FrameTypes
<1>5. /\ <<frame>> \in Seq(Frames) /\ Range(<<frame>>) = {frame} /\ Head(<<frame>>) = frame
      /\ RequestsIn(<<frame>>) = 1
  BY <1>4, OneFrame
<1>6. /\ pipe' \in [Peers -> Seq(Frames)] /\ pipe'[Client] = pipe[Client]
      /\ cut \/ conn[Server] = "closed" => pipe'[Server] = pipe[Server]
      /\ ~cut /\ conn[Server] # "closed" => Appended(pipe[Server], <<frame>>, pipe'[Server])
  <2>1. pipe' = Sent(Client, <<frame>>)
    BY <1>4 DEF Request
  <2>. QED
    BY <2>1, <1>5, TwoPeers, SentFacts DEF IInv
<1>7. Range(pipe[Server]) \subseteq Range(pipe'[Server])
  BY <1>6 DEF Appended
<1>8. Typed'
  BY <1>1, <1>2, <1>6 DEF IInv, Typed
<1>9. Stages'
  BY <1>1, <1>2, <1>3 DEF IInv, Stages, ResumeUnsupported, LeasesDiffer
<1>10. Wires'
  <2>1. \A f \in Range(pipe'[Server]) : f.type \in {"SETUP", "KEEPALIVE", "REQUEST", "FIN"}
    BY <1>4, <1>5, <1>6 DEF IInv, Wires, Appended, Typed
  <2>2. cut => pipe'[Server] = <<>>
    BY <1>6 DEF IInv, Wires
  <2>3. conn[Server] = "none" /\ ~cut => pipe'[Server] # <<>> /\ Head(pipe'[Server]).type = "SETUP"
    BY <1>3, <1>6 DEF IInv, Wires, Appended
  <2>. QED
    BY <1>1, <1>3, <1>6, <2>1, <2>2, <2>3 DEF IInv, Wires, Ended
<1>11. Told'
  BY <1>1, <1>6 DEF IInv, Told
<1>12. Counted'
  <2>1. SUFFICES ASSUME conn[Server] # "closed", resumes = 0, ~cut
        PROVE  requests'.sent = requests'.dispatched + RequestsIn(pipe'[Server]) + RequestsIn(held)
    BY <1>1 DEF Counted
  <2>2. requests.sent = requests.dispatched + RequestsIn(pipe[Server]) + RequestsIn(held)
    BY <1>3, <2>1 DEF IInv, Counted
  <2>3. RequestsIn(pipe'[Server]) = RequestsIn(pipe[Server]) + 1
    BY <1>5, <1>6, <2>1 DEF Appended, IInv, Typed
  <2>4. requests.dispatched \in Nat /\ RequestsIn(pipe[Server]) \in Nat /\ RequestsIn(held) \in Nat
    BY TwoPeers, RequestsWeigh DEF IInv, Typed
  <2>. QED
    BY ONLY <1>2, <2>2, <2>3, <2>4
<1>13. EndKept(Client)' /\ EndKept(Server)'
  BY <1>1 DEF IInv, EndKept, Watched, Sends
<1>14. ClientHears'
  BY <1>1, <1>6, <1>7 DEF IInv, ClientHears, Works, Answered, Asks, SendsSoon
<1>15. ServerHears' /\ Excused'
  BY <1>1, <1>7 DEF IInv, ServerHears, Works, Watched, Reached, SendsSoon, Excused
<1>. QED
  BY <1>8, <1>9, <1>10, <1>11, <1>12, <1>13, <1>14, <1>15 DEF IInv

\* The parameters of an end's closing that occur, and what they go with.
Closing(p, last, why) ==
  /\ p \in Peers /\ conn[p] = "open"
  /\ why \in Reasons \ {"none"}
  /\ why = "peer" /\ p = Client => conn[Server] = "closed" /\ reason[Server] # "REJECTED_SETUP"
  /\ why = "keepalive" => cut \/ stalled
  /\ IF why = "REJECTED_SETUP" /\ p = Server
     THEN last = <<Frame("REJECTED_SETUP")>> /\ ~installed[Server]
     ELSE last = <<>>

\* Whoever closes an end, whatever for: the other end gets to know.
LEMMA CloseInvariant ==
  ASSUME KeepAliveAssumption, IInv, NEW p, NEW last, NEW why, Closing(p, last, why),
         CloseWith(p, last, why),
         UNCHANGED <<config, installed, cut, stalled, requests, resumes>>,
         \/ UNCHANGED <<accepting, held>>
         \/ p = Server /\ accepting = "awaited" /\ accepting' = "done" /\ held' = <<>>
  PROVE  IInv'
<1> USE TwoPeers
<1>0. Interval \in Nat /\ Lag \in Nat /\ Delay \in Nat
  BY Parameters
<1>1. UNCHANGED <<config, installed, cut, stalled, requests, resumes>> /\ (held' = held \/ held' = <<>>)
  OBVIOUS
<1>2. p = Client \/ p = Server
  BY DEF Closing
<1>3. /\ conn'[p] = "closed" /\ conn' \in [Peers -> {"none", "open", "closed", "failed"}]
      /\ reason'[p] = why /\ reason' \in [Peers -> Reasons] /\ conn[p] = "open"
      /\ \A q \in Peers : q # p => conn'[q] = conn[q] /\ reason'[q] = reason[q]
  <2>1. conn \in [Peers -> {"none", "open", "closed", "failed"}] /\ reason \in [Peers -> Reasons]
    BY DEF IInv, Typed
  <2>2. conn' = [conn EXCEPT ![p] = "closed"] /\ reason' = [reason EXCEPT ![p] = why]
    BY DEF CloseWith
  <2>3. p \in Peers /\ why \in Reasons /\ conn[p] = "open"
    BY DEF Closing
  <2>. QED
    BY ONLY <2>1, <2>2, <2>3
<1>4. PICK fin \in Frames : fin = Fin /\ fin.type = "FIN" /\ fin.age = 0
  BY FrameFacts DEF FrameTypes
<1>5. PICK frames \in Seq(Frames) :
        /\ frames = last \o <<Fin>> /\ fin \in Range(frames) /\ frames # <<>>
        /\ \A f \in Range(frames) : f.type = "FIN" \/ (p = Server /\ f.type = "REJECTED_SETUP")
        /\ p = Server /\ why = "REJECTED_SETUP" => Head(frames).type = "REJECTED_SETUP"
  <2>1. CASE why = "REJECTED_SETUP" /\ p = Server
    <3>1. PICK rejection \in Frames : rejection = Frame("REJECTED_SETUP") /\ rejection.type = "REJECTED_SETUP"
      BY FrameFacts DEF FrameTypes
    <3>2. last = <<rejection>>
      BY <2>1, <3>1 DEF Closing
    <3>3. Appended(<<rejection>>, <<fin>>, <<rejection>> \o <<fin>>)
      BY OneFrame, AppendedFacts
    <3>4. PICK frames : frames = <<rejection>> \o <<fin>>
      OBVIOUS
    <3>5. frames \in Seq(Frames) /\ Range(frames) = {rejection, fin} /\ frames # <<>> /\ Head(frames) = rejection
      BY <3>3, <3>4, OneFrame DEF Appended
    <3>6. frames = last \o <<Fin>>
      BY <3>2, <3>4, <1>4
    <3>. QED
      <4>1. /\ frames = last \o <<Fin>> /\ fin \in Range(frames) /\ frames # <<>> /\ frames \in Seq(Frames)
            /\ Head(frames).type = "REJECTED_SETUP"
        BY ONLY <3>1, <3>5, <3>6
      <4>2. \A f \in Range(frames) : f.type = "FIN" \/ (p = Server /\ f.type = "REJECTED_SETUP")
        <5>1. \A f \in Range(frames) : f = rejection \/ f = fin
          BY ONLY <3>5
        <5>2. p = Server
          BY ONLY <2>1
        <5>. QED
          BY ONLY <5>1, <5>2, <3>1, <1>4, Zenon
      <4>. QED
        BY ONLY <4>1, <4>2
  <2>2. CASE ~(why = "REJECTED_SETUP" /\ p = Server)
    <3>1. last = <<>>
      BY <2>2 DEF Closing
    <3>2. last \o <<Fin>> = <<fin>>
      BY <1>4, <3>1
    <3>. QED
      <4>1. PICK frames : frames = <<fin>>
        OBVIOUS
      <4>2. frames \in Seq(Frames) /\ frames # <<>> /\ Range(frames) = {fin}
        BY ONLY <4>1, fin \in Frames, OneFrame
      <4>3. frames = last \o <<Fin>>
        BY ONLY <3>2, <4>1
      <4>4. fin \in Range(frames) /\ \A f \in Range(frames) : f = fin
        BY ONLY <4>2
      <4>. QED
        BY ONLY <2>2, <4>2, <4>3, <4>4, <1>4
  <2>. QED
    BY <2>1, <2>2
<1>6. /\ pipe' \in [Peers -> Seq(Frames)] /\ pipe'[p] = <<>>
      /\ cut \/ conn[Other(p)] = "closed" => pipe'[Other(p)] = pipe[Other(p)]
      /\ ~cut /\ conn[Other(p)] # "closed" => Appended(pipe[Other(p)], frames, pipe'[Other(p)])
  <2>1. PICK sent : sent = Sent(p, frames)
    OBVIOUS
  <2>2. pipe' = [sent EXCEPT ![p] = <<>>]
    BY <1>5, <2>1 DEF CloseWith
  <2>3. /\ sent \in [Peers -> Seq(Frames)]
        /\ cut \/ conn[Other(p)] = "closed" => sent[Other(p)] = pipe[Other(p)]
        /\ ~cut /\ conn[Other(p)] # "closed" => Appended(pipe[Other(p)], frames, sent[Other(p)])
    BY ZenonT(40), <2>1, <1>2, SentFacts DEF IInv
  <2>4. pipe' \in [Peers -> Seq(Frames)] /\ pipe'[p] = <<>> /\ pipe'[Other(p)] = sent[Other(p)]
    BY ONLY <2>2, <2>3, <1>2, NoFrame, TwoPeers, SMT
  <2>. QED
    BY ONLY <2>3, <2>4
<1>7. /\ ends' \in [Peers -> Kept] /\ responderCloses' \in [Peers -> Nat]
      /\ ends'[Other(p)] = ends[Other(p)] /\ responderCloses'[Other(p)] = responderCloses[Other(p)]
      /\ EndKept(p)'
  <2>1. ends \in [Peers -> Kept] /\ responderCloses \in [Peers -> Nat] /\ ends[p] \in Kept
    BY <1>2 DEF IInv, Typed, Kept
  <2>2. EndKept(p)
    BY <1>2 DEF IInv
  <2>3. PICK end : end = IF ~installed[p] THEN ends[p]
                         ELSE LET e == IF config.resume THEN Paused(ends[p]) ELSE ends[p]
                              IN IF resumes = 0 THEN Closed(e) ELSE e
    OBVIOUS
  <2>4. PICK count : count = IF installed[p] /\ resumes = 0 THEN responderCloses[p] + 1 ELSE responderCloses[p]
    OBVIOUS
  <2>5. ends' = [ends EXCEPT ![p] = end] /\ responderCloses' = [responderCloses EXCEPT ![p] = count]
    BY ONLY <2>3, <2>4, CloseWith(p, last, why), Zenon DEF CloseWith
  <2>6. end \in Kept /\ count \in Nat
        /\ (~installed[p] => end = NewEnd /\ count = 0)
        /\ (installed[p] => ClosedEnd(end) /\ count = 1)
    <3>1. CASE ~installed[p]
      BY SMTT(40), <3>1, <2>1, <2>2, <2>3, <2>4 DEF EndKept
    <3>2. CASE installed[p] /\ resumes = 0
      <4>1. RunningEnd(ends[p], Sends(p)) /\ responderCloses[p] = 0
        BY <3>2, <1>3, <2>2 DEF EndKept, Watched
      <4>2. end = Closed(ends[p]) \/ end = Closed(Paused(ends[p]))
        BY <3>2, <2>3
      <4>. QED
        <5>1. end \in Kept /\ ClosedEnd(end)
          BY ONLY KeepAliveAssumption, <4>1, <4>2, <2>1, ClosedFacts, Zenon
        <5>2. count = 1
          BY <3>2, <4>1, <2>4
        <5>. QED
          BY ONLY <5>1, <5>2, <3>2
    <3>3. CASE installed[p] /\ resumes # 0
      <4>1. ClosedEnd(ends[p]) /\ responderCloses[p] = 1
        BY <3>3, <2>2 DEF EndKept, Watched
      <4>2. end = ends[p]
        BY <3>3, <4>1, <2>1, <2>3, ClosedFacts
      <4>. QED
        BY <3>3, <4>1, <4>2, <2>1, <2>4
    <3>. QED
      BY <3>1, <3>2, <3>3
  <2>7. /\ ends' \in [Peers -> Kept] /\ responderCloses' \in [Peers -> Nat]
        /\ ends'[p] = end /\ responderCloses'[p] = count
        /\ ends'[Other(p)] = ends[Other(p)] /\ responderCloses'[Other(p)] = responderCloses[Other(p)]
    BY ONLY <2>1, <2>5, <2>6, <1>2, TwoPeers, SMT
  <2>8. ~Watched(p)'
    BY <1>3 DEF Watched
  <2>9. EndKept(p)'
    BY ONLY <2>6, <2>7, <2>8, <1>1, Zenon DEF EndKept
  <2>. QED
    BY ONLY <2>7, <2>9
<1>8. EndKept(Other(p))'
  <2>1. EndKept(Other(p)) /\ Other(p) \in Peers /\ Other(p) # p
    BY <1>2 DEF IInv
  <2>2. conn'[Other(p)] = conn[Other(p)]
    BY <2>1, <1>3
  <2>. QED
    BY ONLY <2>1, <2>2, <1>1, <1>7 DEF EndKept, Watched, Sends
<1>9. EndKept(Client)' /\ EndKept(Server)'
  BY ONLY <1>2, <1>7, <1>8, TwoPeers
<1>10. Typed'
  <2>1. held' \in Seq(Frames) /\ accepting' \in {"none", "awaited", "done"}
    BY NoFrame DEF IInv, Typed
  <2>. QED
    BY <2>1, <1>1, <1>3, <1>6, <1>7 DEF IInv, Typed, Kept
<1>11. installed[Client]
  BY <1>2, <1>3 DEF IInv, Stages
<1>12. Stages'
  <2>1. CASE p = Client
    <3>1. accepting' = accepting /\ held' = held
      BY <2>1
    <3>2. conn'[Client] = "closed" /\ conn'[Server] = conn[Server]
      BY <2>1, <1>3
    <3>. QED
      BY <3>1, <3>2, <1>1, <1>11 DEF IInv, Stages, ResumeUnsupported, LeasesDiffer
  <2>2. CASE p = Server
    <3>1. conn'[Server] = "closed" /\ conn'[Client] = conn[Client] /\ conn[Server] = "open"
      BY <2>2, <1>3
    <3>2. (accepting' = accepting /\ held' = held) \/ (accepting' = "done" /\ held' = <<>>)
      OBVIOUS
    <3>. QED
      BY <3>1, <3>2, <1>1, <1>11 DEF IInv, Stages, ResumeUnsupported, LeasesDiffer
  <2>. QED
    BY <1>2, <2>1, <2>2
<1>13. Counted'
  BY <1>1, <1>2, <1>3, <1>6, NoFrame DEF Counted
<1>14. ~Ended(<<>>) /\ Ended(frames)
  BY <1>4, <1>5, NoFrame DEF Ended
<1>15. CASE p = Client
  <2>1. /\ conn'[Client] = "closed" /\ conn'[Server] = conn[Server] /\ pipe'[Client] = <<>>
        /\ reason'[Client] = why /\ reason'[Server] = reason[Server]
        /\ cut \/ conn[Server] = "closed" => pipe'[Server] = pipe[Server]
        /\ ~cut /\ conn[Server] # "closed" => Appended(pipe[Server], frames, pipe'[Server])
        /\ ends'[Server] = ends[Server] /\ held' = held
    BY <1>15, <1>3, <1>6, <1>7
  <2>2. Wires'
    <3>1. \A f \in Range(pipe'[Server]) : f.type \in {"SETUP", "KEEPALIVE", "REQUEST", "FIN"}
      BY <1>15, <2>1, <1>5 DEF IInv, Wires, Appended, Typed
    <3>2. cut => pipe'[Server] = <<>>
      BY <2>1 DEF IInv, Wires
    <3>3. conn[Server] = "none" /\ ~cut => pipe'[Server] # <<>> /\ Head(pipe'[Server]).type = "SETUP"
      BY <2>1, <1>11 DEF IInv, Wires, Appended
    <3>4. conn[Server] # "closed" /\ ~cut => Ended(pipe'[Server])
      BY <2>1, <1>14, AppendedEnded
    <3>. QED
      BY ONLY <1>1, <1>14, <2>1, <3>1, <3>2, <3>3, <3>4, NoFrame, SMT DEF Wires
  <2>3. Told'
    BY <2>1, <1>15 DEF IInv, Told, Closing
  <2>4. ClientHears'
    BY <2>1 DEF ClientHears
  <2>5. ServerHears'
    <3>1. SUFFICES ASSUME Works, Watched(Server)
          PROVE  \E f \in Range(pipe'[Server]) :
                   f.type # "REQUEST" /\ ends[Server].handler.idle <= Interval + Lag + f.age
      BY <2>1, <1>1 DEF ServerHears, Works, Watched, Reached
    <3>2. Appended(pipe[Server], frames, pipe'[Server])
      BY <3>1, <2>1 DEF Works, Watched
    <3>3. CASE Reached(ends[Server].handler.idle)
      BY <3>2, <3>3 DEF Reached, Appended
    <3>4. CASE SendsSoon(ends[Server].handler.idle)
      <4>1. Watched(Client)
        BY <1>11, <1>15, <1>3, <3>1 DEF Watched
      <4>2. Sending(ends[Client].sender)
        BY <4>1 DEF IInv, EndKept, RunningEnd, Sends
      <4>3. PICK left \in Int : -Lag <= left /\ ends[Server].handler.idle <= Interval - left
        BY <3>4, <4>2 DEF Sending, SendsSoon
      <4>4. ends[Server].handler.idle \in Nat
        BY DEF IInv, Typed, Handlers
      <4>5. ends[Server].handler.idle <= Interval + Lag + fin.age
        BY ONLY <1>0, <1>4, <4>3, <4>4
      <4>. QED
        BY <1>4, <1>5, <3>2, <4>5 DEF Appended
    <3>. QED
      BY <3>1, <3>3, <3>4 DEF IInv, ServerHears
  <2>6. Excused'
    BY <2>1, <1>1, <1>15 DEF IInv, Excused, Closing
  <2>. QED
    BY ONLY <1>9, <1>10, <1>12, <1>13, <2>2, <2>3, <2>4, <2>5, <2>6 DEF IInv
<1>16. CASE p = Server
  <2>1. /\ conn'[Server] = "closed" /\ conn'[Client] = conn[Client] /\ pipe'[Server] = <<>>
        /\ conn[Server] = "open" /\ reason'[Server] = why /\ reason'[Client] = reason[Client]
        /\ cut \/ conn[Client] = "closed" => pipe'[Client] = pipe[Client]
        /\ ~cut /\ conn[Client] # "closed" => Appended(pipe[Client], frames, pipe'[Client])
        /\ ends'[Client] = ends[Client]
    BY <1>16, <1>3, <1>6, <1>7
  <2>2. Wires'
    <3>1. \A f \in Range(pipe'[Client]) : f.type \in {"KEEPALIVE", "REJECTED_SETUP", "FIN"}
      BY <1>16, <2>1, <1>5 DEF IInv, Wires, Appended, Typed
    <3>2. cut => pipe'[Client] = <<>>
      BY <2>1 DEF IInv, Wires
    <3>3. conn[Client] = "open" /\ ~cut => Ended(pipe'[Client])
      BY <2>1, <1>14, AppendedEnded
    <3>. QED
      BY ONLY <1>1, <1>14, <2>1, <3>1, <3>2, <3>3, NoFrame, SMT DEF Wires
  <2>3. Told'
    <3>1. ASSUME why = "REJECTED_SETUP", conn[Client] = "open"
          PROVE  pipe'[Client] = <<>> \/ Head(pipe'[Client]).type = "REJECTED_SETUP"
      <4>1. pipe[Client] = <<>>
        BY <1>16, <2>1, <3>1 DEF IInv, Wires, Closing
      <4>. QED
        BY <1>5, <1>16, <2>1, <3>1, <4>1 DEF Appended
    <3>. QED
      BY <2>1, <3>1 DEF IInv, Told
  <2>4. ClientHears'
    <3>1. SUFFICES ASSUME Works, conn[Client] = "open"
          PROVE  \E f \in Range(pipe'[Client]) :
                   ends[Client].handler.idle <= Interval + Lag + Delay + f.age
      BY <2>1, <1>1 DEF ClientHears, Works, Answered
    <3>2. Appended(pipe[Client], frames, pipe'[Client])
      BY <3>1, <2>1 DEF Works
    <3>3. CASE Answered(ends[Client].handler.idle)
      BY <3>2, <3>3 DEF Answered, Appended
    <3>4. ends[Client].handler.idle \in Nat
      BY DEF IInv, Typed, Handlers
    <3>5. ASSUME ends[Client].handler.idle <= Interval + Lag + Delay + 0
          PROVE  \E f \in Range(pipe'[Client]) :
                   ends[Client].handler.idle <= Interval + Lag + Delay + f.age
      BY <1>4, <1>5, <3>2, <3>5 DEF Appended
    <3>6. CASE Asks(pipe[Server], ends[Client].handler.idle) \/ Asks(held, ends[Client].handler.idle)
      <4>1. PICK f \in Frames : ends[Client].handler.idle <= Interval + Lag + f.age
        <5>1. pipe[Server] \in Seq(Frames) /\ held \in Seq(Frames)
          BY DEF IInv, Typed
        <5>2. Range(pipe[Server]) \subseteq Frames /\ Range(held) \subseteq Frames
          BY SMTT(40), <5>1, LenProperties DEF Range
        <5>. QED
          BY <3>6, <5>2 DEF Asks
      <4>2. f.age \in 0 .. Delay
        BY DEF Frames
      <4>3. ends[Client].handler.idle <= Interval + Lag + Delay + 0
        BY ONLY <1>0, <3>4, <4>1, <4>2
      <4>. QED
        BY <3>5, <4>3
    <3>7. CASE SendsSoon(ends[Client].handler.idle)
      <4>1. Watched(Client)
        BY <1>11, <3>1 DEF Watched, Works
      <4>2. Sending(ends[Client].sender)
        BY <4>1 DEF IInv, EndKept, RunningEnd, Sends
      <4>3. PICK left \in Int : -Lag <= left /\ ends[Client].handler.idle <= Interval - left
        BY <3>7, <4>2 DEF Sending, SendsSoon
      <4>4. ends[Client].handler.idle <= Interval + Lag + Delay + 0
        BY ONLY <1>0, <3>4, <4>3
      <4>. QED
        BY <3>5, <4>4
    <3>. QED
      BY <3>1, <3>3, <3>6, <3>7 DEF IInv, ClientHears
  <2>5. ServerHears'
    BY <2>1 DEF ServerHears, Watched
  <2>6. Excused'
    BY <2>1, <1>1, <1>16 DEF IInv, Excused, Closing
  <2>. QED
    BY ONLY <1>9, <1>10, <1>12, <1>13, <2>2, <2>3, <2>4, <2>5, <2>6 DEF IInv
<1>. QED
  BY <1>2, <1>15, <1>16

\* The application closes an end, or its socket fails.
LEMMA CloseByItself ==
  ASSUME KeepAliveAssumption, IInv, NEW p \in Peers, NEW why \in {"application", "socket"}, Close(p, why)
  PROVE  IInv'
<1>1. Closing(p, <<>>, why)
  BY DEF Close, Closing, Reasons
<1>. QED
  BY <1>1, CloseInvariant DEF Close

\* The acceptor throws, whether the connection has closed meanwhile or not.
LEMMA AcceptorThrowsInvariant ==
  ASSUME KeepAliveAssumption, IInv, AcceptorThrows
  PROVE  IInv'
<1>1. /\ UNCHANGED <<config, installed, cut, stalled, requests, resumes>>
      /\ accepting = "awaited" /\ accepting' = "done" /\ held' = <<>>
  BY DEF AcceptorThrows
<1>2. ~installed[Server] /\ conn[Server] \in {"open", "closed"}
  <2>1. conn[Server] \in {"none", "open", "closed", "failed"}
    BY TwoPeers DEF IInv, Typed
  <2>. QED
    BY <1>1, <2>1 DEF IInv, Stages
<1>3. CASE conn[Server] = "open"
  <2>1. CloseWith(Server, <<Frame("REJECTED_SETUP")>>, "REJECTED_SETUP")
    BY <1>3 DEF AcceptorThrows
  <2>2. Closing(Server, <<Frame("REJECTED_SETUP")>>, "REJECTED_SETUP")
    BY <1>2, <1>3, TwoPeers DEF Closing, Reasons
  <2>. QED
    BY <1>1, <2>1, <2>2, CloseInvariant
<1>4. CASE conn[Server] = "closed"
  <2>1. UNCHANGED <<conn, reason, pipe, ends, responderCloses>>
    BY <1>4 DEF AcceptorThrows
  <2>2. Typed'
    BY <1>1, <2>1, NoFrame DEF IInv, Typed
  <2>3. Stages' /\ Told' /\ Counted' /\ Wires'
    BY <1>1, <1>4, <2>1 DEF IInv, Stages, Told, Counted, Wires, ResumeUnsupported, LeasesDiffer, Ended
  <2>4. EndKept(Client)' /\ EndKept(Server)'
    BY <1>1, <2>1 DEF IInv, EndKept, Watched, Sends
  <2>5. ClientHears' /\ ServerHears' /\ Excused'
    BY <1>1, <1>4, <2>1 DEF IInv, ClientHears, ServerHears, Excused, Works, Watched, Answered, Reached, SendsSoon
  <2>. QED
    BY <2>2, <2>3, <2>4, <2>5 DEF IInv
<1>. QED
  BY <1>2, <1>3, <1>4

\* The frames of a pipe are frames, and none is older than it may be.
LEMMA PipeFrames ==
  ASSUME NEW s \in Seq(Frames), NEW f \in Range(s)
  PROVE  f \in Frames /\ f.age \in 0 .. Delay
<1>1. s \in [1 .. Len(s) -> Frames]
  BY LenProperties
<1>2. f \in Frames
  BY <1>1 DEF Range
<1>. QED
  BY <1>2 DEF Frames

\* The sender of the client runs as long as its first connection is open.
LEMMA ClientSends ==
  ASSUME IInv, conn[Client] = "open", resumes = 0
  PROVE  /\ Watched(Client)
         /\ \E left \in Int : ends[Client].sender.timer = {left} /\ -Lag <= left /\ left <= Interval
<1>1. Watched(Client)
  BY DEF IInv, Stages, Watched
<1>2. Sending(ends[Client].sender)
  BY <1>1 DEF IInv, EndKept, RunningEnd, Sends
<1>. QED
  BY <1>1, <1>2 DEF Sending

\* While the link works no end waits a lifetime.
LEMMA HeardInTime ==
  ASSUME KeepAliveAssumption, IInv, NEW p \in Peers, Works, Watched(p)
  PROVE  ends[p].handler.idle < Lifetime
<1>1. /\ Interval \in Nat /\ Lag \in Nat /\ Delay \in Nat /\ Lifetime \in Nat
      /\ Lifetime > Interval + Lag + Delay + Delay
  BY Parameters
<1>2. PICK idle \in Nat : idle = ends[p].handler.idle
  BY DEF IInv, Typed, Handlers
<1>3. pipe[Client] \in Seq(Frames) /\ pipe[Server] \in Seq(Frames) /\ held \in Seq(Frames)
  BY TwoPeers DEF IInv, Typed
<1>4. ASSUME NEW age \in 0 .. Delay, idle <= Interval + Lag + Delay + age \/ idle <= Interval + Lag + age
      PROVE  idle < Lifetime
  BY ONLY <1>1, <1>4, idle \in Nat
<1>5. ASSUME conn[Client] = "open", SendsSoon(idle)
      PROVE  idle < Lifetime
  <2>1. PICK left \in Int : ends[Client].sender.timer = {left} /\ -Lag <= left
    BY <1>5, ClientSends DEF Works
  <2>2. idle <= Interval - left
    BY <2>1, <1>5 DEF SendsSoon
  <2>. QED
    BY ONLY <1>1, <2>1, <2>2, idle \in Nat
<1>6. ASSUME NEW s \in Seq(Frames), Asks(s, idle)
      PROVE  idle < Lifetime
  BY <1>4, <1>6, PipeFrames DEF Asks
<1>7. CASE p = Client
  <2>1. conn[Client] = "open"
    BY <1>7 DEF Watched
  <2>2. ASSUME Answered(idle)
        PROVE  idle < Lifetime
    BY <1>3, <1>4, <2>2, PipeFrames DEF Answered
  <2>3. Answered(idle) \/ Asks(pipe[Server], idle) \/ Asks(held, idle) \/ SendsSoon(idle)
    BY <1>2, <1>7, <2>1 DEF IInv, ClientHears
  <2>. QED
    BY <1>2, <1>3, <1>5, <1>6, <2>1, <2>2, <2>3
<1>8. CASE p = Server
  <2>1. ASSUME Reached(idle)
        PROVE  idle < Lifetime
    BY <1>3, <1>4, <2>1, PipeFrames DEF Reached
  <2>2. Reached(idle) \/ (conn[Client] = "open" /\ SendsSoon(idle))
    BY <1>2, <1>8 DEF IInv, ServerHears
  <2>. QED
    BY <1>2, <1>5, <2>1, <2>2
<1>. QED
  BY <1>7, <1>8, TwoPeers

\* Only what is watched has timers.
LEMMA TimersWatched ==
  ASSUME IInv, NEW p \in Peers, ~Unarmed(ends[p])
  PROVE  Watched(p) /\ RunningEnd(ends[p], Sends(p)) /\ ends[p] \in Kept
<1>1. EndKept(p) /\ ends[p] \in Kept
  BY TwoPeers DEF IInv, Typed, Kept
<1>2. Unarmed(NewEnd)
  BY DEF Unarmed, NewEnd, NewHandler, NewSender
<1>3. ClosedEnd(ends[p]) => Unarmed(ends[p])
  BY DEF ClosedEnd, Unarmed, closeSender
<1>. QED
  BY <1>1, <1>2, <1>3 DEF EndKept

\* One part of one end changes.
LEMMA OneEnd ==
  ASSUME NEW all \in [Peers -> Kept], NEW p \in Peers, NEW x
  PROVE  /\ [all[p] EXCEPT !.handler = x] \in Kept =>
              /\ [all EXCEPT ![p].handler = x] \in [Peers -> Kept]
              /\ [all EXCEPT ![p].handler = x][p] = [all[p] EXCEPT !.handler = x]
              /\ [all EXCEPT ![p].handler = x][Other(p)] = all[Other(p)]
         /\ [all[p] EXCEPT !.sender = x] \in Kept =>
              /\ [all EXCEPT ![p].sender = x] \in [Peers -> Kept]
              /\ [all EXCEPT ![p].sender = x][p] = [all[p] EXCEPT !.sender = x]
              /\ [all EXCEPT ![p].sender = x][Other(p)] = all[Other(p)]
<1>1. Other(p) \in Peers /\ Other(p) # p
  BY TwoPeers DEF Peers
<1>2. ASSUME NEW new \in Kept
      PROVE  /\ [all EXCEPT ![p] = new] \in [Peers -> Kept]
             /\ [all EXCEPT ![p] = new][p] = new /\ [all EXCEPT ![p] = new][Other(p)] = all[Other(p)]
  BY ONLY <1>1, all \in [Peers -> Kept], p \in Peers, new \in Kept
<1>3. [all EXCEPT ![p].handler = x] = [all EXCEPT ![p] = [all[p] EXCEPT !.handler = x]]
  OBVIOUS
<1>4. [all EXCEPT ![p].sender = x] = [all EXCEPT ![p] = [all[p] EXCEPT !.sender = x]]
  OBVIOUS
<1>. QED
  BY ONLY <1>2, <1>3, <1>4, Zenon

\* A handler that timed out has an excuse; another one is armed again.
LEMMA TimeoutCheckInvariant ==
  ASSUME KeepAliveAssumption, IInv, NEW p \in Peers, TimeoutCheck(p)
  PROVE  IInv'
<1>1. /\ UNCHANGED <<config, accepting, installed, held, cut, stalled, requests, resumes>>
      /\ Due(ends[p].handler.timer)
  BY DEF TimeoutCheck
<1>2. Watched(p) /\ RunningEnd(ends[p], Sends(p)) /\ ends[p] \in Kept
  BY <1>1, TimersWatched DEF Unarmed, Due
<1>3. CASE TimedOut(ends[p].handler)
  <2>1. CloseWith(p, <<>>, "keepalive")
    BY <1>3 DEF TimeoutCheck
  <2>2. cut \/ stalled
    <3>1. ends[p].handler.idle \in Nat /\ Lifetime \in Nat
      BY <1>2, Parameters DEF Kept, Handlers
    <3>2. ~(ends[p].handler.idle < Lifetime)
      BY <1>3, <3>1 DEF TimedOut
    <3>. QED
      BY <1>2, <3>2, HeardInTime DEF Works, Watched
  <2>3. Closing(p, <<>>, "keepalive")
    BY <1>2, <2>2 DEF Closing, Watched, Reasons
  <2>. QED
    BY <1>1, <2>1, <2>3, CloseInvariant
<1>4. CASE ~TimedOut(ends[p].handler)
  <2>1. UNCHANGED <<conn, reason, pipe, responderCloses>>
    BY <1>4 DEF TimeoutCheck
  <2>2. PICK handler : handler = rearm(ends[p].handler)
    OBVIOUS
  <2>3. ends' = [ends EXCEPT ![p].handler = handler]
    BY <1>4, <2>2 DEF TimeoutCheck
  <2>4. PICK end \in Kept : /\ end = [ends[p] EXCEPT !.handler = handler] /\ RunningEnd(end, Sends(p))
                            /\ end.handler.idle = ends[p].handler.idle /\ end.sender = ends[p].sender
    BY <1>2, <1>4, <2>2, RunsOn
  <2>5. /\ ends' \in [Peers -> Kept] /\ ends'[p] = end /\ ends'[Other(p)] = ends[Other(p)]
    <3>1. ends \in [Peers -> Kept]
      BY DEF IInv, Typed, Kept
    <3>. QED
      BY ONLY ZenonT(40), <2>3, <2>4, <3>1, p \in Peers, OneEnd
  <2>6. \A q \in Peers : ends'[q].handler.idle = ends[q].handler.idle /\ ends'[q].sender = ends[q].sender
    BY ZenonT(40), <2>4, <2>5, TwoPeers
  <2>7. Typed'
    BY <1>1, <2>1, <2>5 DEF IInv, Typed, Kept
  <2>8. Stages' /\ Told' /\ Counted' /\ Wires'
    BY <1>1, <2>1 DEF IInv, Stages, Told, Counted, Wires, ResumeUnsupported, LeasesDiffer, Ended
  <2>9. EndKept(p)'
    <3>1. EndKept(p) /\ installed[p]
      BY <1>2, TwoPeers DEF IInv, Watched
    <3>2. responderCloses'[p] = 0 /\ Watched(p)' /\ Sends(p)' = Sends(p) /\ installed'[p]
      BY <1>1, <1>2, <2>1, <3>1 DEF EndKept, Watched, Sends
    <3>. QED
      BY ONLY <2>4, <2>5, <3>2, Zenon DEF EndKept
  <2>10. EndKept(Other(p))'
    BY <1>1, <2>1, <2>5, TwoPeers DEF IInv, EndKept, Watched, Sends
  <2>11. ClientHears' /\ ServerHears' /\ Excused'
    BY <1>1, <2>1, <2>6, TwoPeers
       DEF IInv, ClientHears, ServerHears, Excused, Works, Watched, Answered, Reached, Asks, SendsSoon
  <2>. QED
    BY <2>7, <2>8, <2>9, <2>10, <2>11, TwoPeers DEF IInv
<1>. QED
  BY <1>3, <1>4

\* The link loses everything: nothing has to arrive from then on.
LEMMA CutInvariant ==
  ASSUME IInv, Cut
  PROVE  IInv'
<1>1. UNCHANGED <<config, conn, reason, accepting, installed, responderCloses, ends,
                  held, stalled, requests, resumes>> /\ cut' = TRUE
  BY DEF Cut
<1>2. pipe'[Client] = <<>> /\ pipe'[Server] = <<>> /\ pipe' \in [Peers -> Seq(Frames)]
  BY TwoPeers, NoFrame DEF Cut
<1>3. installed[Client]
  <2>1. conn[Client] = "open" \/ conn[Server] = "open"
    BY TwoPeers DEF Cut
  <2>. QED
    BY <2>1 DEF IInv, Stages
<1>4. Typed'
  BY <1>1, <1>2 DEF IInv, Typed
<1>5. Stages' /\ Told' /\ Counted'
  BY <1>1, <1>2, <1>3 DEF IInv, Stages, Told, Counted, ResumeUnsupported, LeasesDiffer
<1>6. Wires'
  BY <1>1, <1>2, NoFrame DEF IInv, Wires, Ended
<1>7. EndKept(Client)' /\ EndKept(Server)'
  BY <1>1 DEF IInv, EndKept, Watched, Sends
<1>8. ClientHears' /\ ServerHears' /\ Excused'
  BY <1>1 DEF IInv, ClientHears, ServerHears, Excused, Works
<1>. QED
  BY <1>4, <1>5, <1>6, <1>7, <1>8 DEF IInv

\* A session is resumed: what its first connection closed stays closed.
LEMMA ResumeInvariant ==
  ASSUME KeepAliveAssumption, IInv, Resume
  PROVE  IInv'
<1>1. UNCHANGED <<config, accepting, installed, responderCloses, held, requests>>
      /\ resumes' = resumes + 1 /\ cut' = FALSE /\ stalled' = FALSE
  BY DEF Resume
<1>2. \A p \in Peers : /\ conn[p] = "closed" /\ installed[p] /\ conn'[p] = "open" /\ reason'[p] = "none"
                       /\ pipe'[p] = <<>>
  BY DEF Resume
<1>3. resumes \in Nat /\ resumes' \in Nat /\ resumes' > 0
  BY <1>1 DEF IInv, Typed
<1>4. \A p \in Peers : ClosedEnd(ends[p]) /\ responderCloses[p] = 1 /\ ends[p] \in Kept
  <2>1. \A p \in Peers : EndKept(p) /\ ends[p] \in Kept
    BY TwoPeers DEF IInv, Typed, Kept
  <2>. QED
    BY <1>2, <2>1 DEF EndKept, Watched
<1>5. ends' = ends
  <2>1. \A p \in Peers : Started(ends[p], p = Client \/ config.serverSideKeepAlive) = ends[p]
    BY <1>4, ClosedFacts
  <2>2. ends \in [Peers -> Kept]
    BY DEF IInv, Typed, Kept
  <2>. QED
    BY <2>1, <2>2 DEF Resume
<1>6. Typed'
  <2>1. /\ conn' \in [Peers -> {"none", "open", "closed", "failed"}] /\ reason' \in [Peers -> Reasons]
        /\ pipe' \in [Peers -> Seq(Frames)]
    BY NoFrame DEF Resume, Reasons
  <2>. QED
    BY <1>1, <1>3, <1>5, <2>1 DEF IInv, Typed
<1>7. accepting = "done"
  BY <1>2, TwoPeers DEF IInv, Stages
<1>8. Stages' /\ Told' /\ Counted'
  BY <1>1, <1>2, <1>3, <1>7, TwoPeers DEF IInv, Stages, Told, Counted, ResumeUnsupported, LeasesDiffer
<1>9. Wires'
  BY <1>1, <1>2, TwoPeers, NoFrame DEF Wires, Ended
<1>10. EndKept(Client)' /\ EndKept(Server)'
  BY <1>1, <1>2, <1>3, <1>4, <1>5, TwoPeers DEF EndKept, Watched
<1>11. ClientHears' /\ ServerHears' /\ Excused'
  BY <1>2, <1>3 DEF ClientHears, ServerHears, Excused, Works
<1>. QED
  BY <1>6, <1>8, <1>9, <1>10, <1>11 DEF IInv

\* A sender sends, and starts its next interval.
LEMMA SendKeepAliveInvariant ==
  ASSUME KeepAliveAssumption, IInv, NEW p \in Peers, SendKeepAlive(p)
  PROVE  IInv'
<1>0. Interval \in Nat /\ Lag \in Nat /\ Delay \in Nat
  BY Parameters
<1>1. /\ UNCHANGED <<config, conn, reason, accepting, installed, responderCloses, held,
                     cut, stalled, requests, resumes>>
      /\ Due(ends[p].sender.timer)
  BY DEF SendKeepAlive
<1>2. Watched(p) /\ RunningEnd(ends[p], Sends(p)) /\ ends[p] \in Kept /\ EndKept(p)
  BY <1>1, TimersWatched, TwoPeers DEF Unarmed, Due, IInv
<1>3. conn[p] = "open" /\ installed[p] /\ resumes = 0 /\ responderCloses[p] = 0
  BY <1>2 DEF Watched, EndKept
<1>4. PICK sender : sender = nextInterval(ends[p].sender)
  OBVIOUS
<1>5. PICK end \in Kept : /\ end = [ends[p] EXCEPT !.sender = sender] /\ RunningEnd(end, Sends(p))
                          /\ end.handler = ends[p].handler
  BY ZenonT(40), <1>1, <1>2, <1>4, RunsOn
<1>6. /\ ends' \in [Peers -> Kept] /\ ends'[p] = end /\ ends'[Other(p)] = ends[Other(p)]
  <2>1. ends \in [Peers -> Kept]
    BY DEF IInv, Typed, Kept
  <2>2. ends' = [ends EXCEPT ![p].sender = sender]
    BY <1>4 DEF SendKeepAlive
  <2>. QED
    BY ONLY ZenonT(40), <1>5, <2>1, <2>2, p \in Peers, OneEnd
<1>7. PICK frame \in Frames : /\ frame = KeepAliveFrame(TRUE) /\ frame.type = "KEEPALIVE" /\ frame.respond
                              /\ frame.age = 0
  BY FrameFacts
<1>8. /\ <<frame>> \in Seq(Frames) /\ Range(<<frame>>) = {frame} /\ RequestsIn(<<frame>>) = 0
  BY <1>7, OneFrame
<1>9. /\ pipe' \in [Peers -> Seq(Frames)] /\ pipe'[p] = pipe[p]
      /\ cut \/ conn[Other(p)] = "closed" => pipe'[Other(p)] = pipe[Other(p)]
      /\ ~cut /\ conn[Other(p)] # "closed" => Appended(pipe[Other(p)], <<frame>>, pipe'[Other(p)])
  <2>1. pipe' = Sent(p, <<frame>>)
    BY <1>3, <1>7 DEF SendKeepAlive
  <2>. QED
    BY <2>1, <1>8, SentFacts DEF IInv
<1>10. Typed'
  BY <1>1, <1>6, <1>9 DEF IInv, Typed, Kept
<1>11. EndKept(p)'
  <2>1. responderCloses'[p] = 0 /\ Watched(p)' /\ Sends(p)' = Sends(p) /\ installed'[p]
    BY <1>1, <1>2, <1>3 DEF Watched, Sends
  <2>. QED
    BY ONLY <1>5, <1>6, <2>1, Zenon DEF EndKept
<1>12. EndKept(Other(p))'
  BY <1>1, <1>6, TwoPeers DEF IInv, EndKept, Watched, Sends
<1>13. EndKept(Client)' /\ EndKept(Server)'
  BY <1>11, <1>12, TwoPeers
<1>14. Range(pipe[Other(p)]) \subseteq Range(pipe'[Other(p)])
  BY <1>9 DEF Appended
<1>15. ~Ended(<<frame>>)
  BY <1>7, <1>8 DEF Ended
<1>16. Ended(pipe'[Other(p)]) <=> Ended(pipe[Other(p)])
  BY <1>9, <1>15, AppendedEnded
<1>17. Excused'
  BY <1>1 DEF IInv, Excused
<1>18. CASE p = Client
  <2>1. /\ pipe'[Client] = pipe[Client] /\ installed[Client] /\ conn[Client] = "open"
        /\ cut \/ conn[Server] = "closed" => pipe'[Server] = pipe[Server]
        /\ ~cut /\ conn[Server] # "closed" => Appended(pipe[Server], <<frame>>, pipe'[Server])
        /\ Range(pipe[Server]) \subseteq Range(pipe'[Server])
        /\ Ended(pipe'[Server]) <=> Ended(pipe[Server])
        /\ ends'[Client].handler = ends[Client].handler /\ ends'[Server] = ends[Server]
    BY <1>3, <1>5, <1>6, <1>9, <1>14, <1>16, <1>18, TwoPeers
  <2>2. Stages' /\ Told'
    BY <1>1, <2>1 DEF IInv, Stages, Told, ResumeUnsupported, LeasesDiffer
  <2>3. Wires'
    <3>1. \A f \in Range(pipe'[Server]) : f.type \in {"SETUP", "KEEPALIVE", "REQUEST", "FIN"}
      BY <1>7, <1>8, <2>1 DEF IInv, Wires, Appended
    <3>2. cut => pipe'[Server] = <<>>
      BY <2>1 DEF IInv, Wires
    <3>3. conn[Server] = "none" /\ ~cut => pipe'[Server] # <<>> /\ Head(pipe'[Server]).type = "SETUP"
      BY <2>1 DEF IInv, Wires, Appended
    <3>4. Ended(pipe'[Client]) <=> Ended(pipe[Client])
      BY <2>1
    <3>. QED
      BY <1>1, <2>1, <3>1, <3>2, <3>3, <3>4 DEF IInv, Wires
  <2>4. Counted'
    <3>1. SUFFICES ASSUME conn[Server] # "closed", ~cut
          PROVE  requests.sent = requests.dispatched + RequestsIn(pipe'[Server]) + RequestsIn(held)
      BY <1>1 DEF Counted
    <3>2. requests.sent = requests.dispatched + RequestsIn(pipe[Server]) + RequestsIn(held)
      BY <1>3, <2>1, <3>1 DEF IInv, Counted
    <3>3. RequestsIn(pipe'[Server]) = RequestsIn(pipe[Server]) + 0
      BY <1>8, <2>1, <3>1 DEF Appended
    <3>4. RequestsIn(pipe[Server]) \in Nat
      BY TwoPeers, RequestsWeigh DEF IInv, Typed
    <3>. QED
      BY ONLY <3>2, <3>3, <3>4
  <2>5. PICK left \in Int : ends[Client].sender.timer = {left} /\ -Lag <= left
    BY <1>3, <2>1, ClientSends
  <2>6. ASSUME NEW idle \in Nat, SendsSoon(idle)
        PROVE  idle <= Interval + Lag + frame.age
    <3>1. idle <= Interval - left
      BY <2>5, <2>6 DEF SendsSoon
    <3>. QED
      <4>1. -Lag <= left
        BY <2>5
      <4>2. idle <= Interval + Lag + 0
        BY ONLY <1>0, <3>1, <4>1, idle \in Nat, left \in Int
      <4>. QED
        BY ONLY <1>7, <4>2, Zenon
  <2>7. ClientHears'
    <3>1. PICK idle \in Nat : idle = ends[Client].handler.idle /\ idle = ends'[Client].handler.idle
      BY <2>1, TwoPeers DEF IInv, Typed, Handlers
    <3>2. SUFFICES ASSUME Works
          PROVE  \/ Answered(idle)'
                 \/ conn[Server] # "closed" /\ (Asks(pipe'[Server], idle) \/ Asks(held, idle))
      BY <1>1, <3>1 DEF ClientHears, Works
    <3>3. CASE Answered(idle)
      BY <2>1, <3>3 DEF Answered
    <3>4. CASE conn[Server] # "closed" /\ (Asks(pipe[Server], idle) \/ Asks(held, idle))
      BY <2>1, <3>4 DEF Asks
    <3>5. CASE conn[Server] # "closed" /\ SendsSoon(idle)
      <4>1. frame \in Range(pipe'[Server])
        BY <1>8, <2>1, <3>2, <3>5 DEF Appended, Works
      <4>. QED
        BY <1>7, <2>6, <3>5, <4>1 DEF Asks
    <3>. QED
      BY <2>1, <3>1, <3>2, <3>3, <3>4, <3>5 DEF IInv, ClientHears
  <2>8. ServerHears'
    <3>1. PICK idle \in Nat : idle = ends[Server].handler.idle
      BY TwoPeers DEF IInv, Typed, Handlers
    <3>2. SUFFICES ASSUME Works, Watched(Server)
          PROVE  Reached(idle)'
      BY <1>1, <2>1, <3>1 DEF ServerHears, Works, Watched
    <3>3. CASE Reached(idle)
      BY <2>1, <3>3 DEF Reached
    <3>4. CASE SendsSoon(idle)
      <4>1. frame \in Range(pipe'[Server])
        BY <1>8, <2>1, <3>2 DEF Appended, Works, Watched
      <4>. QED
        BY <1>7, <2>6, <3>4, <4>1 DEF Reached
    <3>. QED
      BY <3>1, <3>2, <3>3, <3>4 DEF IInv, ServerHears
  <2>. QED
    BY ONLY <1>10, <1>13, <1>17, <2>2, <2>3, <2>4, <2>7, <2>8 DEF IInv
<1>19. CASE p = Server
  <2>1. /\ pipe'[Server] = pipe[Server] /\ installed[Server] /\ conn[Server] = "open"
        /\ cut \/ conn[Client] = "closed" => pipe'[Client] = pipe[Client]
        /\ ~cut /\ conn[Client] # "closed" => Appended(pipe[Client], <<frame>>, pipe'[Client])
        /\ Range(pipe[Client]) \subseteq Range(pipe'[Client])
        /\ Ended(pipe'[Client]) <=> Ended(pipe[Client])
        /\ ends'[Server].handler = ends[Server].handler /\ ends'[Client] = ends[Client]
    BY <1>3, <1>5, <1>6, <1>9, <1>14, <1>16, <1>19, TwoPeers
  <2>2. Stages' /\ Told' /\ Counted'
    BY <1>1, <2>1 DEF IInv, Stages, Told, Counted, ResumeUnsupported, LeasesDiffer
  <2>3. Wires'
    <3>1. \A f \in Range(pipe'[Client]) : f.type \in {"KEEPALIVE", "REJECTED_SETUP", "FIN"}
      BY <1>7, <1>8, <2>1 DEF IInv, Wires, Appended
    <3>2. cut => pipe'[Client] = <<>>
      BY <2>1 DEF IInv, Wires
    <3>4. Ended(pipe'[Server]) <=> Ended(pipe[Server])
      BY <2>1
    <3>. QED
      BY <1>1, <2>1, <3>1, <3>2, <3>4 DEF IInv, Wires
  <2>7. ClientHears'
    BY <1>1, <2>1 DEF IInv, ClientHears, Works, Answered, Asks, SendsSoon
  <2>8. ServerHears'
    BY <1>1, <2>1 DEF IInv, ServerHears, Works, Watched, Reached, SendsSoon
  <2>. QED
    BY ONLY <1>10, <1>13, <1>17, <2>2, <2>3, <2>7, <2>8 DEF IInv
<1>. QED
  BY <1>18, <1>19, TwoPeers

\* A keepalive frame that comes in after all does not start anything again.
LEMMA HandledClosed ==
  ASSUME KeepAliveAssumption, NEW end \in Kept, ClosedEnd(end)
  PROVE  /\ [end EXCEPT !.handler = handle(@)] \in Kept
         /\ ClosedEnd([end EXCEPT !.handler = handle(@)])
         /\ [end EXCEPT !.handler = handle(@)].handler.idle = 0
         /\ [end EXCEPT !.handler = handle(@)].sender = end.sender
<1>1. PICK h \in Handlers : h = end.handler
  BY DEF Kept
<1>2. PICK s \in Senders : s = end.sender
  BY DEF Kept
<1>3. PICK g : g = handle(h)
  OBVIOUS
<1>4. g = [state |-> h.state, idle |-> 0, timer |-> h.timer]
  BY ONLY <1>3, h \in Handlers, HandlerShape, Zenon
<1>5. g \in Handlers /\ g.state = h.state /\ g.idle = 0 /\ g.timer = h.timer
  BY ONLY <1>4, h \in Handlers DEF Handlers
<1>6. PICK new : new = [end EXCEPT !.handler = g]
  OBVIOUS
<1>7. new = [handler |-> g, sender |-> s]
  BY ONLY <1>2, <1>6, end \in Kept, EndShape, Zenon
<1>8. new.handler = g /\ new.sender = s /\ new \in Kept
  BY ONLY <1>5, <1>7, s \in Senders DEF Kept
<1>9. [end EXCEPT !.handler = handle(@)] = new
  BY ONLY <1>1, <1>3, <1>6, Zenon
<1>10. 0 <= LongestIdle
  BY Parameters
<1>. QED
  BY ONLY <1>1, <1>2, <1>5, <1>8, <1>9, <1>10, ClosedEnd(end), Zenon DEF ClosedEnd

\* A keepalive frame is handled, and answered if it asks for that.
LEMMA HandleKeepAliveInvariant ==
  ASSUME KeepAliveAssumption, IInv, NEW p \in Peers, Handle(p), Head(pipe[p]).type = "KEEPALIVE"
  PROVE  IInv'
<1>0. Interval \in Nat /\ Lag \in Nat /\ Delay \in Nat
  BY Parameters
<1>1. /\ UNCHANGED <<config, conn, reason, accepting, installed, responderCloses, held, cut, stalled,
                     requests, resumes>>
      /\ conn[p] = "open" /\ installed[p] /\ pipe[p] # <<>>
  BY DEF Handle, Listens
<1>2. Other(p) \in Peers /\ Other(p) # p /\ pipe \in [Peers -> Seq(Frames)]
      /\ pipe[p] \in Seq(Frames) /\ pipe[Other(p)] \in Seq(Frames) /\ ends \in [Peers -> Kept] /\ ends[p] \in Kept
  BY TwoPeers DEF Peers, IInv, Typed, Kept
<1>3. ~cut
  BY <1>1, TwoPeers DEF IInv, Wires, Typed
<1>4. PICK frame \in Frames : frame = Head(pipe[p]) /\ frame.type = "KEEPALIVE"
  BY <1>1, <1>2, TakenFacts
<1>5. PICK answers \in Seq(Frames) :
        /\ answers = Answers(<<frame>>) /\ RequestsIn(answers) = 0
        /\ \A f \in Range(answers) : f.type = "KEEPALIVE"
        /\ frame.respond => \E f \in Range(answers) : f.age = 0
  BY <1>4, AnswerFacts, FrameFacts
<1>6. /\ pipe' \in [Peers -> Seq(Frames)] /\ pipe'[p] = Tail(pipe[p])
      /\ Appended(pipe[Other(p)], answers, pipe'[Other(p)])
  <2>1. pipe' = [[pipe EXCEPT ![p] = Tail(@)] EXCEPT ![Other(p)] = @ \o answers]
    BY <1>3, <1>4, <1>5 DEF Handle
  <2>2. PICK rest \in Seq(Frames) : rest = Tail(pipe[p])
    BY <1>1, <1>2, TakenFacts
  <2>3. PICK more : more = pipe[Other(p)] \o answers
    OBVIOUS
  <2>4. Appended(pipe[Other(p)], answers, more) /\ more \in Seq(Frames)
    BY <1>2, <2>3, AppendedFacts DEF Appended
  <2>5. pipe' = [[pipe EXCEPT ![p] = rest] EXCEPT ![Other(p)] = more]
    BY ONLY <1>2, <2>1, <2>2, <2>3
  <2>6. pipe' \in [Peers -> Seq(Frames)] /\ pipe'[p] = rest /\ pipe'[Other(p)] = more
    BY ONLY <1>2, <2>4, <2>5, p \in Peers, rest \in Seq(Frames)
  <2>. QED
    BY ONLY <2>2, <2>4, <2>6
<1>7. /\ Range(pipe[p]) = {frame} \cup Range(pipe'[p])
      /\ RequestsIn(pipe'[p]) = RequestsIn(pipe[p])
  <2>1. /\ Range(pipe[p]) = {frame} \cup Range(Tail(pipe[p])) /\ Tail(pipe[p]) \in Seq(Frames)
        /\ RequestsIn(pipe[p]) = RequestsIn(Tail(pipe[p])) + IF frame.type = "REQUEST" THEN 1 ELSE 0
    BY <1>1, <1>2, <1>4, TakenFacts
  <2>2. RequestsIn(Tail(pipe[p])) \in Nat
    BY <2>1, RequestsWeigh
  <2>. QED
    BY <1>4, <1>6, <2>1, <2>2
<1>8. Range(pipe'[Other(p)]) = Range(pipe[Other(p)]) \cup Range(answers)
      /\ RequestsIn(pipe'[Other(p)]) = RequestsIn(pipe[Other(p)])
  <2>1. RequestsIn(pipe[Other(p)]) \in Nat
    BY <1>2, RequestsWeigh
  <2>. QED
    BY <1>5, <1>6, <2>1 DEF Appended
<1>9. (Ended(pipe'[p]) <=> Ended(pipe[p])) /\ (Ended(pipe'[Other(p)]) <=> Ended(pipe[Other(p)]))
  BY <1>4, <1>5, <1>7, <1>8 DEF Ended
<1>10. PICK handler : handler = handle(ends[p].handler)
  OBVIOUS
<1>11. PICK end \in Kept :
         /\ end = [ends[p] EXCEPT !.handler = handler]
         /\ end.handler.idle = 0 /\ end.sender = ends[p].sender
         /\ resumes = 0 => RunningEnd(end, Sends(p)) /\ responderCloses[p] = 0
         /\ resumes # 0 => ClosedEnd(end) /\ responderCloses[p] = 1
  <2>1. EndKept(p)
    BY TwoPeers DEF IInv
  <2>2. CASE resumes = 0
    <3>1. RunningEnd(ends[p], Sends(p)) /\ responderCloses[p] = 0
      BY <1>1, <2>1, <2>2 DEF EndKept, Watched
    <3>. QED
      BY <1>2, <1>10, <2>2, <3>1, RunsOn
  <2>3. CASE resumes # 0
    <3>1. ClosedEnd(ends[p]) /\ responderCloses[p] = 1
      BY <1>1, <2>1, <2>3 DEF EndKept, Watched
    <3>. QED
      BY <1>2, <1>10, <2>3, <3>1, HandledClosed
  <2>. QED
    BY <2>2, <2>3
<1>12. ends' \in [Peers -> Kept] /\ ends'[p] = end /\ ends'[Other(p)] = ends[Other(p)]
  <2>1. ends' = [ends EXCEPT ![p].handler = handler]
    BY <1>4, <1>10 DEF Handle
  <2>. QED
    BY ONLY ZenonT(40), <1>2, <1>11, <2>1, p \in Peers, OneEnd
<1>13. EndKept(p)'
  <2>1. (Watched(p)' <=> resumes = 0) /\ Sends(p)' = Sends(p) /\ installed'[p] /\ responderCloses'[p] = responderCloses[p]
    BY <1>1 DEF Watched, Sends
  <2>. QED
    BY ONLY <1>11, <1>12, <2>1, Zenon DEF EndKept
<1>14. EndKept(Other(p))'
  BY <1>1, <1>12, TwoPeers DEF IInv, EndKept, Watched, Sends
<1>15. EndKept(Client)' /\ EndKept(Server)' /\ Excused' /\ Typed'
  <2>1. Typed'
    BY <1>1, <1>6, <1>12 DEF IInv, Typed, Kept
  <2>2. Excused'
    BY <1>1 DEF IInv, Excused
  <2>. QED
    BY <1>13, <1>14, <2>1, <2>2, TwoPeers
<1>16. ASSUME conn[Client] = "open", resumes = 0
       PROVE  SendsSoon(0)
  <2>1. PICK left \in Int : ends[Client].sender.timer = {left} /\ left <= Interval
    BY <1>16, ClientSends
  <2>2. 0 <= Interval - left
    BY ONLY <1>0, <2>1
  <2>. QED
    BY <2>1, <2>2 DEF SendsSoon
<1>17. ends'[Client].sender = ends[Client].sender
  BY <1>11, <1>12, TwoPeers
<1>18. Stages' /\ Told' /\ Counted'
  <2>1. Stages'
    <3>1. installed[Client]
      BY <1>1, TwoPeers DEF IInv, Stages
    <3>. QED
      BY <1>1, <3>1 DEF IInv, Stages, ResumeUnsupported, LeasesDiffer
  <2>2. RequestsIn(pipe'[Server]) = RequestsIn(pipe[Server])
    BY <1>7, <1>8, TwoPeers
  <2>3. Counted'
    BY <1>1, <2>2 DEF IInv, Counted
  <2>4. reason[Server] # "REJECTED_SETUP" \/ conn[Client] # "open"
    <3>1. CASE p = Client
      BY <1>1, <1>4, <3>1 DEF IInv, Told
    <3>2. CASE p = Server
      BY <1>1, <3>2 DEF IInv, Told
    <3>. QED
      BY <3>1, <3>2, TwoPeers
  <2>5. Told'
    BY <1>1, <2>4 DEF IInv, Told
  <2>. QED
    BY <2>1, <2>3, <2>5
<1>19. CASE p = Client
  <2>1. conn[Server] # "none" /\ conn[Client] = "open"
    BY <1>1, <1>19 DEF IInv, Wires, Stages
  <2>2. Wires'
    <3>1. \A f \in Range(pipe'[Server]) : f.type \in {"SETUP", "KEEPALIVE", "REQUEST", "FIN"}
      BY <1>5, <1>8, <1>19, TwoPeers DEF IInv, Wires
    <3>2. \A f \in Range(pipe'[Client]) : f.type \in {"KEEPALIVE", "REJECTED_SETUP", "FIN"}
      BY <1>7, <1>19, TwoPeers DEF IInv, Wires
    <3>3. installed[Server] \/ conn[Server] = "closed"
      BY <1>1, <1>19 DEF IInv, Wires
    <3>4. (Ended(pipe'[Client]) <=> Ended(pipe[Client])) /\ (Ended(pipe'[Server]) <=> Ended(pipe[Server]))
      BY <1>9, <1>19, TwoPeers
    <3>. QED
      BY <1>1, <1>3, <2>1, <3>1, <3>2, <3>3, <3>4 DEF IInv, Wires
  <2>3. ClientHears'
    <3>1. SUFFICES ASSUME Works
          PROVE  Answered(0)' \/ (conn[Server] # "closed" /\ SendsSoon(0)')
      BY <1>1, <1>11, <1>12, <1>19 DEF ClientHears, Works
    <3>2. CASE conn[Server] = "closed"
      <4>1. Ended(pipe'[Client])
        BY <1>1, <1>3, <1>9, <1>19, <3>2 DEF IInv, Wires
      <4>2. PICK f \in Range(pipe'[Client]) : f.type = "FIN"
        BY <4>1 DEF Ended
      <4>3. f.age \in 0 .. Delay
        BY <1>6, TwoPeers, PipeFrames
      <4>4. 0 <= Interval + Lag + Delay + f.age
        BY ONLY <1>0, <4>3
      <4>. QED
        BY <4>4 DEF Answered
    <3>3. CASE conn[Server] # "closed"
      BY <1>16, <1>17, <2>1, <3>1, <3>3 DEF SendsSoon, Works
    <3>. QED
      BY <3>2, <3>3
  <2>4. ServerHears'
    <3>1. Range(pipe[Server]) \subseteq Range(pipe'[Server]) /\ ends'[Server] = ends[Server]
      BY <1>8, <1>12, <1>19, TwoPeers
    <3>. QED
      BY <1>1, <1>17, <3>1 DEF IInv, ServerHears, Works, Watched, Reached, SendsSoon
  <2>. QED
    BY ONLY <1>15, <1>18, <2>2, <2>3, <2>4 DEF IInv
<1>20. CASE p = Server
  <2>1. conn[Server] = "open" /\ installed[Server]
    BY <1>1, <1>20
  <2>2. Wires'
    <3>1. \A f \in Range(pipe'[Client]) : f.type \in {"KEEPALIVE", "REJECTED_SETUP", "FIN"}
      BY <1>5, <1>8, <1>20, TwoPeers DEF IInv, Wires
    <3>2. \A f \in Range(pipe'[Server]) : f.type \in {"SETUP", "KEEPALIVE", "REQUEST", "FIN"}
      BY <1>7, <1>20, TwoPeers DEF IInv, Wires
    <3>4. (Ended(pipe'[Client]) <=> Ended(pipe[Client])) /\ (Ended(pipe'[Server]) <=> Ended(pipe[Server]))
      BY <1>9, <1>20, TwoPeers
    <3>. QED
      BY <1>1, <1>3, <2>1, <3>1, <3>2, <3>4 DEF IInv, Wires
  <2>3. /\ Range(pipe'[Client]) = Range(pipe[Client]) \cup Range(answers)
        /\ Range(pipe[Server]) = {frame} \cup Range(pipe'[Server]) /\ ends'[Client] = ends[Client]
    BY <1>7, <1>8, <1>12, <1>20, TwoPeers
  <2>4. ClientHears'
    <3>1. PICK idle \in Nat : idle = ends[Client].handler.idle /\ idle = ends'[Client].handler.idle
      BY <2>3, TwoPeers DEF IInv, Typed, Handlers
    <3>2. SUFFICES ASSUME Works, conn[Client] = "open"
          PROVE  \/ Answered(idle)'
                 \/ Asks(pipe'[Server], idle) \/ Asks(held, idle) \/ SendsSoon(idle)'
      BY <1>1, <2>1, <3>1 DEF ClientHears, Works
    <3>3. CASE Answered(idle)
      BY <2>3, <3>3 DEF Answered
    <3>4. CASE Asks(pipe[Server], idle)
      <4>1. PICK f \in Range(pipe[Server]) : f.type = "KEEPALIVE" /\ f.respond /\ idle <= Interval + Lag + f.age
        BY <3>4 DEF Asks
      <4>2. CASE f \in Range(pipe'[Server])
        BY <4>1, <4>2 DEF Asks
      <4>3. CASE f = frame
        <5>1. PICK g \in Range(answers) : g.age = 0
          BY <1>5, <4>1, <4>3
        <5>2. f.age \in 0 .. Delay
          BY <4>3 DEF Frames
        <5>3. idle <= Interval + Lag + Delay + 0
          BY ONLY <1>0, <4>1, <5>2, idle \in Nat
        <5>. QED
          BY <2>3, <5>1, <5>3 DEF Answered
      <4>. QED
        BY <2>3, <4>2, <4>3
    <3>5. CASE Asks(held, idle)
      BY <3>5
    <3>6. CASE SendsSoon(idle)
      BY <1>17, <3>6 DEF SendsSoon
    <3>. QED
      BY <3>1, <3>2, <3>3, <3>4, <3>5, <3>6 DEF IInv, ClientHears
  <2>5. ServerHears'
    <3>1. SUFFICES ASSUME Works
          PROVE  Reached(0)' \/ (conn[Client] = "open" /\ SendsSoon(0)')
      BY <1>1, <1>11, <1>12, <1>20 DEF ServerHears, Works
    <3>2. CASE conn[Client] = "open"
      BY <1>16, <1>17, <3>1, <3>2 DEF SendsSoon, Works
    <3>3. CASE conn[Client] # "open"
      <4>1. conn[Client] = "closed"
        BY <2>1, <3>3 DEF IInv, Stages
      <4>2. Ended(pipe'[Server])
        BY <1>3, <1>9, <1>20, <2>1, <4>1 DEF IInv, Wires
      <4>3. PICK f \in Range(pipe'[Server]) : f.type = "FIN"
        BY <4>2 DEF Ended
      <4>4. f.age \in 0 .. Delay
        BY <1>6, TwoPeers, PipeFrames
      <4>5. 0 <= Interval + Lag + f.age
        BY ONLY <1>0, <4>4
      <4>. QED
        BY <4>3, <4>5 DEF Reached
    <3>. QED
      BY <3>2, <3>3
  <2>. QED
    BY ONLY <1>15, <1>18, <2>2, <2>4, <2>5 DEF IInv
<1>. QED
  BY <1>19, <1>20, TwoPeers

\* A request is dispatched.
LEMMA HandleRequestInvariant ==
  ASSUME KeepAliveAssumption, IInv, NEW p \in Peers, Handle(p), Head(pipe[p]).type = "REQUEST"
  PROVE  IInv'
<1>1. /\ UNCHANGED <<config, conn, reason, accepting, installed, responderCloses, ends, held, cut,
                     stalled, resumes>>
      /\ conn[p] = "open" /\ installed[p] /\ pipe[p] # <<>>
      /\ requests' = [requests EXCEPT !.dispatched = @ + 1]
      /\ pipe' = [pipe EXCEPT ![p] = Tail(@)]
  BY DEF Handle, Listens
<1>2. pipe \in [Peers -> Seq(Frames)] /\ pipe[p] \in Seq(Frames)
  BY DEF IInv, Typed
<1>3. p = Server
  <2>1. Head(pipe[p]) \in Range(pipe[p])
    BY <1>1, <1>2, TakenFacts
  <2>2. p # Client
    BY <2>1 DEF IInv, Wires
  <2>. QED
    BY <2>2, TwoPeers
<1>4. /\ requests' \in [sent : Nat, dispatched : Nat]
      /\ requests'.sent = requests.sent /\ requests'.dispatched = requests.dispatched + 1
  <2>1. requests \in [sent : Nat, dispatched : Nat]
    BY DEF IInv, Typed
  <2>. QED
    BY ONLY <1>1, <2>1
<1>5. PICK frame \in Frames : frame = Head(pipe[Server]) /\ frame.type = "REQUEST"
  BY <1>1, <1>2, <1>3, TakenFacts
<1>6. /\ Range(pipe[Server]) = {frame} \cup Range(Tail(pipe[Server])) /\ Tail(pipe[Server]) \in Seq(Frames)
      /\ RequestsIn(pipe[Server]) = RequestsIn(Tail(pipe[Server])) + 1
  BY <1>1, <1>2, <1>3, <1>5, TakenFacts
<1>7. pipe' \in [Peers -> Seq(Frames)] /\ pipe'[Server] = Tail(pipe[Server]) /\ pipe'[Client] = pipe[Client]
  BY <1>1, <1>2, <1>3, <1>6, TwoPeers
<1>8. Range(pipe[Server]) = {frame} \cup Range(pipe'[Server])
  BY <1>6, <1>7
<1>9. (Ended(pipe'[Server]) <=> Ended(pipe[Server])) /\ (Ended(pipe'[Client]) <=> Ended(pipe[Client]))
  BY <1>5, <1>7, <1>8 DEF Ended
<1>10. conn[Server] = "open" /\ installed[Server] /\ installed[Client]
  BY <1>1, <1>3 DEF IInv, Stages
<1>11. Typed'
  BY <1>1, <1>4, <1>7 DEF IInv, Typed
<1>12. Stages' /\ Told'
  BY <1>1, <1>4, <1>7, <1>10 DEF IInv, Stages, Told, ResumeUnsupported, LeasesDiffer
<1>13. Wires'
  <2>1. ~cut
    BY <1>1, <1>3 DEF IInv, Wires
  <2>. QED
    BY <1>1, <1>7, <1>8, <1>9, <1>10, <2>1 DEF IInv, Wires
<1>14. Counted'
  <2>1. SUFFICES ASSUME conn[Client] = "open", resumes = 0, ~cut
        PROVE  requests'.sent = requests'.dispatched + RequestsIn(pipe'[Server]) + RequestsIn(held)
    BY <1>1 DEF Counted
  <2>2. requests.sent = requests.dispatched + RequestsIn(pipe[Server]) + RequestsIn(held)
    BY <1>10, <2>1 DEF IInv, Counted
  <2>3. requests.dispatched \in Nat /\ RequestsIn(pipe'[Server]) \in Nat /\ RequestsIn(held) \in Nat
    BY <1>7, TwoPeers, RequestsWeigh DEF IInv, Typed
  <2>4. RequestsIn(pipe[Server]) = RequestsIn(pipe'[Server]) + 1
    BY <1>6, <1>7
  <2>. QED
    BY ONLY <1>4, <2>2, <2>3, <2>4
<1>15. EndKept(Client)' /\ EndKept(Server)' /\ Excused'
  BY <1>1 DEF IInv, EndKept, Watched, Sends, Excused
<1>16. ClientHears'
  BY <1>1, <1>5, <1>7, <1>8 DEF IInv, ClientHears, Works, Answered, Asks, SendsSoon
<1>17. ServerHears'
  BY <1>1, <1>5, <1>8 DEF IInv, ServerHears, Works, Watched, Reached, SendsSoon
<1>. QED
  BY <1>11, <1>12, <1>13, <1>14, <1>15, <1>16, <1>17 DEF IInv

\* An end handles the oldest frame on its way, whatever it is.
LEMMA HandleInvariant ==
  ASSUME KeepAliveAssumption, IInv, NEW p \in Peers, Handle(p)
  PROVE  IInv'
<1>1. /\ UNCHANGED <<config, accepting, installed, held, cut, stalled, resumes>>
      /\ conn[p] = "open" /\ pipe[p] # <<>>
  BY DEF Handle, Listens
<1>2. pipe[p] \in Seq(Frames)
  BY DEF IInv, Typed
<1>3. PICK frame \in Frames : frame = Head(pipe[p]) /\ frame \in Range(pipe[p])
  BY <1>1, <1>2, TakenFacts
<1>4. frame.type \in FrameTypes
  BY DEF Frames
<1>5. CASE frame.type = "KEEPALIVE"
  BY <1>3, <1>5, HandleKeepAliveInvariant
<1>6. CASE frame.type = "REQUEST"
  BY <1>3, <1>6, HandleRequestInvariant
<1>7. CASE frame.type = "FIN"
  <2>1. CloseWith(p, <<>>, "peer") /\ UNCHANGED requests
    BY <1>3, <1>7 DEF Handle
  <2>2. p = Client => conn[Server] = "closed" /\ reason[Server] # "REJECTED_SETUP"
    BY <1>1, <1>3, <1>7 DEF IInv, Wires, Ended, Told
  <2>3. Closing(p, <<>>, "peer")
    BY <1>1, <2>2 DEF Closing, Reasons
  <2>. QED
    BY <1>1, <2>1, <2>3, CloseInvariant
<1>8. CASE frame.type \in {"SETUP", "REJECTED_SETUP"}
  <2>1. CloseWith(p, <<>>, frame.type) /\ UNCHANGED requests
    BY <1>3, <1>8 DEF Handle
  <2>2. p = Server => frame.type # "REJECTED_SETUP"
    BY <1>3 DEF IInv, Wires
  <2>3. Closing(p, <<>>, frame.type)
    BY <1>1, <1>8, <2>2 DEF Closing, Reasons
  <2>. QED
    BY <1>1, <2>1, <2>3, CloseInvariant
<1>. QED
  BY <1>4, <1>5, <1>6, <1>7, <1>8 DEF FrameTypes

\* SETUP reaches the server, which rejects it or awaits its acceptor.
LEMMA FirstDataInvariant ==
  ASSUME KeepAliveAssumption, ConnectionAssumption, IInv, NEW n \in 1 .. MaxRequests + 1, FirstData(n)
  PROVE  IInv'
<1>0. Interval \in Nat /\ Lag \in Nat /\ Delay \in Nat
  BY Parameters
<1>1. /\ UNCHANGED <<config, listener, installed, responderCloses, ends, cut, stalled, requests, resumes>>
      /\ conn[Server] = "none" /\ n <= Len(pipe[Server])
      /\ \A i \in 1 .. n : pipe[Server][i].type # "FIN"
  BY DEF FirstData
<1>2. n \in Nat /\ n >= 1
  BY ConnectionAssumption
<1>3. pipe \in [Peers -> Seq(Frames)] /\ pipe[Server] \in Seq(Frames) /\ held \in Seq(Frames)
      /\ Len(pipe[Server]) \in Nat
  BY TwoPeers, LenProperties DEF IInv, Typed
<1>4. PICK s \in Seq(Frames) : s = pipe[Server]
  BY <1>3
<1>5. PICK h \in Seq(Frames), r \in Seq(Frames) :
        /\ h = SubSeq(s, 2, n) /\ r = SubSeq(s, n + 1, Len(s))
        /\ s # <<>> /\ Range(s) = {Head(s)} \cup Range(h) \cup Range(r)
        /\ RequestsIn(s) = RequestsIn(h) + RequestsIn(r) + IF Head(s).type = "REQUEST" THEN 1 ELSE 0
        /\ \A f \in Range(h) : \E i \in 1 .. n : f = s[i]
  BY ZenonT(40), <1>1, <1>2, <1>4, ChunkFacts
<1>6. /\ ~installed[Server] /\ accepting = "none" /\ held = <<>> /\ installed[Client] /\ ~cut
      /\ conn[Client] \in {"open", "closed"} /\ pipe[Client] = <<>>
  BY <1>1, <1>4, <1>5 DEF IInv, Stages, Wires
<1>7. Head(s).type = "SETUP"
  BY <1>1, <1>4, <1>6 DEF IInv, Wires
<1>8. EndKept(Client)' /\ EndKept(Server)'
  <2>1. conn'[Client] = conn[Client]
    BY ZenonT(40), TwoPeers DEF FirstData, IInv, Typed
  <2>. QED
    BY <1>1, <1>6, <2>1 DEF IInv, EndKept, Watched, Sends
<1>9. ASSUME conn[Client] = "open", Works
      PROVE  /\ Asks(s, ends[Client].handler.idle) \/ SendsSoon(ends[Client].handler.idle)
             /\ ends[Client].handler.idle <= Interval + Lag + Delay + 0
  <2>1. PICK idle \in Nat : idle = ends[Client].handler.idle
    BY TwoPeers DEF IInv, Typed, Handlers
  <2>2. ~Answered(idle) /\ ~Asks(held, idle)
    BY <1>6, NoFrame DEF Answered, Asks
  <2>3. Asks(s, idle) \/ SendsSoon(idle)
    BY <1>1, <1>4, <1>9, <2>1, <2>2 DEF IInv, ClientHears
  <2>4. ASSUME Asks(s, idle)
        PROVE  idle <= Interval + Lag + Delay + 0
    <3>1. PICK f \in Range(s) : idle <= Interval + Lag + f.age
      BY <2>4 DEF Asks
    <3>2. f.age \in 0 .. Delay
      BY PipeFrames
    <3>. QED
      BY ONLY <1>0, <3>1, <3>2, idle \in Nat
  <2>5. ASSUME SendsSoon(idle)
        PROVE  idle <= Interval + Lag + Delay + 0
    <3>1. PICK left \in Int : ends[Client].sender.timer = {left} /\ -Lag <= left
      BY <1>9, ClientSends DEF Works
    <3>2. idle <= Interval - left
      BY <2>5, <3>1 DEF SendsSoon
    <3>. QED
      BY ONLY <1>0, <3>1, <3>2, idle \in Nat
  <2>. QED
    BY ONLY <2>1, <2>3, <2>4, <2>5
<1>10. CASE ResumeUnsupported \/ LeasesDiffer
  <2>1. /\ conn' = [conn EXCEPT ![Server] = "closed"]
        /\ reason' = [reason EXCEPT ![Server] = "REJECTED_SETUP"]
        /\ pipe' = [Sent(Server, <<Frame("REJECTED_SETUP"), Fin>>) EXCEPT ![Server] = <<>>]
        /\ UNCHANGED <<accepting, held>>
    BY <1>10 DEF FirstData
  <2>2. /\ conn'[Server] = "closed" /\ conn'[Client] = conn[Client] /\ reason'[Server] = "REJECTED_SETUP"
        /\ reason'[Client] = reason[Client]
        /\ conn' \in [Peers -> {"none", "open", "closed", "failed"}] /\ reason' \in [Peers -> Reasons]
    BY <2>1, TwoPeers DEF IInv, Typed, Reasons
  <2>3. PICK rejection \in Frames, fin \in Frames :
          /\ rejection = Frame("REJECTED_SETUP") /\ fin = Fin
          /\ rejection.type = "REJECTED_SETUP" /\ fin.type = "FIN" /\ fin.age = 0
    BY FrameFacts DEF FrameTypes
  <2>4. PICK frames : frames = <<rejection, fin>>
    OBVIOUS
  <2>5. /\ frames \in Seq(Frames) /\ Range(frames) = {rejection, fin} /\ frames # <<>>
        /\ Head(frames) = rejection
    BY <2>4 DEF Range
  <2>6. PICK sent : sent = Sent(Server, frames)
    OBVIOUS
  <2>7. /\ sent \in [Peers -> Seq(Frames)]
        /\ conn[Client] = "closed" => sent[Client] = <<>>
        /\ conn[Client] = "open" => sent[Client] = frames
    <3>1. /\ sent \in [Peers -> Seq(Frames)]
          /\ cut \/ conn[Client] = "closed" => sent[Client] = pipe[Client]
          /\ ~cut /\ conn[Client] # "closed" => Appended(pipe[Client], frames, sent[Client])
      BY ZenonT(40), <2>5, <2>6, TwoPeers, SentFacts DEF IInv
    <3>. QED
      BY ONLY <1>6, <3>1 DEF Appended
  <2>8. pipe' \in [Peers -> Seq(Frames)] /\ pipe'[Server] = <<>> /\ pipe'[Client] = sent[Client]
    <3>1. pipe' = [sent EXCEPT ![Server] = <<>>]
      BY <2>1, <2>3, <2>4, <2>6
    <3>. QED
      BY <2>7, <3>1, TwoPeers, NoFrame
  <2>9. Typed'
    BY <1>1, <2>1, <2>2, <2>8 DEF IInv, Typed
  <2>10. Stages' /\ Counted'
    BY <1>1, <1>6, <2>1, <2>2 DEF IInv, Stages, Counted, ResumeUnsupported, LeasesDiffer
  <2>11. Told'
    BY ZenonT(40), <1>1, <1>6, <2>2, <2>3, <2>5, <2>7, <2>8 DEF IInv, Told
  <2>12. Wires'
    <3>1. ~Ended(<<>>) /\ Ended(frames)
      BY <2>3, <2>5, NoFrame DEF Ended
    <3>2. \A f \in Range(pipe'[Client]) : f.type \in {"KEEPALIVE", "REJECTED_SETUP", "FIN"}
      BY <1>6, <2>3, <2>5, <2>7, <2>8, NoFrame
    <3>3. conn[Client] = "open" => Ended(pipe'[Client])
      BY <2>7, <2>8, <3>1
    <3>. QED
      BY ONLY <1>1, <1>6, <2>2, <2>8, <3>1, <3>2, <3>3, NoFrame, SMT DEF Wires
  <2>13. ClientHears'
    BY <1>1, <1>9, <2>2, <2>3, <2>5, <2>7, <2>8 DEF ClientHears, Works, Answered
  <2>14. ServerHears' /\ Excused'
    BY <1>1, <2>2, TwoPeers DEF IInv, ServerHears, Excused, Watched
  <2>. QED
    BY ONLY <1>8, <2>9, <2>10, <2>11, <2>12, <2>13, <2>14 DEF IInv
<1>11. CASE ~(ResumeUnsupported \/ LeasesDiffer)
  <2>1. /\ conn' = [conn EXCEPT ![Server] = "open"] /\ accepting' = "awaited"
        /\ pipe' = [pipe EXCEPT ![Server] = r] /\ held' = h
        /\ UNCHANGED reason
    BY <1>4, <1>5, <1>11 DEF FirstData
  <2>2. /\ conn'[Server] = "open" /\ conn'[Client] = conn[Client]
        /\ conn' \in [Peers -> {"none", "open", "closed", "failed"}]
    BY <2>1, TwoPeers DEF IInv, Typed
  <2>3. pipe' \in [Peers -> Seq(Frames)] /\ pipe'[Server] = r /\ pipe'[Client] = <<>>
    BY <1>3, <1>6, <2>1, TwoPeers
  <2>4. Typed'
    BY <1>1, <2>1, <2>2, <2>3 DEF IInv, Typed
  <2>5. Stages' /\ Told'
    BY <1>1, <1>6, <1>11, <2>1, <2>2 DEF IInv, Stages, Told, ResumeUnsupported, LeasesDiffer
  <2>6. Counted'
    <3>1. SUFFICES ASSUME conn[Client] = "open", resumes = 0
          PROVE  requests.sent = requests.dispatched + RequestsIn(r) + RequestsIn(h)
      BY <1>1, <2>1, <2>2, <2>3 DEF Counted
    <3>2. requests.sent = requests.dispatched + RequestsIn(s) + RequestsIn(held)
      BY <1>1, <1>4, <1>6, <3>1 DEF IInv, Counted
    <3>3. RequestsIn(held) = 0 /\ RequestsIn(r) \in Nat /\ RequestsIn(h) \in Nat /\ requests.dispatched \in Nat
      BY <1>6, NoFrame, RequestsWeigh DEF IInv, Typed
    <3>4. RequestsIn(s) = RequestsIn(h) + RequestsIn(r)
      <4>1. (IF Head(s).type = "REQUEST" THEN 1 ELSE 0) = 0
        BY <1>7
      <4>. QED
        BY ONLY <1>5, <3>3, <4>1
    <3>. QED
      BY ONLY <3>2, <3>3, <3>4
  <2>7. Wires'
    <3>1. \A f \in Range(r) : f.type \in {"SETUP", "KEEPALIVE", "REQUEST", "FIN"}
      BY <1>4, <1>5 DEF IInv, Wires
    <3>2. Ended(r) <=> Ended(s)
      <4>1. ASSUME NEW f \in Range(h) \cup {Head(s)}
            PROVE  f.type # "FIN"
        BY ZenonT(40), <1>1, <1>4, <1>5, <1>7
      <4>2. Range(s) = {Head(s)} \cup Range(h) \cup Range(r)
        BY <1>5
      <4>. QED
        BY ONLY <4>1, <4>2, Zenon DEF Ended
    <3>3. ~Ended(<<>>)
      BY NoFrame DEF Ended
    <3>. QED
      BY <1>1, <1>4, <1>6, <2>2, <2>3, <3>1, <3>2, <3>3, NoFrame DEF IInv, Wires
  <2>8. ClientHears'
    <3>1. \A idle : Asks(s, idle) => Asks(r, idle) \/ Asks(h, idle)
      BY <1>5, <1>7 DEF Asks
    <3>. QED
      BY <1>1, <1>9, <2>1, <2>2, <2>3, <3>1 DEF ClientHears, Works, SendsSoon
  <2>9. ServerHears' /\ Excused'
    BY <1>1, <1>6, <2>1, TwoPeers DEF IInv, ServerHears, Excused, Watched
  <2>. QED
    BY ONLY <1>8, <2>4, <2>5, <2>6, <2>7, <2>8, <2>9 DEF IInv
<1>. QED
  BY <1>10, <1>11

\* The server gets its handlers, and handles what came with SETUP.
LEMMA AcceptorReturnsInvariant ==
  ASSUME KeepAliveAssumption, IInv, AcceptorReturns
  PROVE  IInv'
<1>0. Interval \in Nat /\ Lag \in Nat /\ Delay \in Nat
  BY Parameters
<1>1. /\ UNCHANGED <<config, listener, conn, reason, cut, stalled, resumes>>
      /\ accepting = "awaited" /\ accepting' = "done" /\ held' = <<>>
  BY DEF AcceptorReturns
<1>2. /\ ~installed[Server] /\ conn[Server] \in {"open", "closed"} /\ installed[Client]
      /\ conn[Client] \in {"open", "closed"} /\ resumes = 0 /\ requests.dispatched = 0
  <2>1. conn[Server] \in {"none", "open", "closed", "failed"} /\ resumes \in Nat
    BY TwoPeers DEF IInv, Typed
  <2>. QED
    BY <1>1, <2>1 DEF IInv, Stages
<1>3. /\ installed' = [installed EXCEPT ![Server] = TRUE] /\ installed' \in [Peers -> BOOLEAN]
      /\ installed'[Server] /\ installed'[Client]
  BY <1>2, TwoPeers DEF AcceptorReturns, IInv, Typed
<1>4. ends[Server] = NewEnd /\ responderCloses[Server] = 0
  BY <1>2 DEF IInv, EndKept
<1>5. /\ requests' \in [sent : Nat, dispatched : Nat]
      /\ requests'.sent = requests.sent /\ requests'.dispatched = RequestsIn(held)
  <2>1. requests \in [sent : Nat, dispatched : Nat] /\ RequestsIn(held) \in Nat
    BY RequestsWeigh DEF IInv, Typed
  <2>2. requests' = [requests EXCEPT !.dispatched = @ + RequestsIn(held)]
    BY DEF AcceptorReturns
  <2>. QED
    BY <1>2, <2>1, <2>2
<1>6. PICK sends \in BOOLEAN : sends = config.serverSideKeepAlive
  BY DEF IInv, Typed, Configurations
<1>7. PICK end \in Kept :
        /\ end = IF conn[Server] = "closed" THEN Started(Closed(NewEnd), sends) ELSE Started(NewEnd, sends)
        /\ conn[Server] = "closed" => ClosedEnd(end)
        /\ conn[Server] # "closed" => RunningEnd(end, sends) /\ end.handler.idle = 0
  BY StartedFacts
<1>8. PICK count \in Nat : count = IF conn[Server] = "closed" THEN 1 ELSE 0
  OBVIOUS
<1>9. /\ ends' \in [Peers -> Kept] /\ ends'[Server] = end /\ ends'[Client] = ends[Client]
      /\ responderCloses' \in [Peers -> Nat] /\ responderCloses'[Server] = count
      /\ responderCloses'[Client] = responderCloses[Client]
  <2>1. ends' = [ends EXCEPT ![Server] = end]
    BY <1>4, <1>6, <1>7 DEF AcceptorReturns
  <2>2. responderCloses' = [responderCloses EXCEPT ![Server] = count]
    BY <1>4, <1>8 DEF AcceptorReturns, IInv, Typed
  <2>3. ends \in [Peers -> Kept] /\ responderCloses \in [Peers -> Nat]
    BY DEF IInv, Typed, Kept
  <2>. QED
    BY ONLY <2>1, <2>2, <2>3, end \in Kept, count \in Nat, TwoPeers
<1>10. EndKept(Server)'
  <2>1. Watched(Server)' <=> conn[Server] # "closed"
    BY <1>1, <1>2, <1>3 DEF Watched
  <2>2. conn[Server] # "closed" => RunningEnd(end, Sends(Server)')
    BY <1>1, <1>6, <1>7, TwoPeers DEF RunningEnd, Sends
  <2>. QED
    BY ONLY <1>3, <1>7, <1>8, <1>9, <2>1, <2>2, Zenon DEF EndKept
<1>11. EndKept(Client)'
  BY <1>1, <1>2, <1>3, <1>9 DEF IInv, EndKept, Watched, Sends
<1>12. PICK answers \in Seq(Frames) :
         /\ answers = Answers(held) /\ \A f \in Range(answers) : f.type = "KEEPALIVE"
         /\ (\E f \in Range(held) : f.type = "KEEPALIVE" /\ f.respond) => \E f \in Range(answers) : f.age = 0
  <2>1. held \in Seq(Frames)
    BY DEF IInv, Typed
  <2>. QED
    BY <2>1, AnswersFacts, FrameFacts
<1>13. /\ pipe' \in [Peers -> Seq(Frames)] /\ pipe'[Server] = pipe[Server]
       /\ conn[Server] = "closed" \/ cut \/ conn[Client] = "closed" => pipe'[Client] = pipe[Client]
       /\ ~(conn[Server] = "closed" \/ cut \/ conn[Client] = "closed") => Appended(pipe[Client], answers, pipe'[Client])
  <2>1. CASE conn[Server] = "closed"
    <3>1. pipe' = pipe
      BY <2>1 DEF AcceptorReturns
    <3>. QED
      BY <2>1, <3>1 DEF IInv, Typed
  <2>2. CASE conn[Server] # "closed"
    <3>1. pipe' = Sent(Server, answers)
      BY <2>2, <1>12 DEF AcceptorReturns
    <3>2. Typed
      BY DEF IInv
    <3>. QED
      BY ONLY ZenonT(60), <2>2, <3>1, <3>2, answers \in Seq(Frames), TwoPeers, SentFacts
  <2>. QED
    BY <2>1, <2>2
<1>14. Range(pipe[Client]) \subseteq Range(pipe'[Client])
       /\ \A f \in Range(pipe'[Client]) : f \in Range(pipe[Client]) \/ f.type = "KEEPALIVE"
  BY <1>12, <1>13 DEF Appended
<1>15. Ended(pipe'[Client]) <=> Ended(pipe[Client])
  BY <1>14 DEF Ended
<1>16. Typed'
  BY <1>1, <1>3, <1>5, <1>9, <1>13, NoFrame DEF IInv, Typed, Kept
<1>17. Stages'
  BY <1>1, <1>2, <1>3 DEF IInv, Stages, ResumeUnsupported, LeasesDiffer
<1>18. Wires'
  <2>1. \A f \in Range(pipe'[Client]) : f.type \in {"KEEPALIVE", "REJECTED_SETUP", "FIN"}
    BY <1>14 DEF IInv, Wires
  <2>2. cut => pipe'[Client] = <<>>
    BY <1>13 DEF IInv, Wires
  <2>3. Ended(pipe'[Server]) <=> Ended(pipe[Server])
    BY <1>13
  <2>. QED
    BY <1>1, <1>2, <1>3, <1>13, <1>15, <2>1, <2>2, <2>3 DEF IInv, Wires
<1>19. Told'
  BY <1>1, <1>13 DEF IInv, Told
<1>20. Counted'
  <2>1. SUFFICES ASSUME conn[Client] = "open", conn[Server] # "closed", ~cut
        PROVE  requests.sent = RequestsIn(held) + RequestsIn(pipe[Server]) + RequestsIn(<<>>)
    BY <1>1, <1>5, <1>13 DEF Counted
  <2>2. requests.sent = requests.dispatched + RequestsIn(pipe[Server]) + RequestsIn(held)
    BY <1>2, <2>1 DEF IInv, Counted
  <2>3. RequestsIn(pipe[Server]) \in Nat /\ RequestsIn(held) \in Nat /\ RequestsIn(<<>>) = 0
    BY NoFrame, RequestsWeigh, TwoPeers DEF IInv, Typed
  <2>. QED
    BY ONLY <1>2, <2>2, <2>3
<1>21. ClientHears'
  <2>1. PICK idle \in Nat : idle = ends[Client].handler.idle /\ idle = ends'[Client].handler.idle
    BY <1>9, TwoPeers DEF IInv, Typed, Handlers
  <2>2. SUFFICES ASSUME Works, conn[Client] = "open"
        PROVE  \/ Answered(idle)'
               \/ conn[Server] # "closed" /\ (Asks(pipe[Server], idle) \/ SendsSoon(idle)')
    BY <1>1, <1>13, <2>1 DEF ClientHears, Works
  <2>3. CASE Answered(idle)
    BY <1>14, <2>3 DEF Answered
  <2>4. CASE conn[Server] # "closed" /\ Asks(held, idle)
    <3>1. PICK f \in Range(held) : f.type = "KEEPALIVE" /\ f.respond /\ idle <= Interval + Lag + f.age
      BY <2>4 DEF Asks
    <3>2. PICK g \in Range(answers) : g.age = 0
      BY <1>12, <3>1
    <3>3. g \in Range(pipe'[Client])
      BY <1>13, <2>2, <2>4 DEF Works, Appended
    <3>4. f.age \in 0 .. Delay
      BY PipeFrames DEF IInv, Typed
    <3>5. idle <= Interval + Lag + Delay + 0
      BY ONLY <1>0, <3>1, <3>4, idle \in Nat
    <3>. QED
      BY <3>2, <3>3, <3>5 DEF Answered
  <2>5. CASE conn[Server] # "closed" /\ (Asks(pipe[Server], idle) \/ SendsSoon(idle))
    BY <1>9, <2>5 DEF SendsSoon
  <2>. QED
    BY <2>1, <2>2, <2>3, <2>4, <2>5 DEF IInv, ClientHears
<1>22. ServerHears'
  <2>1. SUFFICES ASSUME Works, conn[Server] = "open"
        PROVE  Reached(0)' \/ (conn[Client] = "open" /\ SendsSoon(0)')
    BY <1>1, <1>7, <1>9 DEF ServerHears, Watched, Works
  <2>2. CASE conn[Client] = "open"
    <3>1. PICK left \in Int : ends[Client].sender.timer = {left} /\ left <= Interval
      BY <1>2, <2>2, ClientSends
    <3>2. 0 <= Interval - left
      BY ONLY <1>0, <3>1
    <3>. QED
      BY <1>9, <2>2, <3>1, <3>2 DEF SendsSoon
  <2>3. CASE conn[Client] = "closed"
    <3>1. Ended(pipe'[Server])
      BY <1>13, <2>1, <2>3 DEF IInv, Wires, Works
    <3>2. PICK f \in Range(pipe'[Server]) : f.type = "FIN"
      BY <3>1 DEF Ended
    <3>3. f.age \in 0 .. Delay
      BY <1>13, TwoPeers, PipeFrames
    <3>4. 0 <= Interval + Lag + f.age
      BY ONLY <1>0, <3>3
    <3>. QED
      BY <3>2, <3>4 DEF Reached
  <2>. QED
    BY <1>2, <2>2, <2>3
<1>23. Excused'
  BY <1>1 DEF IInv, Excused
<1>. QED
  BY ONLY <1>10, <1>11, <1>16, <1>17, <1>18, <1>19, <1>20, <1>21, <1>22, <1>23 DEF IInv

\* A tick: every idle time, every timer and every frame gets older by one.
LEMMA PassInvariant ==
  ASSUME KeepAliveAssumption, IInv, Pass
  PROVE  IInv'
<1>0. Interval \in Nat /\ Lag \in Nat /\ Delay \in Nat
  BY Parameters
<1>1. UNCHANGED <<config, conn, reason, accepting, installed, responderCloses, held, cut, requests, resumes>>
  BY DEF Pass
<1>2. /\ stalled' \in BOOLEAN
      /\ stalled => stalled'
      /\ ~stalled' => held = <<>> /\ \A p \in Peers : ~Late(p)
  <2>1. stalled' = (stalled \/ \E p \in Peers : Late(p) \/ held # <<>>) /\ stalled \in BOOLEAN
    BY DEF Pass, IInv, Typed
  <2>2. CASE stalled \/ \E p \in Peers : Late(p) \/ held # <<>>
    <3>1. stalled' = TRUE
      BY <2>1, <2>2
    <3>. QED
      BY <3>1
  <2>3. CASE ~(stalled \/ \E p \in Peers : Late(p) \/ held # <<>>)
    <3>1. stalled' = FALSE
      BY <2>1, <2>3
    <3>. QED
      BY <2>3, <3>1, TwoPeers
  <2>. QED
    BY <2>2, <2>3
<1>3. /\ pipe'[Client] = Older(pipe[Client]) /\ pipe'[Server] = Older(pipe[Server])
      /\ pipe' = [p \in Peers |-> Older(pipe[p])]
  BY TwoPeers DEF Pass, Older
<1>4. pipe[Client] \in Seq(Frames) /\ pipe[Server] \in Seq(Frames)
  BY TwoPeers DEF IInv, Typed
<1>5. pipe' \in [Peers -> Seq(Frames)]
  BY <1>3, <1>4, TwoPeers, OlderFacts
<1>6. \A p \in Peers : ends'[p] = Tick(ends[p]) /\ ends[p] \in Kept /\ InTime(ends[p]) /\ ends'[p] \in Kept
  BY TickFacts DEF Pass, IInv, Typed, Kept
<1>7. ends' \in [Peers -> Kept]
  BY <1>6 DEF Pass
<1>8. ASSUME NEW p \in Peers
      PROVE  /\ EndKept(p)'
             /\ Watched(p) => /\ ends'[p].handler.idle = ends[p].handler.idle + 1
                              /\ \A left \in ends[p].sender.timer : left - 1 \in ends'[p].sender.timer
  <2>1. EndKept(p)
    BY TwoPeers DEF IInv
  <2>2. (Watched(p)' <=> Watched(p)) /\ Sends(p)' = Sends(p) /\ installed'[p] = installed[p]
        /\ responderCloses'[p] = responderCloses[p]
    BY <1>1 DEF Watched, Sends
  <2>3. /\ ends[p] = NewEnd => ends'[p] = NewEnd
        /\ ClosedEnd(ends[p]) => ClosedEnd(ends'[p])
        /\ RunningEnd(ends[p], Sends(p)) =>
             /\ RunningEnd(ends'[p], Sends(p))
             /\ ends'[p].handler.idle = ends[p].handler.idle + 1
             /\ \A left \in ends[p].sender.timer : left - 1 \in ends'[p].sender.timer
    BY ONLY KeepAliveAssumption, <1>6, p \in Peers, TickFacts, ZenonT(40)
  <2>. QED
    BY ONLY <2>1, <2>2, <2>3, ZenonT(40) DEF EndKept
<1>9. EndKept(Client)' /\ EndKept(Server)'
  BY <1>8, TwoPeers
<1>10. Typed'
  <2>1. stalled' \in BOOLEAN
    BY <1>2
  <2>. QED
    BY <2>1, <1>1, <1>5, <1>7 DEF IInv, Typed, Kept
<1>11. (Ended(pipe'[Client]) <=> Ended(pipe[Client])) /\ (Ended(pipe'[Server]) <=> Ended(pipe[Server]))
  <2>1. ASSUME NEW s \in Seq(Frames)
        PROVE  Ended(Older(s)) <=> Ended(s)
    BY SMTT(40), OlderFacts, <2>1 DEF Ended
  <2>. QED
    BY <1>3, <1>4, <2>1
<1>12. Stages' /\ Told' /\ Counted'
  <2>1. /\ pipe'[Server] = <<>> <=> pipe[Server] = <<>>
        /\ pipe'[Client] = <<>> <=> pipe[Client] = <<>>
        /\ pipe[Client] # <<>> => Head(pipe'[Client]).type = Head(pipe[Client]).type
        /\ RequestsIn(pipe'[Server]) = RequestsIn(pipe[Server])
    BY <1>3, <1>4, OlderFacts
  <2>. QED
    BY <1>1, <2>1 DEF IInv, Stages, Told, Counted, ResumeUnsupported, LeasesDiffer
<1>13. Wires'
  <2>1. /\ pipe'[Server] = <<>> <=> pipe[Server] = <<>>
        /\ pipe'[Client] = <<>> <=> pipe[Client] = <<>>
        /\ pipe[Server] # <<>> => Head(pipe'[Server]).type = Head(pipe[Server]).type
    BY ZenonT(40), <1>3, <1>4, OlderFacts
  <2>2. \A f \in Range(pipe'[Client]) : f.type \in {"KEEPALIVE", "REJECTED_SETUP", "FIN"}
    <3>1. \A g \in Range(pipe'[Client]) : \E f \in Range(pipe[Client]) : g.type = f.type
      BY <1>3, <1>4, OlderFacts
    <3>. QED
      BY <3>1 DEF IInv, Wires
  <2>3. \A f \in Range(pipe'[Server]) : f.type \in {"SETUP", "KEEPALIVE", "REQUEST", "FIN"}
    <3>1. \A g \in Range(pipe'[Server]) : \E f \in Range(pipe[Server]) : g.type = f.type
      BY <1>3, <1>4, OlderFacts
    <3>. QED
      BY <3>1 DEF IInv, Wires
  <2>. QED
    BY <1>1, <1>11, <2>1, <2>2, <2>3 DEF IInv, Wires
<1>14. ASSUME NEW p \in Peers, Works', NEW f \in Range(pipe[p])
       PROVE  /\ f.age \in 0 .. Delay
              /\ \E g \in Range(pipe'[p]) : g.type = f.type /\ g.respond = f.respond /\ g.age = f.age + 1
  <2>1. pipe[p] \in Seq(Frames) /\ pipe'[p] = Older(pipe[p])
    BY <1>3, <1>4, TwoPeers
  <2>2. f.age \in 0 .. Delay
    BY <2>1, PipeFrames
  <2>3. f.age < Delay
    <3>1. ~Late(p)
      BY <1>2, <1>14 DEF Works
    <3>2. PICK i \in DOMAIN pipe[p] : f = pipe[p][i]
      BY DEF Range
    <3>3. ~(f.age >= Delay)
      BY <3>1, <3>2 DEF Late
    <3>. QED
      BY ONLY <1>0, <2>2, <3>3
  <2>. QED
    BY <2>1, <2>2, <2>3, OlderFacts
<1>15. Works' => Works
  BY ONLY <1>1, <1>2, Zenon DEF Works
<1>16. ASSUME NEW idle \in Nat, Watched(Client), SendsSoon(idle)
       PROVE  SendsSoon(idle + 1)'
  <2>1. PICK left \in Int : left \in ends[Client].sender.timer /\ idle <= Interval - left
    <3>1. ends[Client].sender.timer \subseteq Int
      BY <1>6, TwoPeers DEF Kept, Senders
    <3>. QED
      BY <1>16, <3>1 DEF SendsSoon
  <2>2. left - 1 \in ends'[Client].sender.timer
    BY <1>8, <1>16, <2>1, TwoPeers
  <2>3. idle + 1 <= Interval - (left - 1)
    BY ONLY <1>0, <2>1, idle \in Nat
  <2>. QED
    BY <2>2, <2>3 DEF SendsSoon
<1>17. ClientHears'
  <2>0. PICK next : next = ends'[Client].handler.idle
    OBVIOUS
  <2>1. SUFFICES ASSUME Works', conn[Client] = "open"
        PROVE  \/ Answered(next)'
               \/ conn[Server] # "closed" /\ (Asks(pipe'[Server], next) \/ SendsSoon(next)')
    BY <1>1, <2>0 DEF ClientHears
  <2>2. Works /\ Watched(Client) /\ held = <<>>
    BY <1>2, <1>15, <2>1, ClientSends DEF Works
  <2>3. PICK idle \in Nat : idle = ends[Client].handler.idle /\ next = idle + 1
    BY <1>8, <2>0, <2>2, TwoPeers DEF IInv, Typed, Handlers
  <2>4. CASE Answered(idle)
    <3>1. PICK f \in Range(pipe[Client]) : idle <= Interval + Lag + Delay + f.age
      BY <2>4 DEF Answered
    <3>2. PICK g \in Range(pipe'[Client]) : g.age = f.age + 1 /\ f.age \in 0 .. Delay
      BY <1>14, <2>1, TwoPeers
    <3>3. idle + 1 <= Interval + Lag + Delay + g.age
      BY ONLY <1>0, <3>1, <3>2, idle \in Nat
    <3>. QED
      BY <2>3, <3>3 DEF Answered
  <2>5. CASE conn[Server] # "closed" /\ Asks(pipe[Server], idle)
    <3>1. PICK f \in Range(pipe[Server]) : f.type = "KEEPALIVE" /\ f.respond /\ idle <= Interval + Lag + f.age
      BY <2>5 DEF Asks
    <3>2. PICK g \in Range(pipe'[Server]) : g.type = f.type /\ g.respond = f.respond /\ g.age = f.age + 1 /\ f.age \in 0 .. Delay
      BY <1>14, <2>1, TwoPeers
    <3>3. idle + 1 <= Interval + Lag + g.age
      BY ONLY <1>0, <3>1, <3>2, idle \in Nat
    <3>. QED
      BY <2>3, <2>5, <3>1, <3>2, <3>3 DEF Asks
  <2>6. CASE conn[Server] # "closed" /\ SendsSoon(idle)
    BY <1>16, <2>2, <2>3, <2>6
  <2>7. ~Asks(held, idle)
    BY <2>2, NoFrame DEF Asks
  <2>. QED
    BY <2>1, <2>2, <2>3, <2>4, <2>5, <2>6, <2>7 DEF IInv, ClientHears
<1>18. ServerHears'
  <2>0. PICK next : next = ends'[Server].handler.idle
    OBVIOUS
  <2>1. SUFFICES ASSUME Works', Watched(Server)
        PROVE  Reached(next)' \/ (conn[Client] = "open" /\ SendsSoon(next)')
    BY <1>1, <2>0 DEF ServerHears, Watched
  <2>2. Works
    BY <1>15, <2>1
  <2>3. PICK idle \in Nat : idle = ends[Server].handler.idle /\ next = idle + 1
    BY <1>8, <2>0, <2>1, TwoPeers DEF IInv, Typed, Handlers
  <2>4. CASE Reached(idle)
    <3>1. PICK f \in Range(pipe[Server]) : f.type # "REQUEST" /\ idle <= Interval + Lag + f.age
      BY <2>4 DEF Reached
    <3>2. PICK g \in Range(pipe'[Server]) : g.type = f.type /\ g.age = f.age + 1 /\ f.age \in 0 .. Delay
      BY <1>14, <2>1, TwoPeers
    <3>3. idle + 1 <= Interval + Lag + g.age
      BY ONLY <1>0, <3>1, <3>2, idle \in Nat
    <3>. QED
      BY <2>3, <3>1, <3>2, <3>3 DEF Reached
  <2>5. CASE conn[Client] = "open" /\ SendsSoon(idle)
    <3>1. Watched(Client)
      BY <2>2, <2>5, ClientSends DEF Works
    <3>. QED
      BY <1>16, <2>3, <2>5, <3>1
  <2>. QED
    BY <2>1, <2>2, <2>3, <2>4, <2>5 DEF IInv, ServerHears
<1>19. Excused'
  <2>1. \A p \in Peers : reason[p] = "keepalive" => cut \/ stalled
    BY DEF IInv, Excused
  <2>. QED
    BY ONLY <1>1, <1>2, <2>1, Zenon DEF Excused
<1>. QED
  BY ONLY <1>9, <1>10, <1>12, <1>13, <1>17, <1>18, <1>19 DEF IInv

\* A step that changes nothing.
LEMMA StutterInvariant ==
  ASSUME IInv, UNCHANGED vars
  PROVE  IInv'
<1>1. UNCHANGED <<config, conn, reason, accepting, installed, responderCloses, ends, pipe,
                  held, cut, stalled, requests, resumes>>
  BY DEF vars
<1>2. Typed' /\ Stages' /\ Wires' /\ Told' /\ Counted'
  BY SMTT(40), <1>1 DEF IInv, Typed, Stages, Wires, Told, Counted, ResumeUnsupported, LeasesDiffer, Ended
<1>3. EndKept(Client)' /\ EndKept(Server)'
  BY <1>1 DEF IInv, EndKept, Watched, Sends
<1>4. ClientHears' /\ ServerHears' /\ Excused'
  BY <1>1 DEF IInv, ClientHears, ServerHears, Excused, Works, Watched, Answered, Reached, Asks, SendsSoon
<1>. QED
  BY <1>2, <1>3, <1>4 DEF IInv

\* Every step of the connection keeps the invariant.
LEMMA StepInvariant ==
  ASSUME KeepAliveAssumption, ConnectionAssumption, IInv, [Next]_vars
  PROVE  IInv'
<1>1. CASE Bind \/ CloseListener
  BY <1>1, BindInvariant
<1>2. CASE Connect
  BY <1>2, ConnectInvariant
<1>3. CASE ConnectFails
  BY <1>3, ConnectFailsInvariant
<1>4. CASE Request
  BY <1>4, RequestInvariant
<1>5. CASE \E n \in 1 .. MaxRequests + 1 : FirstData(n)
  BY <1>5, FirstDataInvariant
<1>6. CASE AcceptorReturns
  BY <1>6, AcceptorReturnsInvariant
<1>7. CASE AcceptorThrows
  BY <1>7, AcceptorThrowsInvariant
<1>8. ASSUME NEW p \in Peers, Handle(p)
      PROVE  IInv'
  BY <1>8, HandleInvariant
<1>9. ASSUME NEW p \in Peers, SendKeepAlive(p)
      PROVE  IInv'
  BY <1>9, SendKeepAliveInvariant
<1>10. ASSUME NEW p \in Peers, TimeoutCheck(p)
       PROVE  IInv'
  BY <1>10, TimeoutCheckInvariant
<1>11. ASSUME NEW p \in Peers, NEW why \in {"application", "socket"}, Close(p, why)
       PROVE  IInv'
  BY <1>11, CloseByItself
<1>12. CASE Cut
  BY <1>12, CutInvariant
<1>13. CASE Resume
  BY <1>13, ResumeInvariant
<1>14. CASE Pass
  BY <1>14, PassInvariant
<1>15. CASE UNCHANGED vars
  BY <1>15, StutterInvariant
<1>. QED
  BY <1>1, <1>2, <1>3, <1>4, <1>5, <1>6, <1>7, <1>8, <1>9, <1>10, <1>11, <1>12, <1>13, <1>14, <1>15
     DEF Next

-----------------------------------------------------------------------------
(* What the connection promises. *)

\* The invariant holds in every state of every connection.
THEOREM Invariant == Spec => []IInv
<1>1. Init => IInv
  BY KeepAliveAssumption, ConnectionAssumption, InitInvariant
<1>2. IInv /\ [Next]_vars => IInv'
  BY KeepAliveAssumption, ConnectionAssumption, StepInvariant
<1>. QED
  BY <1>1, <1>2, PTL DEF Spec

\* Both ends serve a connection only with the same idea of leases and of
\* resumption; a client whose setup is rejected is told so before the socket
\* ends; and the requests it made are handled once it is accepted, none lost
\* and none before.
THEOREM SetupAgreedCorrect == Spec => []SetupAgreed
<1>1. IInv => SetupAgreed
  <2> SUFFICES ASSUME IInv
               PROVE  SetupAgreed
    OBVIOUS
  <2>1. conn[Server] = "open" => config.clientLease = config.serverLease /\ (config.resume => config.sessionStore)
    BY DEF IInv, Stages, LeasesDiffer, ResumeUnsupported
  <2>2. reason[Server] = "REJECTED_SETUP" => reason[Client] # "peer"
    BY DEF IInv, Told
  <2>3. requests.dispatched > 0 => installed[Server]
    BY DEF IInv, Stages
  <2>4. Counted
    BY DEF IInv
  <2>. QED
    BY <2>1, <2>2, <2>3, <2>4, TwoPeers DEF SetupAgreed, Counted
<1>. QED
  BY <1>1, Invariant, PTL

\* Whenever an end closes, before, while or after the acceptor is awaited, no
\* timer of its keepalive is left, and its responder is closed exactly once,
\* with the first connection of the session.
THEOREM CloseIsCompleteCorrect == Spec => []CloseIsComplete
<1>1. IInv => CloseIsComplete
  <2> SUFFICES ASSUME IInv, NEW p \in Peers
               PROVE  /\ conn[p] # "open" => Unarmed(ends[p])
                      /\ responderCloses[p] = IF installed[p] /\ (conn[p] = "closed" \/ resumes > 0) THEN 1 ELSE 0
    BY DEF CloseIsComplete
  <2>1. EndKept(p) /\ ends[p] \in Kept
    BY TwoPeers DEF IInv, Typed, Kept
  <2>2. CASE ~installed[p]
    <3>1. ends[p] = NewEnd /\ responderCloses[p] = 0
      BY <2>1, <2>2 DEF EndKept
    <3>. QED
      BY <2>2, <3>1 DEF NewEnd, NewHandler, NewSender, Unarmed
  <2>3. CASE Watched(p)
    <3>1. responderCloses[p] = 0 /\ conn[p] = "open" /\ resumes = 0
      BY <2>1, <2>3 DEF EndKept, Watched
    <3>. QED
      BY <3>1
  <2>4. CASE installed[p] /\ ~Watched(p)
    <3>1. ClosedEnd(ends[p]) /\ responderCloses[p] = 1
      BY <2>1, <2>4 DEF EndKept
    <3>2. Unarmed(ends[p])
      BY ONLY <2>1, <3>1, KeepAliveAssumption, ClosedFacts
    <3>3. conn[p] \in {"open", "closed"}
      <4>1. conn[p] \in {"none", "open", "closed", "failed"} /\ (p = Client \/ p = Server)
        BY TwoPeers DEF IInv, Typed
      <4>. QED
        BY <2>4, <4>1 DEF IInv, Stages
    <3>4. conn[p] = "closed" \/ resumes > 0
      <4>1. resumes \in Nat
        BY DEF IInv, Typed
      <4>. QED
        BY <2>4, <3>3, <4>1 DEF Watched
    <3>. QED
      BY <2>4, <3>1, <3>2, <3>4
  <2>. QED
    BY <2>2, <2>3, <2>4
<1>. QED
  BY <1>1, Invariant, PTL

\* While the link works and no acceptor keeps frames waiting, keepalive closes
\* no connection; the first connection of a session is watched at both ends
\* from the moment they have their handlers; and no end is without a keepalive
\* frame for longer than a lifetime, a check put off and a late timer.
THEOREM KeepAliveSoundCorrect == Spec => []KeepAliveSound
<1>1. IInv => KeepAliveSound
  <2> SUFFICES ASSUME IInv, NEW p \in Peers
               PROVE  /\ reason[p] = "keepalive" => cut \/ stalled
                      /\ conn[p] = "open" /\ installed[p] /\ resumes = 0 => ends[p].handler.state = "Running"
                      /\ ends[p].handler.idle <= LongestIdle
    BY DEF KeepAliveSound
  <2>1. EndKept(p) /\ ends[p].handler \in Handlers
    BY TwoPeers DEF IInv, Typed
  <2>2. reason[p] = "keepalive" => cut \/ stalled
    BY DEF IInv, Excused
  <2>3. Watched(p) => ends[p].handler.state = "Running" /\ ends[p].handler.idle <= LongestIdle
    <3>1. Watched(p) => Armed(ends[p].handler)
      BY <2>1 DEF EndKept, RunningEnd
    <3>. QED
      BY <2>1, <3>1, KeepAliveAssumption, ArmedFacts DEF Armed
  <2>4. ~installed[p] => ends[p].handler.idle <= LongestIdle
    <3>1. 0 <= LongestIdle
      BY KeepAliveAssumption, Parameters
    <3>. QED
      BY <2>1, <3>1 DEF EndKept, NewEnd, NewHandler
  <2>5. installed[p] /\ ~Watched(p) => ends[p].handler.idle <= LongestIdle
    BY <2>1 DEF EndKept, ClosedEnd
  <2>. QED
    BY <2>2, <2>3, <2>4, <2>5 DEF Watched
<1>. QED
  BY <1>1, Invariant, PTL
=============================================================================
