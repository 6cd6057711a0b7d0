----------------------------- MODULE IpcProofs ------------------------------
(***************************************************************************)
(* Theorems about Ipc, for any number of calls, any limits of queue and wire,   *)
(* and any order of time-outs, answers and ends: a call is given its own       *)
(* answer, once and no window twice; a call that waits is tracked, so that the   *)
(* end of the connection ends it; and the types.                              *)
(***************************************************************************)
EXTENDS Ipc, Integers, TLAPS

Request == [id : Nat, kind : Kinds \ {"update"}] \cup [id : Nat, kind : {"update"}, cfg : Settings]

(* An outcome with a window is a success. *)
Outcome == {r \in [state : {"waits", "ok", "error"}, of : Nat, window : Nat] :
              r.window # 0 => r.state = "ok"}

(* An answer on the wire succeeds under its own id. *)
AnswerFrame == {f \in [type : {"answer"}, id : Nat, result : Outcome, devices : Nat] :
                  f.result.state = "ok" => f.result.of = f.id}
Summary == [n : Nat, cfg : Settings]
Frame == AnswerFrame \cup [type : {"devices"}, value : Nat]
                     \cup [type : {"sessions"}, value : Summary]

TypeInv ==
    /\ asked \in Seq(Request) /\ toDaemon \in Seq(Request) /\ queue \in Seq(Request)
    /\ calls \in Seq(Outcome) /\ toUi \in Seq(Frame) /\ reply \in Outcome
    /\ conn \in [at : {"none", "idle", "queue", "wait", "closed"}, req : Request]
    /\ listed \in Nat /\ nextWindow \in Nat \ {0} /\ devices \in Nat
    /\ session \in Summary /\ page \in Summary
    /\ watched \in [devices : [value : Nat, unseen : BOOLEAN],
                    sessions : [value : Summary, unseen : BOOLEAN]]

(* What Core has replied is for the call that is being served. *)
ReplyOK == reply.state = "ok" => conn.at \in {"wait", "closed"} /\ reply.of = conn.req.id

(* Every outcome there is: with its call, on its way, or with Core's reply. *)
Outcomes == {calls[c] : c \in DOMAIN calls}
            \cup {toUi[i].result : i \in {j \in DOMAIN toUi : toUi[j].type = "answer"}}
            \cup {reply}

(* A window that has been given out was given to one call. *)
WindowsOK ==
    \A x, y \in Outcomes : x.window # 0 =>
        /\ x.window < nextWindow
        /\ x.window = y.window => x.of = y.of

CallsOK == \A c \in DOMAIN calls : calls[c].state = "ok" => calls[c].of = c + FirstId - 1

IpcInv == TypeInv /\ ReplyOK /\ WindowsOK /\ CallsOK

-----------------------------------------------------------------------------
LEMMA ErrorType == Error \in Outcome /\ Waits \in Outcome
BY DEF Error, Waits, Outcome

LEMMA AnswerType ==
    ASSUME NEW id \in Nat, NEW window \in Nat
    PROVE  /\ Answer(id, window) \in Outcome /\ Answer(id, window).of = id
           /\ Answer(id, window).window = window /\ Answer(id, window).state = "ok"
BY DEF Answer, Outcome

(* Outcomes with windows come from where they were: the windows stay in order. *)
LEMMA WindowsKept ==
    ASSUME IpcInv, nextWindow' = nextWindow,
           \A x \in Outcomes' : x.window = 0 \/ x \in Outcomes
    PROVE  WindowsOK'
BY DEF IpcInv, WindowsOK

(* Nothing of the outcomes moves. *)
LEMMA OutcomesStay ==
    ASSUME IpcInv, UNCHANGED <<calls, toUi, reply, conn, nextWindow>>, TypeInv'
    PROVE  IpcInv'
<1>1. ReplyOK' /\ CallsOK'
      BY DEF IpcInv, ReplyOK, CallsOK
<1>2. Outcomes' = Outcomes
      BY DEF Outcomes
<1>3. WindowsOK'
      BY <1>2 DEF IpcInv, WindowsOK
<1>4. QED BY <1>1, <1>3 DEF IpcInv

(* Where the outcomes after a step come from: WindowsKept, place by place. *)
OldOrBare(x) == x.window = 0 \/ x \in Outcomes
CallsOld == \A c \in DOMAIN calls' : OldOrBare(calls'[c])
FramesOld == \A i \in DOMAIN toUi' : toUi'[i].type = "answer" => OldOrBare(toUi'[i].result)

LEMMA OutcomesOld ==
    /\ \A c \in DOMAIN calls : OldOrBare(calls[c])
    /\ \A i \in DOMAIN toUi : toUi[i].type = "answer" => OldOrBare(toUi[i].result)
    /\ OldOrBare(reply)
BY DEF Outcomes, OldOrBare

LEMMA WindowsStay ==
    ASSUME IpcInv, nextWindow' = nextWindow, CallsOld, FramesOld, OldOrBare(reply')
    PROVE  WindowsOK'
<1>1. \A x \in Outcomes' : x.window = 0 \/ x \in Outcomes
      BY DEF Outcomes, CallsOld, FramesOld, OldOrBare
<1>2. QED BY <1>1, WindowsKept

(* An answer is sent: the frame is typed, and its outcome is not new. *)
LEMMA SaysOK ==
    ASSUME IpcInv, NEW id \in Nat, NEW result \in Outcome, Says(id, result), OldOrBare(result),
           result.state = "ok" => result.of = id
    PROVE  /\ toUi' \in Seq(Frame) /\ FramesOld
           /\ conn' \in [at : {"none", "idle", "queue", "wait", "closed"}, req : Request]
           /\ conn'.at = "idle"
<1> DEFINE f == Respond(id, result)
<1>1. toUi \in Seq(Frame) /\ watched.devices.value \in Nat
      BY DEF IpcInv, TypeInv
<1>2. f \in Frame /\ f.type = "answer" /\ f.result = result
      BY <1>1 DEF Respond, Frame, AnswerFrame
<1>3. toUi' = Append(toUi, f) /\ conn' = AtRest
      BY DEF Says
<1> HIDE DEF f
<1>4. toUi' \in Seq(Frame)
      BY <1>1, <1>2, <1>3
<1>5. \A i \in DOMAIN toUi' : toUi'[i] = f \/ (i \in DOMAIN toUi /\ toUi'[i] = toUi[i])
      BY <1>1, <1>2, <1>3
<1>6. FramesOld
      BY <1>2, <1>5, OutcomesOld DEF FramesOld
<1>7. /\ conn' \in [at : {"none", "idle", "queue", "wait", "closed"}, req : Request]
      /\ conn'.at = "idle"
      BY <1>3 DEF AtRest, Handshake, Request, Kinds
<1>8. QED BY <1>4, <1>6, <1>7

-----------------------------------------------------------------------------
(* The UI.                                                                  *)

LEMMA InvokeInv ==
    ASSUME IpcInv, NEW req \in Request, Invoke(req), page' \in Summary
    PROVE  IpcInv'
<1>1. calls \in Seq(Outcome) /\ asked \in Seq(Request)
      BY DEF IpcInv, TypeInv
<1>2. PICK r \in {Waits, Error} : calls' = Append(calls, r)
      BY DEF Invoke
<1>3. /\ asked' \in Seq(Request)
      /\ UNCHANGED <<toDaemon, toUi, conn, queue, reply, core, listed, devices, session, watched, nextWindow>>
  <2>1. asked' = asked \/ asked' = Append(asked, req)
        BY DEF Invoke
  <2>2. asked' \in Seq(Request)
        BY <1>1, <2>1
  <2>3. UNCHANGED <<wires, daemon>>
        BY DEF Invoke
  <2>4. QED BY <2>2, <2>3 DEF wires, daemon
<1>4. r \in Outcome /\ r.window = 0 /\ r.state # "ok"
      BY ErrorType DEF Waits, Error
<1>5. /\ calls' \in Seq(Outcome)
      /\ \A c \in DOMAIN calls' : calls'[c] = r \/ (c \in DOMAIN calls /\ calls'[c] = calls[c])
      BY <1>1, <1>2, <1>4
<1>6. TypeInv'
      BY <1>3, <1>5 DEF IpcInv, TypeInv
<1>7. ReplyOK' /\ CallsOK'
      BY <1>3, <1>4, <1>5 DEF IpcInv, ReplyOK, CallsOK
<1>8. CallsOld /\ FramesOld /\ OldOrBare(reply')
      BY <1>3, <1>4, <1>5, OutcomesOld DEF CallsOld, FramesOld, OldOrBare
<1>9. WindowsOK'
      BY <1>3, <1>8, WindowsStay
<1>10. QED BY <1>6, <1>7, <1>9 DEF IpcInv

LEMMA FreshType ==
    ASSUME IpcInv
    PROVE  Fresh \in Nat
BY DEF IpcInv, TypeInv, Fresh, FirstId

LEMMA AsksInv ==
    ASSUME IpcInv, NEW kind \in {"query", "list", "open"}, Asks(kind)
    PROVE  IpcInv'
<1>1. [id |-> Fresh, kind |-> kind] \in Request
      BY FreshType DEF Request, Kinds
<1>2. page' \in Summary
      BY DEF Asks, IpcInv, TypeInv
<1>3. QED BY <1>1, <1>2, InvokeInv DEF Asks

LEMMA SwitchesInv ==
    ASSUME IpcInv, NEW o \in Options, Switches(o)
    PROVE  IpcInv'
<1> DEFINE cfg == [page.cfg EXCEPT ![o] = ~@]
<1>1. page \in Summary /\ page.cfg \in Settings
      BY DEF IpcInv, TypeInv, Summary
<1>2. cfg \in Settings
      BY <1>1 DEF Settings
<1>3. page' = [page EXCEPT !.cfg = cfg] /\ Invoke([id |-> Fresh, kind |-> "update", cfg |-> cfg])
      BY DEF Switches
<1> HIDE DEF cfg
<1>4. page' \in Summary
      BY <1>1, <1>2, <1>3 DEF Summary
<1>5. [id |-> Fresh, kind |-> "update", cfg |-> cfg] \in Request
      BY <1>2, FreshType DEF Request, Kinds
<1>6. QED BY <1>3, <1>4, <1>5, InvokeInv

LEMMA ConnectInv ==
    ASSUME IpcInv, Connect \/ CannotConnect
    PROVE  IpcInv'
<1>1. Handshake \in Seq(Request)
      BY DEF Handshake, Request, Kinds
<1>2. TypeInv'
      BY <1>1 DEF Connect, CannotConnect, IpcInv, TypeInv, daemon, wires
<1>3. UNCHANGED <<calls, toUi, reply, conn, nextWindow>>
      BY DEF Connect, CannotConnect, daemon, wires
<1>4. QED BY <1>2, <1>3, OutcomesStay

LEMMA FunctionSeq ==
    ASSUME NEW S, NEW n \in Nat, NEW f \in [1..n -> S]
    PROVE  f \in Seq(S)
OBVIOUS

(* One call is given an outcome. *)
LEMMA CallsSet ==
    ASSUME IpcInv, NEW id \in Nat, NEW r \in Outcome, calls' = [calls EXCEPT ![id - FirstId + 1] = r],
           r.state = "ok" => r.of = id, OldOrBare(r)
    PROVE  calls' \in Seq(Outcome) /\ CallsOK' /\ CallsOld
<1> DEFINE c == id - FirstId + 1
<1>1. calls \in Seq(Outcome)
      BY DEF IpcInv, TypeInv
<1>2. calls' \in Seq(Outcome) /\ DOMAIN calls' = DOMAIN calls
  <2>1. DOMAIN calls = 1..Len(calls) /\ Len(calls) \in Nat
        BY <1>1
  <2>2. DOMAIN calls' = DOMAIN calls
        OBVIOUS
  <2>3. \A i \in DOMAIN calls : calls'[i] \in Outcome
        BY <1>1
  <2>4. calls' = [i \in DOMAIN calls |-> calls'[i]]
        OBVIOUS
  <2>5. calls' = [i \in 1..Len(calls) |-> calls'[i]]
        BY <2>1, <2>4
  <2>6. calls' \in [1..Len(calls) -> Outcome]
        BY <2>1, <2>3, <2>5
  <2>7. calls' \in Seq(Outcome)
        BY <2>1, <2>6, FunctionSeq
  <2>8. QED BY <2>2, <2>7
<1>3. \A d \in DOMAIN calls : IF d = c THEN calls'[d] = r ELSE calls'[d] = calls[d]
      BY <1>1
<1>4. c + FirstId - 1 = id
      BY DEF FirstId
<1> HIDE DEF c
<1>5. CallsOK'
      BY <1>2, <1>3, <1>4 DEF IpcInv, CallsOK
<1>6. CallsOld
      BY <1>2, <1>3, OutcomesOld DEF CallsOld
<1>7. QED BY <1>2, <1>5, <1>6

LEMMA UiSendsInv ==
    ASSUME IpcInv, UiSends
    PROVE  IpcInv'
<1> DEFINE r == Head(asked)
<1>1. asked # <<>> /\ asked' = Tail(asked) /\ asked \in Seq(Request) /\ toDaemon \in Seq(Request)
      BY DEF UiSends, IpcInv, TypeInv
<1>2. r \in Request /\ asked' \in Seq(Request)
      BY <1>1
<1>3. r.id \in Nat
      BY <1>2 DEF Request
<1>4. UNCHANGED <<page, toUi, conn, queue, reply, core, listed, devices, session, watched, nextWindow>>
      BY DEF UiSends, daemon
<1>5. \/ UNCHANGED calls /\ (toDaemon' = toDaemon \/ toDaemon' = Append(toDaemon, r))
      \/ calls' = [calls EXCEPT ![r.id - FirstId + 1] = Error] /\ UNCHANGED toDaemon
      BY DEF UiSends
<1> HIDE DEF r
<1>6. toDaemon' \in Seq(Request)
  <2>1. CASE toDaemon' = toDaemon
        BY <1>1, <2>1
  <2>2. CASE toDaemon' = Append(toDaemon, r)
        BY <1>1, <1>2, <2>2
  <2>3. QED BY <1>5, <2>1, <2>2
<1>7. CASE UNCHANGED calls
  <2>1. TypeInv'
        BY <1>2, <1>4, <1>6, <1>7 DEF IpcInv, TypeInv
  <2>2. QED BY <1>4, <1>7, <2>1, OutcomesStay
<1>8. CASE calls' = [calls EXCEPT ![r.id - FirstId + 1] = Error]
  <2>1. Error \in Outcome /\ Error.state # "ok" /\ OldOrBare(Error)
        BY ErrorType DEF Error, OldOrBare
  <2>2. calls' \in Seq(Outcome) /\ CallsOK' /\ CallsOld
        BY <1>3, <1>8, <2>1, CallsSet
  <2>3. TypeInv'
        BY <1>2, <1>4, <1>6, <2>2 DEF IpcInv, TypeInv
  <2>4. FramesOld /\ OldOrBare(reply')
        BY <1>4, OutcomesOld DEF FramesOld
  <2>5. WindowsOK' /\ ReplyOK'
        BY <1>4, <2>2, <2>4, WindowsStay DEF IpcInv, ReplyOK
  <2>6. QED BY <2>2, <2>3, <2>5 DEF IpcInv
<1>9. QED BY <1>5, <1>7, <1>8

LEMMA UiReadsInv ==
    ASSUME IpcInv, UiReads
    PROVE  IpcInv'
<1> DEFINE f == Head(toUi)
<1>1. toUi # <<>> /\ toUi' = Tail(toUi) /\ toUi \in Seq(Frame)
      BY DEF UiReads, IpcInv, TypeInv
<1>2. f \in Frame /\ f = toUi[1] /\ 1 \in DOMAIN toUi
      BY <1>1
<1>3. /\ toUi' \in Seq(Frame)
      /\ \A i \in DOMAIN toUi' : i + 1 \in DOMAIN toUi /\ toUi'[i] = toUi[i + 1]
      BY <1>1
<1>4. /\ UNCHANGED <<asked, toDaemon, conn, queue, reply, core, listed, devices, session, watched, nextWindow>>
      /\ \/ /\ f.type = "answer" /\ calls' = [calls EXCEPT ![f.id - FirstId + 1] = f.result]
            /\ UNCHANGED page
         \/ UNCHANGED <<calls, page>>
         \/ f.type = "sessions" /\ page' = f.value /\ UNCHANGED calls
  <2>1. f.type \in {"answer", "devices", "sessions"}
        BY <1>2 DEF Frame, AnswerFrame
  <2>2. QED BY <2>1 DEF UiReads, daemon
<1> HIDE DEF f
<1>5. page' \in Summary
  <2>1. CASE f.type = "sessions" /\ page' = f.value
        BY <1>2, <2>1 DEF Frame, AnswerFrame
  <2>2. QED BY <1>4, <2>1 DEF IpcInv, TypeInv
<1>6. calls' \in Seq(Outcome) /\ CallsOK' /\ CallsOld
  <2>1. CASE f.type = "answer" /\ calls' = [calls EXCEPT ![f.id - FirstId + 1] = f.result]
    <3>1. f.id \in Nat /\ f.result \in Outcome /\ (f.result.state = "ok" => f.result.of = f.id)
          BY <1>2, <2>1 DEF Frame, AnswerFrame
    <3>2. OldOrBare(f.result)
          BY <1>2, <2>1, OutcomesOld
    <3>3. QED BY <2>1, <3>1, <3>2, CallsSet
  <2>2. CASE UNCHANGED calls
        BY <2>2, OutcomesOld DEF IpcInv, TypeInv, CallsOK, CallsOld
  <2>3. QED BY <1>4, <2>1, <2>2
<1>7. TypeInv'
      BY <1>3, <1>4, <1>5, <1>6 DEF IpcInv, TypeInv
<1>8. FramesOld /\ OldOrBare(reply')
      BY <1>3, <1>4, OutcomesOld DEF FramesOld
<1>9. WindowsOK' /\ ReplyOK'
      BY <1>4, <1>6, <1>8, WindowsStay DEF IpcInv, ReplyOK
<1>10. QED BY <1>6, <1>7, <1>9 DEF IpcInv

LEMMA UiLosesInv ==
    ASSUME IpcInv, UiLoses
    PROVE  IpcInv'
<1>1. /\ asked' = <<>>
      /\ UNCHANGED <<page, toDaemon, toUi, conn, queue, reply, core, listed, devices, session, watched, nextWindow>>
      BY DEF UiLoses, wires, daemon
<1>2. calls \in Seq(Outcome)
      BY DEF IpcInv, TypeInv
<1>3. DOMAIN calls' = DOMAIN calls /\ \A c \in DOMAIN calls : calls'[c] \in {Error, calls[c]}
      BY DEF UiLoses
<1>4. calls' \in Seq(Outcome)
  <2>1. DOMAIN calls = 1..Len(calls) /\ Len(calls) \in Nat
        BY <1>2
  <2>2. \A c \in 1..Len(calls) : calls'[c] \in Outcome
        BY <1>2, <1>3, <2>1, ErrorType
  <2>3. calls' = [c \in 1..Len(calls) |-> calls'[c]]
        BY <2>1 DEF UiLoses
  <2>4. calls' \in [1..Len(calls) -> Outcome]
        BY <2>2, <2>3
  <2>5. QED BY <2>1, <2>4
<1>5. Error.state # "ok" /\ OldOrBare(Error)
      BY DEF Error, OldOrBare
<1>6. CallsOK' /\ CallsOld
      BY <1>3, <1>5, OutcomesOld DEF IpcInv, CallsOK, CallsOld
<1>7. TypeInv'
  <2>1. <<>> \in Seq(Request)
        OBVIOUS
  <2>2. QED BY <1>1, <1>4, <2>1 DEF IpcInv, TypeInv
<1>8. FramesOld /\ OldOrBare(reply')
      BY <1>1, OutcomesOld DEF FramesOld
<1>9. WindowsOK' /\ ReplyOK'
      BY <1>1, <1>6, <1>8, WindowsStay DEF IpcInv, ReplyOK
<1>10. QED BY <1>6, <1>7, <1>9 DEF IpcInv

-----------------------------------------------------------------------------
(* The daemon's task.                                                       *)

(* An answer is sent, and no reply of Core's is left. *)
LEMMA SaysInv ==
    ASSUME IpcInv, NEW id \in Nat, NEW result \in Outcome, Says(id, result), OldOrBare(result),
           result.state = "ok" => result.of = id,
           UNCHANGED <<calls, nextWindow>>, reply' \in {reply, Waits}, reply'.state # "ok"
    PROVE  /\ toUi' \in Seq(Frame) /\ reply' \in Outcome
           /\ conn' \in [at : {"none", "idle", "queue", "wait", "closed"}, req : Request]
           /\ ReplyOK' /\ WindowsOK' /\ CallsOK'
<1>1. /\ toUi' \in Seq(Frame) /\ FramesOld
      /\ conn' \in [at : {"none", "idle", "queue", "wait", "closed"}, req : Request]
      BY SaysOK
<1>2. reply' \in Outcome /\ OldOrBare(reply')
      BY ErrorType, OutcomesOld DEF IpcInv, TypeInv, OldOrBare, Waits
<1>3. CallsOld /\ CallsOK'
      BY OutcomesOld DEF CallsOld, CallsOK, IpcInv
<1>4. WindowsOK'
      BY <1>1, <1>2, <1>3, WindowsStay
<1>5. QED BY <1>1, <1>2, <1>3, <1>4 DEF ReplyOK

LEMMA AcceptInv ==
    ASSUME IpcInv, Accept
    PROVE  IpcInv'
<1>1. /\ UNCHANGED <<asked, toDaemon, toUi, queue, calls, reply, listed, nextWindow, devices, session, page, watched>>
      /\ conn.at = "none" /\ conn' = AtRest
      BY DEF Accept, ui, wires, Unread
<1>2. conn' \in [at : {"none", "idle", "queue", "wait", "closed"}, req : Request]
      BY <1>1 DEF AtRest, Handshake, Request, Kinds
<1>3. TypeInv'
      BY <1>1, <1>2 DEF IpcInv, TypeInv
<1>4. reply.state # "ok"
      BY <1>1 DEF IpcInv, ReplyOK
<1>5. ReplyOK' /\ CallsOK'
      BY <1>1, <1>4 DEF ReplyOK, CallsOK, IpcInv
<1>6. Outcomes' = Outcomes
      BY <1>1 DEF Outcomes
<1>7. WindowsOK'
      BY <1>1, <1>6 DEF IpcInv, WindowsOK
<1>8. QED BY <1>3, <1>5, <1>7 DEF IpcInv

LEMMA TakeRequestInv ==
    ASSUME IpcInv, TakeRequest
    PROVE  IpcInv'
<1> DEFINE r == Head(toDaemon)
<1>1. toDaemon # <<>> /\ toDaemon' = Tail(toDaemon) /\ toDaemon \in Seq(Request) /\ conn.at = "idle"
      BY DEF TakeRequest, IpcInv, TypeInv
<1>2. r \in Request /\ toDaemon' \in Seq(Request)
      BY <1>1
<1>3. r.id \in Nat
      BY <1>2 DEF Request
<1>4. UNCHANGED <<asked, calls, page, queue, reply, core, listed, devices, session, watched, nextWindow>>
      BY DEF TakeRequest, ui
<1>5. \/ Says(r.id, Answer(r.id, 0))
      \/ conn' = [at |-> "queue", req |-> r] /\ UNCHANGED toUi
      BY DEF TakeRequest
<1> HIDE DEF r
<1>6. reply.state # "ok"
      BY <1>1 DEF IpcInv, ReplyOK
<1>7. CASE Says(r.id, Answer(r.id, 0))
  <2> DEFINE a == Answer(r.id, 0)
  <2>1. a \in Outcome /\ a.of = r.id /\ a.window = 0
        BY <1>3, AnswerType
  <2> HIDE DEF a
  <2>2. Says(r.id, a)
        BY <1>7 DEF a
  <2>3. OldOrBare(a)
        BY <2>1 DEF OldOrBare
  <2>4. /\ toUi' \in Seq(Frame) /\ reply' \in Outcome
        /\ conn' \in [at : {"none", "idle", "queue", "wait", "closed"}, req : Request]
        /\ ReplyOK' /\ WindowsOK' /\ CallsOK'
        BY <1>3, <1>4, <1>6, <2>1, <2>2, <2>3, SaysInv
  <2>5. TypeInv'
        BY <1>2, <1>4, <2>4 DEF IpcInv, TypeInv
  <2>6. QED BY <2>4, <2>5 DEF IpcInv
<1>8. CASE conn' = [at |-> "queue", req |-> r] /\ UNCHANGED toUi
  <2>1. TypeInv'
        BY <1>2, <1>4, <1>8 DEF IpcInv, TypeInv
  <2>2. ReplyOK' /\ CallsOK'
        BY <1>4, <1>6 DEF ReplyOK, CallsOK, IpcInv
  <2>3. Outcomes' = Outcomes
        BY <1>4, <1>8 DEF Outcomes
  <2>4. WindowsOK'
        BY <1>4, <2>3 DEF IpcInv, WindowsOK
  <2>5. QED BY <2>1, <2>2, <2>4 DEF IpcInv
<1>9. QED BY <1>5, <1>7, <1>8

LEMMA EnqueueInv ==
    ASSUME IpcInv, Enqueue
    PROVE  IpcInv'
<1>1. /\ conn.at = "queue" /\ conn.req \in Request /\ queue \in Seq(Request)
      /\ conn \in [at : {"none", "idle", "queue", "wait", "closed"}, req : Request]
      BY DEF Enqueue, IpcInv, TypeInv
<1>2. conn.req.id \in Nat
      BY <1>1 DEF Request
<1>3. UNCHANGED <<asked, calls, page, toDaemon, core, listed, devices, session, watched, nextWindow>>
      BY DEF Enqueue, ui
<1>4. reply.state # "ok"
      BY <1>1 DEF IpcInv, ReplyOK
<1>5. CASE Says(conn.req.id, Error) /\ UNCHANGED <<queue, reply>>
  <2>1. Error \in Outcome /\ Error.state # "ok" /\ OldOrBare(Error)
        BY ErrorType DEF Error, OldOrBare
  <2>2. /\ toUi' \in Seq(Frame) /\ reply' \in Outcome
        /\ conn' \in [at : {"none", "idle", "queue", "wait", "closed"}, req : Request]
        /\ ReplyOK' /\ WindowsOK' /\ CallsOK'
        BY <1>2, <1>3, <1>4, <1>5, <2>1, SaysInv
  <2>3. TypeInv'
        BY <1>3, <1>5, <2>2 DEF IpcInv, TypeInv
  <2>4. QED BY <2>2, <2>3 DEF IpcInv
<1>6. CASE /\ queue' = Append(queue, conn.req) /\ conn' = [conn EXCEPT !.at = "wait"]
           /\ reply' = IF conn.req.kind = "update" THEN Answer(conn.req.id, 0) ELSE reply
           /\ UNCHANGED toUi
  <2> DEFINE a == Answer(conn.req.id, 0)
  <2>1. a \in Outcome /\ a.of = conn.req.id /\ a.window = 0
        BY <1>2, AnswerType
  <2> HIDE DEF a
  <2>2. reply' \in {a, reply}
        BY <1>6 DEF a
  <2>3. queue' \in Seq(Request)
        BY <1>1, <1>6
  <2>4. /\ conn' \in [at : {"none", "idle", "queue", "wait", "closed"}, req : Request]
        /\ conn'.at = "wait" /\ conn'.req = conn.req
        BY <1>1, <1>6
  <2>5. TypeInv'
        BY <1>3, <1>6, <2>1, <2>2, <2>3, <2>4 DEF IpcInv, TypeInv
  <2>6. ReplyOK' /\ CallsOK'
        BY <1>3, <1>4, <2>1, <2>2, <2>4 DEF ReplyOK, CallsOK, IpcInv
  <2>7. CallsOld /\ FramesOld /\ OldOrBare(reply')
        BY <1>3, <1>6, <2>1, <2>2, OutcomesOld DEF CallsOld, FramesOld, OldOrBare
  <2>8. WindowsOK'
        BY <1>3, <2>7, WindowsStay
  <2>9. QED BY <2>5, <2>6, <2>8 DEF IpcInv
<1>7. QED BY <1>5, <1>6 DEF Enqueue

LEMMA RelayInv ==
    ASSUME IpcInv, Relay \/ TimesOut
    PROVE  IpcInv'
<1>1. conn.req \in Request /\ conn.at = "wait" /\ reply \in Outcome
      BY DEF Relay, TimesOut, IpcInv, TypeInv
<1>2. conn.req.id \in Nat
      BY <1>1 DEF Request
<1>3. UNCHANGED <<asked, calls, page, toDaemon, queue, core, listed, devices, session, watched, nextWindow>>
      BY DEF Relay, TimesOut, ui
<1>4. PICK x \in {reply, Error} : Says(conn.req.id, x)
      BY DEF Relay, TimesOut
<1>5. reply' = Waits /\ reply'.state # "ok"
      BY DEF Relay, TimesOut, Waits
<1>6. x \in Outcome /\ OldOrBare(x) /\ (x.state = "ok" => x.of = conn.req.id)
      BY <1>1, ErrorType, OutcomesOld DEF Error, OldOrBare, IpcInv, ReplyOK
<1>7. /\ toUi' \in Seq(Frame) /\ reply' \in Outcome
      /\ conn' \in [at : {"none", "idle", "queue", "wait", "closed"}, req : Request]
      /\ ReplyOK' /\ WindowsOK' /\ CallsOK'
      BY <1>2, <1>3, <1>4, <1>5, <1>6, SaysInv
<1>8. TypeInv'
      BY <1>3, <1>7 DEF IpcInv, TypeInv
<1>9. QED BY <1>7, <1>8 DEF IpcInv

LEMMA SendEventInv ==
    ASSUME IpcInv, NEW w \in {"devices", "sessions"}, SendEvent(w)
    PROVE  IpcInv'
<1> DEFINE f == [type |-> w, value |-> watched[w].value]
<1>1. /\ toUi \in Seq(Frame)
      /\ watched \in [devices : [value : Nat, unseen : BOOLEAN],
                      sessions : [value : Summary, unseen : BOOLEAN]]
      BY DEF IpcInv, TypeInv
<1>2. f \in Frame /\ f.type # "answer"
      BY <1>1 DEF Frame
<1>3. toUi' = Append(toUi, f) /\ watched' = [watched EXCEPT ![w].unseen = FALSE]
      BY DEF SendEvent
<1> HIDE DEF f
<1>4. /\ toUi' \in Seq(Frame)
      /\ \A i \in DOMAIN toUi' : toUi'[i] = f \/ (i \in DOMAIN toUi /\ toUi'[i] = toUi[i])
      BY <1>1, <1>2, <1>3
<1>5. watched' \in [devices : [value : Nat, unseen : BOOLEAN],
                   sessions : [value : Summary, unseen : BOOLEAN]]
  <2>1. CASE w = "devices"
        BY <1>1, <1>3, <2>1
  <2>2. CASE w = "sessions"
        BY <1>1, <1>3, <2>2
  <2>3. QED BY <2>1, <2>2
<1>6. UNCHANGED <<asked, calls, page, toDaemon, conn, queue, reply, core, listed, devices, session, nextWindow>>
      BY DEF SendEvent, ui
<1>7. TypeInv'
      BY <1>4, <1>5, <1>6 DEF IpcInv, TypeInv
<1>8. CallsOld /\ FramesOld /\ OldOrBare(reply')
      BY <1>2, <1>4, <1>6, OutcomesOld DEF CallsOld, FramesOld
<1>9. WindowsOK'
      BY <1>6, <1>8, WindowsStay
<1>10. ReplyOK' /\ CallsOK'
      BY <1>6 DEF ReplyOK, CallsOK, IpcInv
<1>11. QED BY <1>7, <1>9, <1>10 DEF IpcInv

-----------------------------------------------------------------------------
(* The ends: the connection's, Core's, the process's.                        *)

(* What is left of a wire that ends.                                        *)
LEMMA Shorter ==
    ASSUME NEW A, NEW s \in Seq(A), NEW n \in 0..Len(s)
    PROVE  /\ SubSeq(s, 1, n) \in Seq(A)
           /\ \A i \in DOMAIN SubSeq(s, 1, n) : i \in DOMAIN s /\ SubSeq(s, 1, n)[i] = s[i]
OBVIOUS

(* Frames and Core's reply may be dropped, and the connection may close. *)
LEMMA EndsInv ==
    ASSUME IpcInv, UNCHANGED <<asked, calls, page, listed, devices, session, watched, nextWindow>>,
           toDaemon' \in {toDaemon, <<>>}, queue' \in {queue, <<>>},
           toUi' = toUi \/ \E n \in 0..Len(toUi) : toUi' = SubSeq(toUi, 1, n),
           reply' \in {reply, Error}, conn' \in {conn, [conn EXCEPT !.at = "closed"]}
    PROVE  IpcInv'
<1>1. conn \in [at : {"none", "idle", "queue", "wait", "closed"}, req : Request]
      BY DEF IpcInv, TypeInv
<1>2. /\ conn' \in [at : {"none", "idle", "queue", "wait", "closed"}, req : Request]
      /\ conn'.req = conn.req /\ conn'.at \in {conn.at, "closed"}
      BY <1>1
<1>3. /\ <<>> \in Seq(Request) /\ toUi' \in Seq(Frame)
      /\ \A i \in DOMAIN toUi' : i \in DOMAIN toUi /\ toUi'[i] = toUi[i]
      <2>1. toUi \in Seq(Frame) /\ <<>> \in Seq(Request)
            BY DEF IpcInv, TypeInv
      <2>2. CASE toUi' = toUi
            BY <2>1, <2>2
      <2>3. ASSUME NEW n \in 0..Len(toUi), toUi' = SubSeq(toUi, 1, n)
            PROVE  /\ toUi' \in Seq(Frame)
                   /\ \A i \in DOMAIN toUi' : i \in DOMAIN toUi /\ toUi'[i] = toUi[i]
            BY <2>1, <2>3, Shorter
      <2>4. QED BY <2>1, <2>2, <2>3
<1>4. TypeInv'
      BY <1>2, <1>3, ErrorType DEF IpcInv, TypeInv
<1>5. ReplyOK' /\ CallsOK'
      BY <1>2 DEF IpcInv, ReplyOK, CallsOK, Error
<1>6. CallsOld /\ FramesOld /\ OldOrBare(reply')
      BY <1>3, OutcomesOld DEF CallsOld, FramesOld, OldOrBare, Error
<1>7. WindowsOK'
      BY <1>6, WindowsStay
<1>8. QED BY <1>4, <1>5, <1>7 DEF IpcInv

LEMMA ClosesInv ==
    ASSUME IpcInv, Closes \/ Quit \/ Dies
    PROVE  IpcInv'
<1>1. UNCHANGED <<asked, calls, page, listed, devices, session, watched, nextWindow>>
      BY DEF Closes, Quit, Dies, ui
<1>2. /\ toDaemon' \in {toDaemon, <<>>}
      /\ toUi' = toUi \/ \E n \in 0..Len(toUi) : toUi' = SubSeq(toUi, 1, n)
      BY DEF Closes, Quit, Dies, Ends, wires
<1>3. queue' \in {queue, <<>>} /\ reply' \in {reply, Error}
      BY DEF Closes, Quit, Dies
<1>4. conn' \in {conn, [conn EXCEPT !.at = "closed"]}
      BY DEF Closes, Quit, Dies, Ends
<1>5. QED BY <1>1, <1>2, <1>3, <1>4, EndsInv

-----------------------------------------------------------------------------
(* Core.                                                                    *)

LEMMA RepliedOK ==
    ASSUME IpcInv, NEW id \in Nat, NEW result \in Outcome, Replied(id, result), UNCHANGED conn,
           result.state = "ok" => result.of = id
    PROVE  reply' \in Outcome /\ reply' \in {reply, result} /\ ReplyOK'
<1>1. CASE conn.at = "wait" /\ conn.req.id = id
      BY <1>1 DEF Replied, ReplyOK
<1>2. CASE ~(conn.at = "wait" /\ conn.req.id = id)
      BY <1>2 DEF Replied, ReplyOK, IpcInv, TypeInv
<1>3. QED BY <1>1, <1>2

(* A window is numbered above all there are. *)
LEMMA WindowsGrow ==
    ASSUME IpcInv, NEW id \in Nat, nextWindow' = nextWindow + 1, UNCHANGED <<calls, toUi>>,
           reply' \in {reply, Answer(id, nextWindow)}
    PROVE  WindowsOK'
<1> DEFINE a == Answer(id, nextWindow)
<1>1. nextWindow \in Nat \ {0} /\ calls \in Seq(Outcome) /\ toUi \in Seq(Frame) /\ reply \in Outcome
      BY DEF IpcInv, TypeInv
<1>2. a.window = nextWindow
      BY DEF Answer
<1> HIDE DEF a
<1>3. \A x \in Outcomes' : x \in Outcomes \/ x = a
      BY DEF Outcomes, a
<1>4. \A x \in Outcomes : x.window \in Nat
  <2>1. \A i \in DOMAIN toUi : toUi[i].type = "answer" => toUi[i].result \in Outcome
        BY <1>1 DEF Frame, AnswerFrame
  <2>2. \A c \in DOMAIN calls : calls[c] \in Outcome
        BY <1>1
  <2>3. QED BY <1>1, <2>1, <2>2 DEF Outcomes, Outcome
<1>5. \A x \in Outcomes : x.window # 0 => x.window < nextWindow
      BY DEF IpcInv, WindowsOK
<1>6. ASSUME NEW x \in Outcomes', NEW y \in Outcomes', x.window # 0
      PROVE  x.window < nextWindow' /\ (x.window = y.window => x.of = y.of)
  <2>1. CASE x \in Outcomes /\ y \in Outcomes
        BY <1>1, <1>4, <1>5, <1>6, <2>1 DEF IpcInv, WindowsOK
  <2>2. CASE x = a /\ y = a
        BY <1>1, <1>2, <2>2
  <2>3. CASE x \in Outcomes /\ y = a
        BY <1>1, <1>2, <1>4, <1>5, <1>6, <2>3
  <2>4. CASE x = a /\ y \in Outcomes
        BY <1>1, <1>2, <1>4, <1>5, <2>4
  <2>5. QED BY <1>3, <2>1, <2>2, <2>3, <2>4
<1>7. QED BY <1>6 DEF WindowsOK

(* No window, no new order. *)
LEMMA ReplyStays ==
    ASSUME IpcInv, UNCHANGED <<calls, toUi, nextWindow>>, OldOrBare(reply')
    PROVE  WindowsOK'
<1>1. CallsOld /\ FramesOld
      BY OutcomesOld DEF CallsOld, FramesOld
<1>2. QED BY <1>1, WindowsStay

LEMMA BareAnswer ==
    ASSUME NEW id \in Nat, NEW x \in {Error, Answer(id, 0)}
    PROVE  x \in Outcome /\ OldOrBare(x) /\ (x.state = "ok" => x.of = id)
BY ErrorType, AnswerType DEF Error, OldOrBare

LEMMA HandleInv ==
    ASSUME IpcInv, Handle
    PROVE  IpcInv'
<1> DEFINE r == Head(queue)
<1>1. queue # <<>> /\ queue' = Tail(queue) /\ queue \in Seq(Request)
      BY DEF Handle, IpcInv, TypeInv
<1>2. r \in Request /\ queue' \in Seq(Request)
      BY <1>1
<1>3. r.id \in Nat
      BY <1>2 DEF Request
<1>4. UNCHANGED <<asked, calls, page, toDaemon, toUi, conn, devices, watched>>
      BY DEF Handle, ui, wires
<1>5. nextWindow \in Nat \ {0} /\ reply \in Outcome /\ session \in Summary
      BY DEF IpcInv, TypeInv
<1>6. \/ session' = [session EXCEPT !.cfg = r.cfg] /\ r.kind = "update" /\ UNCHANGED <<reply, listed, nextWindow>>
      \/ listed' = r.id /\ UNCHANGED <<reply, session, nextWindow>>
      \/ /\ \E x \in {Error, Answer(r.id, 0)} : Replied(r.id, x)
         /\ UNCHANGED <<listed, session, nextWindow>>
      \/ /\ Replied(r.id, Answer(r.id, nextWindow)) /\ nextWindow' = nextWindow + 1
         /\ UNCHANGED <<listed, session>>
      BY DEF Handle
<1> HIDE DEF r
<1>7. CallsOK'
      BY <1>4 DEF IpcInv, CallsOK
<1>8. OldOrBare(reply)
      BY OutcomesOld
<1>9. CASE listed' = r.id /\ UNCHANGED <<reply, session, nextWindow>>
  <2>1. TypeInv'
        BY <1>2, <1>3, <1>4, <1>9 DEF IpcInv, TypeInv
  <2>2. QED BY <1>4, <1>9, <2>1, OutcomesStay
<1>10. CASE /\ \E x \in {Error, Answer(r.id, 0)} : Replied(r.id, x)
            /\ UNCHANGED <<listed, session, nextWindow>>
  <2>1. PICK x \in {Error, Answer(r.id, 0)} : Replied(r.id, x)
        BY <1>10
  <2>2. x \in Outcome /\ OldOrBare(x) /\ (x.state = "ok" => x.of = r.id)
        BY <1>3, BareAnswer
  <2>3. reply' \in Outcome /\ reply' \in {reply, x} /\ ReplyOK'
        BY <1>3, <1>4, <2>1, <2>2, RepliedOK
  <2>4. WindowsOK'
        BY <1>4, <1>8, <1>10, <2>2, <2>3, ReplyStays
  <2>5. TypeInv'
        BY <1>2, <1>4, <1>10, <2>3 DEF IpcInv, TypeInv
  <2>6. QED BY <1>7, <2>3, <2>4, <2>5 DEF IpcInv
<1>11. CASE /\ Replied(r.id, Answer(r.id, nextWindow)) /\ nextWindow' = nextWindow + 1
            /\ UNCHANGED <<listed, session>>
  <2>1. Answer(r.id, nextWindow) \in Outcome /\ Answer(r.id, nextWindow).of = r.id
        BY <1>3, <1>5, AnswerType
  <2>2. reply' \in Outcome /\ reply' \in {reply, Answer(r.id, nextWindow)} /\ ReplyOK'
        BY <1>3, <1>4, <1>11, <2>1, RepliedOK
  <2>3. WindowsOK'
        BY <1>3, <1>4, <1>11, <2>2, WindowsGrow
  <2>4. nextWindow' \in Nat \ {0}
        BY <1>5, <1>11
  <2>5. TypeInv'
        BY <1>2, <1>4, <1>11, <2>2, <2>4 DEF IpcInv, TypeInv
  <2>6. QED BY <1>7, <2>2, <2>3, <2>5 DEF IpcInv
<1>12. CASE session' = [session EXCEPT !.cfg = r.cfg] /\ r.kind = "update" /\ UNCHANGED <<reply, listed, nextWindow>>
  <2>1. r.cfg \in Settings
        BY <1>2, <1>12 DEF Request
  <2>2. session' \in Summary
        BY <1>5, <1>12, <2>1 DEF Summary
  <2>3. TypeInv'
        BY <1>2, <1>4, <1>12, <2>2 DEF IpcInv, TypeInv
  <2>4. QED BY <1>4, <1>12, <2>3, OutcomesStay
<1>13. QED BY <1>6, <1>9, <1>10, <1>11, <1>12

LEMMA ListedInv ==
    ASSUME IpcInv, Listed
    PROVE  IpcInv'
<1>1. PICK x \in {Error, Answer(listed, 0)} : Replied(listed, x)
      BY DEF Listed
<1>2. UNCHANGED <<asked, calls, page, toDaemon, toUi, conn, queue, devices, session, watched, nextWindow>> /\ listed' = 0
      BY DEF Listed, ui, wires
<1>3. listed \in Nat
      BY DEF IpcInv, TypeInv
<1>4. x \in Outcome /\ OldOrBare(x) /\ (x.state = "ok" => x.of = listed)
      BY <1>3, BareAnswer
<1>5. reply' \in Outcome /\ reply' \in {reply, x} /\ ReplyOK'
      BY <1>1, <1>2, <1>3, <1>4, RepliedOK
<1>6. WindowsOK'
      BY <1>2, <1>4, <1>5, OutcomesOld, ReplyStays
<1>7. TypeInv' /\ CallsOK'
      BY <1>2, <1>5 DEF IpcInv, TypeInv, CallsOK
<1>8. QED BY <1>5, <1>6, <1>7 DEF IpcInv

LEMMA WatchedInv ==
    ASSUME IpcInv, Changes \/ Push
    PROVE  IpcInv'
<1>1. UNCHANGED <<asked, calls, page, toDaemon, toUi, conn, queue, reply, listed, nextWindow>>
      BY DEF Changes, Push, ui, wires
<1>2. /\ devices \in Nat /\ session \in Summary
      /\ watched \in [devices : [value : Nat, unseen : BOOLEAN],
                      sessions : [value : Summary, unseen : BOOLEAN]]
      BY DEF IpcInv, TypeInv
<1>3. devices' \in Nat /\ session' \in Summary
      BY <1>2 DEF Changes, Push, Summary
<1>4. watched' \in [devices : [value : Nat, unseen : BOOLEAN],
                   sessions : [value : Summary, unseen : BOOLEAN]]
  <2>1. CASE UNCHANGED watched
        BY <1>2, <2>1
  <2>2. CASE watched' = [devices |-> Pushed(watched.devices, devices),
                         sessions |-> Pushed(watched.sessions, session)]
    <3>1. Pushed(watched.devices, devices) \in [value : Nat, unseen : BOOLEAN]
          BY <1>2 DEF Pushed
    <3>2. Pushed(watched.sessions, session) \in [value : Summary, unseen : BOOLEAN]
          BY <1>2 DEF Pushed
    <3>3. QED BY <2>2, <3>1, <3>2
  <2>3. QED BY <2>1, <2>2 DEF Changes, Push
<1>5. TypeInv'
      BY <1>1, <1>3, <1>4 DEF IpcInv, TypeInv
<1>6. QED BY <1>1, <1>5, OutcomesStay

-----------------------------------------------------------------------------
LEMMA InitInv ==
    ASSUME Init
    PROVE  IpcInv
<1>1. Defaults \in Settings
      BY DEF Defaults, Settings
<1>2. /\ session \in Summary /\ page \in Summary
      /\ watched \in [devices : [value : Nat, unseen : BOOLEAN],
                      sessions : [value : Summary, unseen : BOOLEAN]]
      BY <1>1 DEF Init, Summary
<1>3. conn \in [at : {"none", "idle", "queue", "wait", "closed"}, req : Request]
      BY DEF Init, AtRest, Handshake, Request, Kinds
<1>4. /\ asked = <<>> /\ toDaemon = <<>> /\ queue = <<>> /\ calls = <<>> /\ toUi = <<>>
      /\ reply = Waits /\ listed = 0 /\ nextWindow = 1 /\ devices = 1
      BY DEF Init
<1>5. <<>> \in Seq(Request) /\ <<>> \in Seq(Outcome) /\ <<>> \in Seq(Frame)
      OBVIOUS
<1>6. TypeInv
      BY <1>2, <1>3, <1>4, <1>5, ErrorType DEF TypeInv
<1>7. \A x \in Outcomes : x = Waits
      BY <1>4 DEF Outcomes
<1>8. Waits.window = 0 /\ Waits.state # "ok"
      BY DEF Waits
<1>9. WindowsOK /\ ReplyOK /\ CallsOK
      BY <1>4, <1>7, <1>8 DEF WindowsOK, ReplyOK, CallsOK
<1>10. QED BY <1>6, <1>9 DEF IpcInv

LEMMA NextInv ==
    ASSUME IpcInv, [Next]_vars
    PROVE  IpcInv'
<1>1. CASE UiSteps
      BY <1>1, ConnectInv, UiSendsInv, UiReadsInv, UiLosesInv DEF UiSteps
<1>2. CASE ConnSteps
      BY <1>2, AcceptInv, TakeRequestInv, EnqueueInv, RelayInv, SendEventInv DEF ConnSteps
<1>3. CASE CoreSteps
      BY <1>3, HandleInv, ListedInv, WatchedInv DEF CoreSteps
<1>4. CASE Closes \/ Quit \/ Dies
      BY <1>4, ClosesInv
<1>5. CASE \E kind \in {"query", "list", "open"} : Asks(kind)
      BY <1>5, AsksInv
<1>6. CASE \E o \in Options : Switches(o)
      BY <1>6, SwitchesInv
<1>7. CASE CannotConnect
      BY <1>7, ConnectInv
<1>8. CASE Changes
      BY <1>8, WatchedInv
<1>9. CASE UNCHANGED vars
  <2>1. /\ UNCHANGED <<calls, toUi, reply, conn, nextWindow>>
        /\ UNCHANGED <<asked, toDaemon, queue, listed, devices, session, page, watched>>
        BY <1>9 DEF vars, ui, wires, daemon
  <2>2. TypeInv'
        BY <2>1 DEF IpcInv, TypeInv
  <2>3. QED BY <2>1, <2>2, OutcomesStay
<1>10. QED BY <1>1, <1>2, <1>3, <1>4, <1>5, <1>6, <1>7, <1>8, <1>9 DEF Next

(* Types, replies, windows and outcomes fit together, always. *)
THEOREM IpcInvariant == Spec => []IpcInv
<1>1. Init => IpcInv
      BY InitInv
<1>2. IpcInv /\ [Next]_vars => IpcInv'
      BY NextInv
<1>3. QED BY <1>1, <1>2, PTL DEF Spec

(* A call gets its own answer, and no window is opened twice: the replies of Core, *)
(* late ones too, meet the requests that the daemon's task serves.             *)
THEOREM AnswersMatch == Spec => []OwnAnswer
<1>1. IpcInv => OwnAnswer
  <2>1. SUFFICES ASSUME IpcInv, NEW c \in DOMAIN calls, NEW d \in DOMAIN calls
                 PROVE  /\ calls[c].state = "ok" => calls[c].of = c + FirstId - 1
                        /\ calls[c].window # 0 /\ calls[c].window = calls[d].window => c = d
        BY DEF OwnAnswer
  <2>2. calls \in Seq(Outcome) /\ c \in Nat /\ d \in Nat
        BY <2>1 DEF IpcInv, TypeInv
  <2>3. calls[c].state = "ok" => calls[c].of = c + FirstId - 1
        BY <2>1 DEF IpcInv, CallsOK
  <2>4. calls[d].state = "ok" => calls[d].of = d + FirstId - 1
        BY <2>1 DEF IpcInv, CallsOK
  <2>5. ASSUME calls[c].window # 0, calls[c].window = calls[d].window
        PROVE  c = d
    <3>1. calls[c] \in Outcome /\ calls[d] \in Outcome
          BY <2>2
    <3>2. calls[c].state = "ok" /\ calls[d].state = "ok"
          BY <2>5, <3>1 DEF Outcome
    <3>3. calls[c].of = calls[d].of
          BY <2>1, <2>5 DEF IpcInv, WindowsOK, Outcomes
    <3>4. c + FirstId - 1 = d + FirstId - 1
          BY <2>3, <2>4, <3>2, <3>3
    <3>5. QED BY <2>2, <3>4 DEF FirstId
  <2>6. QED BY <2>3, <2>5
<1>2. QED BY <1>1, IpcInvariant, PTL

-----------------------------------------------------------------------------
(* The ids: which call is where.  A call that waits is either still to be sent *)
(* or its answer is looked for, and a call that has its outcome is neither.    *)

(* The calls without an outcome, and those that are still to be sent. *)
OpenIds == {id \in FirstId..(Fresh - 1) : Call(id) = Waits}
AskedIds == {asked[i].id : i \in DOMAIN asked}

LinkOK == link \in {"none", "up", "down"} /\ (link # "up" => asked = <<>> /\ waiting = {})
Tracked ==
    /\ OpenIds = waiting \cup AskedIds
    /\ waiting \cap AskedIds = {}
    /\ \A i, j \in DOMAIN asked : asked[i].id = asked[j].id => i = j
    /\ LinkOK /\ Len(calls) <= MaxCalls

(* Only calls of the UI go to Core; the handshake is answered by the task.    *)
UiRequest == {r \in Request : r.id \in Ids \/ (r.id = 1 /\ r.kind = "query")}
CoreRequest == {r \in Request : r.id \in Ids}
DaemonOK ==
    /\ toDaemon \in Seq(UiRequest) /\ queue \in Seq(CoreRequest)
    /\ conn.at \in {"queue", "wait"} => conn.req \in CoreRequest
    /\ Len(queue) <= QueueLimit
    /\ core \in {"run", "listing", "off"} /\ listed \in {0} \cup Ids

(* An outcome names a call of the UI, the handshake, or none; no answer leaves  *)
(* its call waiting.                                                         *)
NamedOutcome == {x \in Outcome : x.of \in {0, 1} \cup Ids
                                  /\ (x.state = "ok" \/ x \in {Waits, Error})}
NamedFrame == {f \in Frame : f.type = "answer" => f.result \in NamedOutcome \ {Waits}}
OutcomesNamed == calls \in Seq(NamedOutcome) /\ toUi \in Seq(NamedFrame) /\ reply \in NamedOutcome

IdInv == Tracked /\ DaemonOK /\ OutcomesNamed

LEMMA CallTypes ==
    ASSUME IpcInv
    PROVE  /\ calls \in Seq(Outcome) /\ Len(calls) \in Nat /\ DOMAIN calls = 1..Len(calls)
           /\ Fresh = Len(calls) + 3 /\ MaxCalls \in Nat
           /\ asked \in Seq(Request) /\ Len(asked) \in Nat /\ DOMAIN asked = 1..Len(asked)
           /\ OpenIds = {id \in 3..(Len(calls) + 2) : calls[id - 2] = Waits}
<1>1. calls \in Seq(Outcome) /\ asked \in Seq(Request)
      BY DEF IpcInv, TypeInv
<1>2. Len(calls) \in Nat /\ Fresh = Len(calls) + 3
      BY <1>1 DEF Fresh, FirstId
<1>3. FirstId..(Fresh - 1) = 3..(Len(calls) + 2)
      BY <1>2 DEF FirstId
<1>4. \A id \in 3..(Len(calls) + 2) : Call(id) = calls[id - 2]
      BY <1>2 DEF Call, FirstId
<1>5. OpenIds = {id \in 3..(Len(calls) + 2) : calls[id - 2] = Waits}
      BY <1>3, <1>4 DEF OpenIds
<1>6. QED BY <1>1, <1>2, <1>5, IpcAssumption

LEMMA OpenNext ==
    ASSUME IpcInv'
    PROVE  OpenIds' = {id \in 3..(Len(calls') + 2) : calls'[id - 2] = Waits}
<1>1. calls' \in Seq(Outcome)'
      BY DEF IpcInv, TypeInv
<1>2. Len(calls') \in Nat /\ Fresh' = Len(calls') + 3
      BY <1>1 DEF Fresh, FirstId
<1>3. (FirstId..(Fresh - 1))' = 3..(Len(calls') + 2)
      BY <1>2 DEF FirstId
<1>4. \A id \in 3..(Len(calls') + 2) : Call(id)' = calls'[id - 2]
      BY <1>2 DEF Call, FirstId
<1>5. QED BY <1>3, <1>4 DEF OpenIds

LEMMA InvokeTracked ==
    ASSUME IpcInv, IpcInv', Tracked, NEW req, req.id = Fresh, Invoke(req)
    PROVE  Tracked'
<1> DEFINE n == Len(calls)
<1>1. /\ calls \in Seq(Outcome) /\ n \in Nat /\ DOMAIN calls = 1..n
      /\ Fresh = n + 3 /\ MaxCalls \in Nat
      /\ asked \in Seq(Request) /\ Len(asked) \in Nat /\ DOMAIN asked = 1..Len(asked)
      /\ OpenIds = {id \in 3..(n + 2) : calls[id - 2] = Waits}
      BY CallTypes
<1>2. n < MaxCalls /\ UNCHANGED <<link, waiting>>
      /\ IF link = "up" THEN asked' = Append(asked, req) /\ calls' = Append(calls, Waits)
         ELSE UNCHANGED asked /\ calls' = Append(calls, Error)
      BY DEF Invoke
<1>3. PICK r \in {Waits, Error} : calls' = Append(calls, r) /\ (r = Waits <=> link = "up")
      BY <1>2 DEF Waits, Error
<1>4. r \in Outcome
      BY ErrorType
<1>5. /\ Len(calls') = n + 1 /\ calls'[n + 1] = r
      /\ \A c \in 1..n : calls'[c] = calls[c]
      BY <1>1, <1>3, <1>4
<1>6. OpenIds' = {id \in 3..(n + 3) : calls'[id - 2] = Waits}
      BY <1>1, <1>5, OpenNext
<1> HIDE DEF n
<1>7. OpenIds' = IF r = Waits THEN OpenIds \cup {n + 3} ELSE OpenIds
      <2>1. \A id \in 3..(n + 3) :
                id = n + 3 \/ (id \in 3..(n + 2) /\ calls'[id - 2] = calls[id - 2])
            BY <1>1, <1>5
      <2>2. n + 3 \in 3..(n + 3) /\ calls'[n + 3 - 2] = r
            BY <1>1, <1>5
      <2>3. QED BY <1>1, <1>6, <2>1, <2>2
<1>8. LinkOK' /\ Len(calls') <= MaxCalls
      <2>1. Len(calls') <= MaxCalls
            BY <1>1, <1>2, <1>5 DEF n
      <2>2. QED BY <1>2, <2>1 DEF Tracked, LinkOK
<1>9. CASE link = "up"
      <2>1. /\ DOMAIN asked' = 1..(Len(asked) + 1) /\ asked'[Len(asked) + 1] = req
            /\ \A i \in DOMAIN asked : asked'[i] = asked[i]
            BY <1>1, <1>2, <1>9
      <2>2. AskedIds' = AskedIds \cup {n + 3}
            <3>1. DOMAIN asked' = DOMAIN asked \cup {Len(asked) + 1}
                  BY <1>1, <2>1
            <3>2. QED BY <1>1, <2>1, <3>1 DEF AskedIds
      <2>3. n + 3 \notin OpenIds
            BY <1>1
      <2>4. OpenIds' = waiting' \cup AskedIds' /\ waiting' \cap AskedIds' = {}
            BY <1>2, <1>3, <1>7, <1>9, <2>2, <2>3 DEF Tracked
      <2>5. \A i \in DOMAIN asked : asked[i].id # n + 3
            BY <2>3 DEF Tracked, AskedIds
      <2>6. \A i, j \in DOMAIN asked' : asked'[i].id = asked'[j].id => i = j
            <3>1. \A i \in DOMAIN asked' : i \in DOMAIN asked \/ i = Len(asked) + 1
                  BY <1>1, <2>1
            <3>2. QED BY <1>1, <2>1, <2>5, <3>1 DEF Tracked
      <2>7. QED BY <1>8, <2>4, <2>6 DEF Tracked
<1>10. CASE link # "up"
      <2>1. UNCHANGED <<asked, waiting, OpenIds, AskedIds>>
            BY <1>2, <1>3, <1>7, <1>10 DEF AskedIds
      <2>2. QED BY <1>8, <2>1 DEF Tracked
<1>11. QED BY <1>9, <1>10

(* One call gets its outcome: it is open no more.                             *)
LEMMA CallSetOpen ==
    ASSUME IpcInv, IpcInv', NEW id \in OpenIds, NEW r, r # Waits,
           calls' = [calls EXCEPT ![id - FirstId + 1] = r]
    PROVE  Len(calls') = Len(calls) /\ OpenIds' = OpenIds \ {id}
<1>1. /\ calls \in Seq(Outcome) /\ Len(calls) \in Nat /\ DOMAIN calls = 1..Len(calls)
      /\ OpenIds = {x \in 3..(Len(calls) + 2) : calls[x - 2] = Waits}
      BY CallTypes
<1>2. id \in 3..(Len(calls) + 2) /\ id - 2 \in DOMAIN calls /\ id - FirstId + 1 = id - 2
      BY <1>1 DEF FirstId
<1>3. Len(calls') = Len(calls)
      BY <1>1
<1>4. OpenIds' = {x \in 3..(Len(calls) + 2) : calls'[x - 2] = Waits}
      BY <1>3, OpenNext
<1>5. \A x \in 3..(Len(calls) + 2) : calls'[x - 2] = IF x = id THEN r ELSE calls[x - 2]
      BY <1>1, <1>2
<1>6. QED BY <1>1, <1>3, <1>4, <1>5

LEMMA UiSendsTracked ==
    ASSUME IpcInv, IpcInv', Tracked, UiSends
    PROVE  Tracked'
<1> DEFINE h == Head(asked)
<1>1. /\ asked # <<>> /\ asked' = Tail(asked) /\ UNCHANGED link
      /\ \/ waiting' = waiting \cup {h.id} /\ UNCHANGED calls
         \/ UNCHANGED waiting /\ calls' = [calls EXCEPT ![h.id - FirstId + 1] = Error]
      BY DEF UiSends, Awaited
<1>2. asked \in Seq(Request) /\ Len(asked) \in Nat /\ DOMAIN asked = 1..Len(asked)
      BY CallTypes
<1>3. /\ h = asked[1] /\ 1 \in DOMAIN asked /\ DOMAIN asked' = 1..(Len(asked) - 1)
      /\ \A i \in DOMAIN asked' : i + 1 \in DOMAIN asked /\ asked'[i] = asked[i + 1]
      BY <1>1, <1>2
<1> HIDE DEF h
<1>4. h.id \in AskedIds /\ h.id \in OpenIds /\ h.id \notin waiting
      BY <1>3 DEF Tracked, AskedIds
<1>5. AskedIds' = AskedIds \ {h.id}
      <2>1. ASSUME NEW i \in DOMAIN asked' PROVE asked'[i].id \in AskedIds \ {h.id}
            <3>1. i + 1 \in DOMAIN asked /\ asked'[i] = asked[i + 1] /\ i + 1 # 1
                  BY <1>2, <1>3
            <3>2. QED BY <1>3, <3>1 DEF Tracked, AskedIds
      <2>2. ASSUME NEW i \in DOMAIN asked, asked[i].id # h.id PROVE asked[i].id \in AskedIds'
            <3>1. i - 1 \in DOMAIN asked' /\ (i - 1) + 1 = i
                  BY <1>2, <1>3, <2>2
            <3>2. asked'[i - 1] = asked[i]
                  BY <1>3, <3>1
            <3>3. QED BY <3>1, <3>2 DEF AskedIds
      <2>3. AskedIds' \subseteq AskedIds \ {h.id}
            BY <2>1 DEF AskedIds
      <2>4. AskedIds \ {h.id} \subseteq AskedIds'
            <3>1. ASSUME NEW x \in AskedIds, x # h.id PROVE x \in AskedIds'
                  <4>1. PICK i \in DOMAIN asked : x = asked[i].id
                        BY DEF AskedIds
                  <4>2. QED BY <2>2, <3>1, <4>1
            <3>2. QED BY <3>1
      <2>5. QED BY <2>3, <2>4
<1>6. \A i, j \in DOMAIN asked' : asked'[i].id = asked'[j].id => i = j
      <2>1. ASSUME NEW i \in DOMAIN asked', NEW j \in DOMAIN asked', asked'[i].id = asked'[j].id
            PROVE  i = j
            <3>1. i + 1 = j + 1
                  BY <1>3, <2>1 DEF Tracked
            <3>2. QED BY <1>2, <1>3, <3>1
      <2>2. QED BY <2>1
<1>7. LinkOK'
      <2>1. link = "up"
            BY DEF UiSends
      <2>2. QED BY <1>1, <2>1 DEF LinkOK
<1>8. CASE waiting' = waiting \cup {h.id} /\ UNCHANGED calls
      <2>1. OpenIds' = OpenIds
            BY <1>8 DEF OpenIds, Fresh, Call
      <2>2. QED BY <1>4, <1>5, <1>6, <1>7, <1>8, <2>1 DEF Tracked
<1>9. CASE UNCHANGED waiting /\ calls' = [calls EXCEPT ![h.id - FirstId + 1] = Error]
      <2>1. Error # Waits
            BY DEF Error, Waits
      <2>2. Len(calls') = Len(calls) /\ OpenIds' = OpenIds \ {h.id}
            BY <1>4, <1>9, <2>1, CallSetOpen
      <2>3. QED BY <1>4, <1>5, <1>6, <1>7, <1>9, <2>2 DEF Tracked
<1>10. QED BY <1>1, <1>8, <1>9

LEMMA UiReadsTracked ==
    ASSUME IpcInv, IpcInv', Tracked, OutcomesNamed, UiReads
    PROVE  Tracked'
<1> DEFINE f == Head(toUi)
<1>1. /\ UNCHANGED <<link, asked>> /\ link = "up" /\ toUi # <<>> /\ toUi \in Seq(Frame)
      BY DEF UiReads, IpcInv, TypeInv
<1>2. f = toUi[1] /\ 1 \in DOMAIN toUi /\ f \in Frame
      BY <1>1
<1>3. f.type \in {"answer", "devices", "sessions"}
      BY <1>2 DEF Frame, AnswerFrame
<1>4. \/ /\ f.type = "answer" /\ f.id \in waiting /\ waiting' = waiting \ {f.id}
         /\ calls' = [calls EXCEPT ![f.id - FirstId + 1] = f.result]
      \/ UNCHANGED <<waiting, calls>>
      BY <1>3 DEF UiReads
<1> HIDE DEF f
<1>5. AskedIds' = AskedIds /\ LinkOK'
      BY <1>1 DEF AskedIds, LinkOK
<1>6. CASE UNCHANGED <<waiting, calls>>
      BY <1>1, <1>5, <1>6 DEF Tracked, OpenIds, Fresh, Call
<1>7. CASE /\ f.type = "answer" /\ f.id \in waiting /\ waiting' = waiting \ {f.id}
           /\ calls' = [calls EXCEPT ![f.id - FirstId + 1] = f.result]
      <2>1. toUi \in Seq(NamedFrame)
            BY DEF OutcomesNamed
      <2>2. f \in NamedFrame
            BY <1>2, <2>1
      <2>3. f.result # Waits /\ f.id \in OpenIds
            BY <1>7, <2>2 DEF NamedFrame, Tracked
      <2>4. Len(calls') = Len(calls) /\ OpenIds' = OpenIds \ {f.id}
            BY <1>7, <2>3, CallSetOpen
      <2>5. QED BY <1>1, <1>5, <1>7, <2>4 DEF Tracked
<1>8. QED BY <1>4, <1>6, <1>7

(* The wire has ended: no call is left waiting.                               *)
LEMMA UiLosesTracked ==
    ASSUME IpcInv, IpcInv', Tracked, UiLoses
    PROVE  Tracked'
<1>1. /\ link' = "down" /\ asked' = <<>> /\ waiting' = {}
      /\ DOMAIN calls' = DOMAIN calls
      /\ \A c \in DOMAIN calls :
            calls'[c] = IF calls[c] = Waits /\ c + FirstId - 1 \in waiting \cup AskedIds
                        THEN Error ELSE calls[c]
      BY DEF UiLoses, AskedIds
<1>2. /\ calls \in Seq(Outcome) /\ Len(calls) \in Nat /\ DOMAIN calls = 1..Len(calls)
      /\ OpenIds = {x \in 3..(Len(calls) + 2) : calls[x - 2] = Waits}
      BY CallTypes
<1>3. ASSUME NEW c \in DOMAIN calls PROVE calls'[c] # Waits
      <2>1. Error # Waits
            BY DEF Error, Waits
      <2>2. CASE calls[c] = Waits
            <3>1. c + 2 \in OpenIds /\ c + FirstId - 1 = c + 2
                  BY <1>2, <2>2 DEF FirstId
            <3>2. QED BY <1>1, <2>1, <2>2, <3>1 DEF Tracked
      <2>3. QED BY <1>1, <2>1, <2>2
<1>4. Len(calls') = Len(calls)
      <2>1. calls' \in Seq(Outcome)'
            BY DEF IpcInv, TypeInv
      <2>2. DOMAIN calls' = 1..Len(calls') /\ Len(calls') \in Nat
            BY <2>1
      <2>3. QED BY <1>1, <1>2, <2>2
<1>5. OpenIds' = {}
      BY <1>1, <1>2, <1>3, <1>4, OpenNext
<1>6. AskedIds' = {}
      BY <1>1 DEF AskedIds
<1>7. QED BY <1>1, <1>4, <1>5, <1>6 DEF Tracked, LinkOK

LEMMA TrackedStep ==
    ASSUME IpcInv, IpcInv', IdInv, [Next]_vars
    PROVE  Tracked'
<1>1. CASE UNCHANGED <<link, asked, waiting, calls>>
      BY <1>1 DEF IdInv, Tracked, OpenIds, AskedIds, LinkOK, Fresh, Call
<1>2. CASE Connect \/ CannotConnect
      <2>1. UNCHANGED <<asked, waiting, calls>> /\ link = "none" /\ link' \in {"up", "down"}
            BY <1>2 DEF Connect, CannotConnect
      <2>2. QED BY <2>1 DEF IdInv, Tracked, OpenIds, AskedIds, LinkOK, Fresh, Call
<1>3. CASE UiSends \/ UiReads \/ UiLoses
      BY <1>3, UiSendsTracked, UiReadsTracked, UiLosesTracked DEF IdInv
<1>4. CASE \E kind \in {"query", "list", "open"} : Asks(kind)
      <2>1. PICK kind \in {"query", "list", "open"} : Invoke([id |-> Fresh, kind |-> kind])
            BY <1>4 DEF Asks
      <2>2. QED BY <2>1, InvokeTracked DEF IdInv
<1>5. CASE \E o \in Options : Switches(o)
      <2>1. PICK cfg : Invoke([id |-> Fresh, kind |-> "update", cfg |-> cfg])
            BY <1>5 DEF Switches
      <2>2. QED BY <2>1, InvokeTracked DEF IdInv
<1>6. CASE ConnSteps \/ CoreSteps \/ Closes \/ Changes \/ Quit \/ Dies
      <2>1. UNCHANGED <<link, asked, waiting, calls>>
            BY <1>6 DEF ConnSteps, CoreSteps, Accept, TakeRequest, Enqueue, Relay, TimesOut,
               SendEvent, Handle, Listed, Push, Closes, Changes, Quit, Dies, ui
      <2>2. QED BY <1>1, <2>1
<1>7. CASE UNCHANGED vars
      BY <1>1, <1>7 DEF vars, ui
<1>8. QED BY <1>2, <1>3, <1>4, <1>5, <1>6, <1>7 DEF Next, UiSteps

(* Requests: from the UI to the task, and from the task to Core.              *)
LEMMA SeqExcept ==
    ASSUME NEW S, NEW s \in Seq(S), NEW i, NEW e \in S
    PROVE  [s EXCEPT ![i] = e] \in Seq(S)
<1> DEFINE t == [s EXCEPT ![i] = e]
<1>1. DOMAIN s = 1..Len(s) /\ Len(s) \in Nat /\ DOMAIN t = DOMAIN s
      OBVIOUS
<1>2. \A j \in 1..Len(s) : t[j] \in S
      BY <1>1
<1>3. t = [j \in 1..Len(s) |-> t[j]]
      BY <1>1
<1> HIDE DEF t
<1>4. t \in [1..Len(s) -> S]
      BY <1>2, <1>3
<1>5. t \in Seq(S)
      BY <1>1, <1>4, FunctionSeq
<1>6. QED BY <1>5 DEF t

LEMMA IdsType == Ids \subseteq Nat /\ 0 \notin Ids /\ 1 \notin Ids
<1>1. MaxCalls \in Nat
      BY IpcAssumption
<1>2. QED BY <1>1 DEF Ids, FirstId

LEMMA OpenIdsInIds ==
    ASSUME IpcInv, IdInv
    PROVE  OpenIds \subseteq Ids /\ AskedIds \subseteq Ids /\ waiting \subseteq Ids
<1>1. /\ Len(calls) \in Nat /\ MaxCalls \in Nat /\ Len(calls) <= MaxCalls
      /\ OpenIds = {id \in 3..(Len(calls) + 2) : calls[id - 2] = Waits}
      BY CallTypes DEF IdInv, Tracked
<1>2. OpenIds \subseteq 3..(Len(calls) + 2)
      BY <1>1
<1>3. 3..(Len(calls) + 2) \subseteq Ids
      BY <1>1 DEF Ids, FirstId
<1>4. QED BY <1>2, <1>3 DEF IdInv, Tracked

LEMMA ToDaemonStep ==
    ASSUME IpcInv, IdInv, [Next]_vars
    PROVE  toDaemon' \in Seq(UiRequest)
<1>1. toDaemon \in Seq(UiRequest)
      BY DEF IdInv, DaemonOK
<1>2. CASE UNCHANGED toDaemon
      BY <1>1, <1>2
<1>3. CASE toDaemon' = <<>>
      BY <1>3
<1>4. CASE Connect
      <2>1. Handshake[1] \in UiRequest
            BY DEF Handshake, UiRequest, Request, Kinds
      <2>2. toDaemon' = <<Handshake[1]>>
            BY <1>4 DEF Connect, Handshake
      <2>3. QED BY <2>1, <2>2
<1>5. CASE UiSends
      <2>1. asked # <<>> /\ asked \in Seq(Request) /\ DOMAIN asked = 1..Len(asked) /\ Len(asked) \in Nat
            BY <1>5, CallTypes DEF UiSends
      <2>2. Head(asked) = asked[1] /\ 1 \in DOMAIN asked /\ asked[1] \in Request
            BY <2>1
      <2>3. asked[1].id \in Ids
            BY <2>2, OpenIdsInIds DEF AskedIds
      <2>4. Head(asked) \in UiRequest
            BY <2>2, <2>3 DEF UiRequest
      <2>5. toDaemon' = toDaemon \/ toDaemon' = Append(toDaemon, Head(asked))
            BY <1>5 DEF UiSends
      <2>6. QED BY <1>1, <2>4, <2>5
<1>6. CASE TakeRequest
      <2>1. toDaemon # <<>> /\ toDaemon' = Tail(toDaemon)
            BY <1>6 DEF TakeRequest
      <2>2. QED BY <1>1, <2>1
<1>7. CASE Closes \/ Dies
      BY <1>3, <1>7 DEF Closes, Dies, Ends
<1>8. CASE \/ UiReads \/ UiLoses \/ Accept \/ Enqueue \/ Relay \/ TimesOut
           \/ \E w \in {"devices", "sessions"} : SendEvent(w)
           \/ CoreSteps \/ CannotConnect \/ Changes \/ Quit
      <2>1. UNCHANGED toDaemon
            BY <1>8 DEF UiReads, UiLoses, Accept, Enqueue, Relay, TimesOut, SendEvent, CoreSteps,
               Handle, Listed, Push, CannotConnect, Changes, Quit, wires
      <2>2. QED BY <1>2, <2>1
<1>9. CASE \/ \E kind \in {"query", "list", "open"} : Asks(kind)
           \/ \E o \in Options : Switches(o)
      <2>1. UNCHANGED toDaemon
            BY <1>9 DEF Asks, Switches, Invoke, wires
      <2>2. QED BY <1>2, <2>1
<1>10. CASE UNCHANGED vars
      BY <1>2, <1>10 DEF vars, wires
<1>11. QED BY <1>4, <1>5, <1>6, <1>7, <1>8, <1>9, <1>10 DEF Next, UiSteps, ConnSteps

(* The request that the task takes is a call of the UI if it goes to Core.    *)
LEMMA Taken ==
    ASSUME IpcInv, IdInv, TakeRequest
    PROVE  /\ Head(toDaemon) \in UiRequest
           /\ Head(toDaemon).kind # "query" => Head(toDaemon) \in CoreRequest
<1>1. toDaemon \in Seq(UiRequest) /\ toDaemon # <<>>
      BY DEF IdInv, DaemonOK, TakeRequest
<1>2. Head(toDaemon) \in UiRequest
      BY <1>1
<1>3. QED BY <1>2 DEF UiRequest, CoreRequest

LEMMA ConnStep ==
    ASSUME IpcInv, IdInv, [Next]_vars
    PROVE  conn'.at \in {"queue", "wait"} => conn'.req \in CoreRequest
<1> DEFINE Goal == conn'.at \in {"queue", "wait"} => conn'.req \in CoreRequest
<1>1. /\ conn \in [at : {"none", "idle", "queue", "wait", "closed"}, req : Request]
      /\ conn.at \in {"queue", "wait"} => conn.req \in CoreRequest
      BY DEF IpcInv, TypeInv, IdInv, DaemonOK
<1>2. CASE UNCHANGED conn
      BY <1>1, <1>2
<1>3. CASE conn'.at \in {"idle", "closed"}
      BY <1>3
<1>4. AtRest.at = "idle"
      BY DEF AtRest
<1>5. CASE TakeRequest
      <2>1. conn' = AtRest \/ (conn'.req = Head(toDaemon) /\ Head(toDaemon).kind # "query")
            BY <1>5 DEF TakeRequest, Says
      <2>2. QED BY <1>3, <1>4, <1>5, <2>1, Taken
<1>6. CASE Enqueue
      <2>1. conn.at = "queue" /\ (conn' = AtRest \/ conn' = [conn EXCEPT !.at = "wait"])
            BY <1>6 DEF Enqueue, Says
      <2>2. QED BY <1>1, <1>3, <1>4, <2>1
<1>7. CASE Accept \/ Relay \/ TimesOut
      <2>1. conn' = AtRest
            BY <1>7 DEF Accept, Relay, TimesOut, Says
      <2>2. QED BY <1>3, <1>4, <2>1
<1>8. CASE Closes \/ Dies \/ Quit
      <2>1. conn' = [conn EXCEPT !.at = "closed"] \/ conn' = conn
            BY <1>8 DEF Closes, Dies, Ends, Quit
      <2>2. QED BY <1>1, <1>2, <1>3, <2>1
<1>9. CASE UiSteps \/ (\E w \in {"devices", "sessions"} : SendEvent(w)) \/ CoreSteps \/ CannotConnect \/ Changes
      <2>1. UNCHANGED conn
            BY <1>9 DEF UiSteps, Connect, UiSends, UiReads, UiLoses, SendEvent, CoreSteps,
               Handle, Listed, Push, CannotConnect, Changes, daemon
      <2>2. QED BY <1>2, <2>1
<1>10. CASE \/ \E kind \in {"query", "list", "open"} : Asks(kind)
            \/ \E o \in Options : Switches(o)
      <2>1. UNCHANGED conn
            BY <1>10 DEF Asks, Switches, Invoke, daemon
      <2>2. QED BY <1>2, <2>1
<1>11. CASE UNCHANGED vars
      BY <1>2, <1>11 DEF vars, daemon
<1>12. QED BY <1>5, <1>6, <1>7, <1>8, <1>9, <1>10, <1>11 DEF Next, ConnSteps

LEMMA QueueStep ==
    ASSUME IpcInv, IdInv, [Next]_vars
    PROVE  queue' \in Seq(CoreRequest) /\ Len(queue') <= QueueLimit
<1>1. /\ queue \in Seq(CoreRequest) /\ Len(queue) <= QueueLimit /\ Len(queue) \in Nat
      /\ QueueLimit \in Nat
      BY IpcAssumption DEF IdInv, DaemonOK
<1>2. CASE UNCHANGED queue
      BY <1>1, <1>2
<1>3. CASE queue' = <<>>
      BY <1>1, <1>3
<1>4. CASE Enqueue
      <2>1. queue' = queue \/ (Len(queue) < QueueLimit /\ queue' = Append(queue, conn.req))
            BY <1>4 DEF Enqueue, Fits
      <2>2. conn.req \in CoreRequest
            BY <1>4 DEF Enqueue, IdInv, DaemonOK
      <2>3. CASE Len(queue) < QueueLimit /\ queue' = Append(queue, conn.req)
            <3>1. queue' \in Seq(CoreRequest) /\ Len(queue') = Len(queue) + 1
                  BY <1>1, <2>2, <2>3
            <3>2. QED BY <1>1, <2>3, <3>1
      <2>4. QED BY <1>2, <2>1, <2>3
<1>5. CASE Handle
      <2>1. queue # <<>> /\ queue' = Tail(queue)
            BY <1>5 DEF Handle
      <2>2. queue' \in Seq(CoreRequest) /\ Len(queue') = Len(queue) - 1
            BY <1>1, <2>1
      <2>3. QED BY <1>1, <2>2
<1>6. CASE Quit \/ Dies
      BY <1>3, <1>6 DEF Quit, Dies
<1>7. CASE \/ UiSteps \/ Accept \/ TakeRequest \/ Relay \/ TimesOut
           \/ (\E w \in {"devices", "sessions"} : SendEvent(w))
           \/ Listed \/ Push \/ CannotConnect \/ Changes \/ Closes
      <2>1. UNCHANGED queue
            BY <1>7 DEF UiSteps, Connect, UiSends, UiReads, UiLoses, Accept, TakeRequest, Relay,
               TimesOut, SendEvent, Listed, Push, CannotConnect, Changes, Closes, daemon
      <2>2. QED BY <1>2, <2>1
<1>8. CASE \/ \E kind \in {"query", "list", "open"} : Asks(kind)
           \/ \E o \in Options : Switches(o)
      <2>1. UNCHANGED queue
            BY <1>8 DEF Asks, Switches, Invoke, daemon
      <2>2. QED BY <1>2, <2>1
<1>9. CASE UNCHANGED vars
      BY <1>2, <1>9 DEF vars, daemon
<1>10. QED BY <1>4, <1>5, <1>6, <1>7, <1>8, <1>9 DEF Next, ConnSteps, CoreSteps

(* Head(queue) is a call of the UI. *)
LEMMA Handled ==
    ASSUME IpcInv, IdInv, Handle
    PROVE  Head(queue).id \in Ids
<1>1. queue \in Seq(CoreRequest) /\ queue # <<>>
      BY DEF IdInv, DaemonOK, Handle
<1>2. Head(queue) \in CoreRequest
      BY <1>1
<1>3. QED BY <1>2 DEF CoreRequest

LEMMA ListedStep ==
    ASSUME IpcInv, IdInv, [Next]_vars
    PROVE  core' \in {"run", "listing", "off"} /\ listed' \in {0} \cup Ids
<1>1. core \in {"run", "listing", "off"} /\ listed \in {0} \cup Ids
      BY DEF IdInv, DaemonOK
<1>2. CASE UNCHANGED <<core, listed>>
      BY <1>1, <1>2
<1>3. CASE Handle
      <2>1. UNCHANGED <<core, listed>> \/ (core' = "listing" /\ listed' = Head(queue).id)
            BY <1>3 DEF Handle
      <2>2. QED BY <1>2, <1>3, <2>1, Handled
<1>4. CASE Listed
      BY <1>4 DEF Listed
<1>5. CASE Quit \/ Dies
      <2>1. core' = "off" /\ UNCHANGED listed
            BY <1>5 DEF Quit, Dies
      <2>2. QED BY <1>1, <2>1
<1>6. CASE UiSteps \/ ConnSteps \/ Push \/ CannotConnect \/ Changes \/ Closes
      <2>1. UNCHANGED <<core, listed>>
            BY <1>6 DEF UiSteps, Connect, UiSends, UiReads, UiLoses, ConnSteps, Accept, TakeRequest,
               Enqueue, Relay, TimesOut, SendEvent, Push, CannotConnect, Changes, Closes, daemon
      <2>2. QED BY <1>2, <2>1
<1>7. CASE \/ \E kind \in {"query", "list", "open"} : Asks(kind)
           \/ \E o \in Options : Switches(o)
      <2>1. UNCHANGED <<core, listed>>
            BY <1>7 DEF Asks, Switches, Invoke, daemon
      <2>2. QED BY <1>2, <2>1
<1>8. CASE UNCHANGED vars
      BY <1>2, <1>8 DEF vars, daemon
<1>9. QED BY <1>3, <1>4, <1>5, <1>6, <1>7, <1>8 DEF Next, CoreSteps

(* Outcomes: what they name.                                                 *)
LEMMA NamedAnswers ==
    /\ Error \in NamedOutcome /\ Waits \in NamedOutcome /\ Error # Waits
    /\ \A id \in Ids \cup {1}, n \in Nat : Answer(id, n) \in NamedOutcome /\ Answer(id, n) # Waits
<1>1. Error \in NamedOutcome /\ Waits \in NamedOutcome /\ Error # Waits
      BY ErrorType DEF Error, Waits, NamedOutcome
<1>2. ASSUME NEW id \in Ids \cup {1}, NEW n \in Nat
      PROVE  Answer(id, n) \in NamedOutcome /\ Answer(id, n) # Waits
      <2>1. id \in Nat
            BY IdsType
      <2>2. Answer(id, n) \in Outcome /\ Answer(id, n).of = id /\ Answer(id, n).state = "ok"
            BY <2>1, AnswerType
      <2>3. QED BY <2>2 DEF NamedOutcome, Waits
<1>3. QED BY <1>1, <1>2

LEMMA CallsNamed ==
    ASSUME IpcInv, IdInv, [Next]_vars
    PROVE  calls' \in Seq(NamedOutcome)
<1>1. calls \in Seq(NamedOutcome) /\ toUi \in Seq(NamedFrame)
      BY DEF IdInv, OutcomesNamed
<1>2. CASE UNCHANGED calls
      BY <1>1, <1>2
<1>3. ASSUME NEW r \in {Waits, Error}, calls' = Append(calls, r)
      PROVE  calls' \in Seq(NamedOutcome)
      BY <1>1, <1>3, NamedAnswers
<1>4. CASE UiSends
      <2>1. calls' = calls \/ calls' = [calls EXCEPT ![Head(asked).id - FirstId + 1] = Error]
            BY <1>4 DEF UiSends
      <2>2. QED BY <1>1, <2>1, NamedAnswers, SeqExcept
<1>5. CASE UiReads
      <2>1. toUi # <<>>
            BY <1>5 DEF UiReads
      <2>2. Head(toUi) \in NamedFrame
            BY <1>1, <2>1
      <2>3. Head(toUi).type \in {"answer", "devices", "sessions"}
            BY <2>2 DEF NamedFrame, Frame, AnswerFrame
      <2>4. \/ calls' = calls
            \/ /\ Head(toUi).type = "answer"
               /\ calls' = [calls EXCEPT ![Head(toUi).id - FirstId + 1] = Head(toUi).result]
            BY <1>5, <2>3 DEF UiReads
      <2>5. CASE /\ Head(toUi).type = "answer"
                 /\ calls' = [calls EXCEPT ![Head(toUi).id - FirstId + 1] = Head(toUi).result]
            <3>1. Head(toUi).result \in NamedOutcome
                  BY <2>2, <2>5 DEF NamedFrame
            <3>2. QED BY <1>1, <2>5, <3>1, SeqExcept
      <2>6. QED BY <1>2, <2>4, <2>5
<1>6. CASE UiLoses
      <2>1. DOMAIN calls = 1..Len(calls) /\ Len(calls) \in Nat
            BY <1>1
      <2>2. \A c \in 1..Len(calls) : calls'[c] \in {Error, calls[c]}
            BY <1>6, <2>1 DEF UiLoses
      <2>3. calls' = [c \in 1..Len(calls) |-> calls'[c]]
            BY <1>6, <2>1 DEF UiLoses
      <2>4. \A c \in 1..Len(calls) : calls'[c] \in NamedOutcome
            BY <1>1, <2>1, <2>2, NamedAnswers
      <2>5. calls' \in [1..Len(calls) -> NamedOutcome]
            BY <2>3, <2>4
      <2>6. QED BY <2>1, <2>5, FunctionSeq
<1>7. CASE Connect \/ CannotConnect \/ ConnSteps \/ CoreSteps \/ Closes \/ Changes \/ Quit \/ Dies
      <2>1. UNCHANGED calls
            BY <1>7 DEF Connect, CannotConnect, ConnSteps, CoreSteps, Accept, TakeRequest, Enqueue,
               Relay, TimesOut, SendEvent, Handle, Listed, Push, Closes, Changes, Quit, Dies, ui
      <2>2. QED BY <1>2, <2>1
<1>8. CASE \/ \E kind \in {"query", "list", "open"} : Asks(kind)
           \/ \E o \in Options : Switches(o)
      <2>1. PICK r \in {Waits, Error} : calls' = Append(calls, r)
            BY <1>8 DEF Asks, Switches, Invoke
      <2>2. QED BY <1>3, <2>1
<1>9. CASE UNCHANGED vars
      BY <1>2, <1>9 DEF vars, ui
<1>10. QED BY <1>4, <1>5, <1>6, <1>7, <1>8, <1>9 DEF Next, UiSteps

LEMMA SaysNamed ==
    ASSUME IpcInv, IdInv, NEW id \in Nat, NEW result \in NamedOutcome \ {Waits}, Says(id, result),
           result.state = "ok" => result.of = id
    PROVE  toUi' \in Seq(NamedFrame)
<1> DEFINE f == Respond(id, result)
<1>1. toUi \in Seq(NamedFrame) /\ watched.devices.value \in Nat
      BY DEF IpcInv, TypeInv, IdInv, OutcomesNamed
<1>2. result \in Outcome
      BY DEF NamedOutcome
<1>3. f \in Frame /\ f.result = result
      BY <1>1, <1>2 DEF Respond, Frame, AnswerFrame
<1>4. toUi' = Append(toUi, f)
      BY DEF Says
<1> HIDE DEF f
<1>5. f \in NamedFrame
      BY <1>3 DEF NamedFrame
<1>6. QED BY <1>1, <1>4, <1>5

LEMMA FramesNamed ==
    ASSUME IpcInv, IdInv, [Next]_vars
    PROVE  toUi' \in Seq(NamedFrame)
<1>1. toUi \in Seq(NamedFrame)
      BY DEF IdInv, OutcomesNamed
<1>2. CASE UNCHANGED toUi
      BY <1>1, <1>2
<1>3. conn.req.id \in Nat /\ Error \in NamedOutcome \ {Waits} /\ Error.state # "ok"
      BY NamedAnswers DEF IpcInv, TypeInv, Request, Error
<1>4. CASE UiReads
      <2>1. toUi # <<>> /\ toUi' = Tail(toUi)
            BY <1>4 DEF UiReads
      <2>2. QED BY <1>1, <2>1
<1>5. CASE TakeRequest
      <2>1. Head(toDaemon) \in UiRequest
            BY <1>5, Taken
      <2> DEFINE id == Head(toDaemon).id
      <2>2. id \in Ids \/ id = 1
            BY <2>1 DEF UiRequest
      <2>3. id \in Nat
            BY <2>1 DEF UiRequest, Request
      <2>4. UNCHANGED toUi \/ Says(id, Answer(id, 0))
            BY <1>5 DEF TakeRequest
      <2> HIDE DEF id
      <2>5. Answer(id, 0) \in NamedOutcome \ {Waits} /\ id \in Nat
            <3>1. id \in Ids \cup {1} /\ 0 \in Nat
                  BY <2>2
            <3>2. Answer(id, 0) \in NamedOutcome /\ Answer(id, 0) # Waits
                  BY <3>1, NamedAnswers
            <3>3. QED BY <2>3, <3>2
      <2>6. Answer(id, 0).of = id
            BY DEF Answer
      <2>7. QED BY <1>2, <2>4, <2>5, <2>6, SaysNamed
<1>6. CASE Enqueue
      <2>1. UNCHANGED toUi \/ Says(conn.req.id, Error)
            BY <1>6 DEF Enqueue
      <2>2. QED BY <1>2, <1>3, <2>1, SaysNamed
<1>7. CASE Relay
      <2>1. conn.at = "wait" /\ reply # Waits /\ Says(conn.req.id, reply)
            BY <1>7 DEF Relay
      <2>2. reply \in NamedOutcome \ {Waits} /\ (reply.state = "ok" => reply.of = conn.req.id)
            BY <2>1 DEF IpcInv, ReplyOK, IdInv, OutcomesNamed
      <2>3. QED BY <1>3, <2>1, <2>2, SaysNamed
<1>8. CASE TimesOut
      <2>1. Says(conn.req.id, Error)
            BY <1>8 DEF TimesOut
      <2>2. QED BY <1>3, <2>1, SaysNamed
<1>9. CASE \E w \in {"devices", "sessions"} : SendEvent(w)
      <2>1. PICK w \in {"devices", "sessions"} : SendEvent(w)
            BY <1>9
      <2> DEFINE f == [type |-> w, value |-> watched[w].value]
      <2>2. toUi' = Append(toUi, f)
            BY <2>1 DEF SendEvent
      <2>3. watched.devices.value \in Nat /\ watched.sessions.value \in Summary
            BY DEF IpcInv, TypeInv
      <2>4. f \in Frame /\ f.type # "answer"
            BY <2>3 DEF Frame
      <2> HIDE DEF f
      <2>5. f \in NamedFrame
            BY <2>4 DEF NamedFrame
      <2>6. QED BY <1>1, <2>2, <2>5
<1>10. CASE Closes \/ Dies
      <2>1. \E n \in 0..Len(toUi) : toUi' = SubSeq(toUi, 1, n)
            BY <1>10 DEF Closes, Dies, Ends
      <2>2. QED BY <1>1, <2>1, Shorter
<1>11. CASE \/ Connect \/ UiSends \/ UiLoses \/ Accept \/ CoreSteps \/ CannotConnect
            \/ Changes \/ Quit
      <2>1. UNCHANGED toUi
            BY <1>11 DEF Connect, UiSends, UiLoses, Accept, CoreSteps, Handle, Listed, Push,
               CannotConnect, Changes, Quit, wires
      <2>2. QED BY <1>2, <2>1
<1>12. CASE \/ \E kind \in {"query", "list", "open"} : Asks(kind)
            \/ \E o \in Options : Switches(o)
      <2>1. UNCHANGED toUi
            BY <1>12 DEF Asks, Switches, Invoke, wires
      <2>2. QED BY <1>2, <2>1
<1>13. CASE UNCHANGED vars
      BY <1>2, <1>13 DEF vars, wires
<1>14. QED BY <1>4, <1>5, <1>6, <1>7, <1>8, <1>9, <1>10, <1>11, <1>12, <1>13
          DEF Next, UiSteps, ConnSteps

LEMMA ReplyNamed ==
    ASSUME IpcInv, IdInv, [Next]_vars
    PROVE  reply' \in NamedOutcome
<1>1. reply \in NamedOutcome
      BY DEF IdInv, OutcomesNamed
<1>2. CASE UNCHANGED reply
      BY <1>1, <1>2
<1>3. CASE reply' \in {Error, Waits}
      BY <1>3, NamedAnswers
<1>4. CASE Enqueue
      <2>1. conn.req.id \in Ids
            BY <1>4 DEF Enqueue, IdInv, DaemonOK, CoreRequest
      <2>2. reply' = reply \/ reply' = Answer(conn.req.id, 0)
            BY <1>4 DEF Enqueue
      <2>3. QED BY <1>1, <2>1, <2>2, NamedAnswers
<1>5. CASE Relay \/ Quit
      <2>1. reply' \in {reply, Error, Waits}
            BY <1>5 DEF Relay, Quit
      <2>2. QED BY <1>1, <2>1, NamedAnswers
<1>6. CASE Handle
      <2>1. Head(queue).id \in Ids /\ nextWindow \in Nat
            BY <1>6, Handled DEF IpcInv, TypeInv
      <2>2. reply' \in {reply, Error, Answer(Head(queue).id, 0), Answer(Head(queue).id, nextWindow)}
            BY <1>6 DEF Handle, Replied
      <2>3. QED BY <1>1, <2>1, <2>2, NamedAnswers
<1>7. CASE Listed
      <2>1. reply' \in {reply, Error, Answer(listed, 0)}
            BY <1>7 DEF Listed, Replied
      <2>2. Answer(listed, 0) \in NamedOutcome
            <3>1. CASE listed \in Ids
                  BY <3>1, NamedAnswers
            <3>2. CASE listed = 0
                  BY <3>2, AnswerType DEF NamedOutcome
            <3>3. QED BY <3>1, <3>2 DEF IdInv, DaemonOK
      <2>3. QED BY <1>1, <2>1, <2>2, NamedAnswers
<1>8. CASE \/ UiSteps \/ Accept \/ TakeRequest \/ TimesOut
           \/ (\E w \in {"devices", "sessions"} : SendEvent(w))
           \/ Push \/ CannotConnect \/ Changes \/ Closes \/ Dies
      <2>1. UNCHANGED reply
            BY <1>8 DEF UiSteps, Connect, UiSends, UiReads, UiLoses, Accept, TakeRequest, TimesOut,
               SendEvent, Push, CannotConnect, Changes, Closes, Dies, daemon
      <2>2. QED BY <1>2, <2>1
<1>9. CASE \/ \E kind \in {"query", "list", "open"} : Asks(kind)
           \/ \E o \in Options : Switches(o)
      <2>1. UNCHANGED reply
            BY <1>9 DEF Asks, Switches, Invoke, daemon
      <2>2. QED BY <1>2, <2>1
<1>10. CASE UNCHANGED vars
      BY <1>2, <1>10 DEF vars, daemon
<1>11. QED BY <1>4, <1>5, <1>6, <1>7, <1>8, <1>9, <1>10 DEF Next, ConnSteps, CoreSteps

LEMMA InitIds ==
    ASSUME Init
    PROVE  IdInv
<1>1. /\ link = "none" /\ asked = <<>> /\ waiting = {} /\ calls = <<>>
      /\ toDaemon = <<>> /\ toUi = <<>> /\ queue = <<>> /\ reply = Waits
      /\ conn.at = "none" /\ core = "run" /\ listed = 0
      BY DEF Init, AtRest
<1>2. Len(calls) = 0 /\ Len(queue) = 0 /\ MaxCalls \in Nat /\ QueueLimit \in Nat
      BY <1>1, IpcAssumption
<1>3. OpenIds = {} /\ AskedIds = {}
      <2>1. FirstId..(Fresh - 1) = {}
            BY <1>2 DEF FirstId, Fresh
      <2>2. QED BY <1>1, <2>1 DEF OpenIds, AskedIds
<1>4. Tracked
      BY <1>1, <1>2, <1>3 DEF Tracked, LinkOK
<1>5. DaemonOK
      BY <1>1, <1>2 DEF DaemonOK
<1>6. OutcomesNamed
      BY <1>1, NamedAnswers DEF OutcomesNamed
<1>7. QED BY <1>4, <1>5, <1>6 DEF IdInv

LEMMA IdStep ==
    ASSUME IpcInv, IpcInv', IdInv, [Next]_vars
    PROVE  IdInv'
<1>1. DaemonOK'
      BY ToDaemonStep, ConnStep, QueueStep, ListedStep DEF DaemonOK
<1>2. OutcomesNamed'
      BY CallsNamed, FramesNamed, ReplyNamed DEF OutcomesNamed
<1>3. QED BY <1>1, <1>2, TrackedStep DEF IdInv

LEMMA IdHolds == Spec => []IdInv
<1>1. Init => IdInv
      BY InitIds
<1>2. IpcInv /\ IpcInv' /\ IdInv /\ [Next]_vars => IdInv'
      BY IdStep
<1>3. QED BY <1>1, <1>2, IpcInvariant, PTL DEF Spec

-----------------------------------------------------------------------------
(* What follows from the ids.                                                *)

(* The types of the connection, the task and Core; and the commands that wait for *)
(* Core never exceed its channel.                                             *)
THEOREM TypeCorrect == Spec => []TypeOK
<1>1. IpcInv /\ IdInv => TypeOK
      <2>1. SUFFICES ASSUME IpcInv, IdInv PROVE TypeOK
            OBVIOUS
      <2>2. link \in {"none", "up", "down"} /\ waiting \subseteq Ids
            BY <2>1, OpenIdsInIds DEF IdInv, Tracked, LinkOK
      <2>3. NamedOutcome \subseteq Result
            BY DEF NamedOutcome, Outcome, Result
      <2>4. calls \in Seq(Result) /\ Len(calls) <= MaxCalls
            <3>1. calls \in Seq(NamedOutcome)
                  BY <2>1 DEF IdInv, OutcomesNamed
            <3>2. DOMAIN calls = 1..Len(calls) /\ Len(calls) \in Nat
                  BY <3>1
            <3>3. calls \in [1..Len(calls) -> Result]
                  BY <2>3, <3>1, <3>2
            <3>4. calls \in Seq(Result)
                  BY <3>2, <3>3, FunctionSeq
            <3>5. QED BY <2>1, <3>4 DEF IdInv, Tracked
      <2>5. /\ conn.at \in {"none", "idle", "queue", "wait", "closed"}
            /\ conn.req.kind \in Kinds
            BY <2>1 DEF IpcInv, TypeInv, Request, Kinds
      <2>6. Len(queue) <= QueueLimit /\ reply \in Result
            BY <2>1, <2>3 DEF IdInv, DaemonOK, OutcomesNamed
      <2>7. core \in {"run", "listing", "off"} /\ listed \in {0} \cup Ids
            BY <2>1 DEF IdInv, DaemonOK
      <2>8. page.cfg \in Settings /\ session.cfg \in Settings
            BY <2>1 DEF IpcInv, TypeInv, Summary
      <2>9. QED BY <2>2, <2>4, <2>5, <2>6, <2>7, <2>8 DEF TypeOK
<1>2. QED BY <1>1, IpcInvariant, IdHolds, PTL

(* Whatever became of the connection, no call was left behind: without a        *)
(* connection no call is waiting, for there is nobody left who would answer it.   *)
NoneForgotten == link # "up" => \A c \in DOMAIN calls : calls[c] # Waits

THEOREM NoneLeftWaiting == Spec => []NoneForgotten
<1>1. IpcInv /\ IdInv => NoneForgotten
      <2>1. SUFFICES ASSUME IpcInv, IdInv, link # "up", NEW c \in DOMAIN calls
                     PROVE  calls[c] # Waits
            BY DEF NoneForgotten
      <2>2. OpenIds = {}
            BY <2>1 DEF IdInv, Tracked, LinkOK, AskedIds
      <2>3. /\ Len(calls) \in Nat /\ DOMAIN calls = 1..Len(calls)
            /\ OpenIds = {id \in 3..(Len(calls) + 2) : calls[id - 2] = Waits}
            BY <2>1, CallTypes
      <2>4. c + 2 \in 3..(Len(calls) + 2) /\ (c + 2) - 2 = c
            BY <2>1, <2>3
      <2>5. QED BY <2>2, <2>3, <2>4
<1>2. QED BY <1>1, IpcInvariant, IdHolds, PTL

-----------------------------------------------------------------------------
(* The calls are those of CallService.                                       *)

LEMMA SameOutcomes ==
    /\ Service!Waits = Waits /\ Service!Error = Error
    /\ \A id, window : Service!Answer(id, window) = Answer(id, window)
BY DEF Service!Waits, Waits, Service!Error, Error, Service!Answer, Answer

(* An outcome that is on its way to a call names no window that another call has. *)
LEMMA WindowIsNew ==
    ASSUME IpcInv, NEW id \in OpenIds, NEW r \in Outcomes, r.of = id, r.window # 0
    PROVE  r.window \notin Service!Windows
<1>1. /\ calls \in Seq(Outcome) /\ DOMAIN calls = 1..Len(calls) /\ Len(calls) \in Nat
      /\ OpenIds = {x \in 3..(Len(calls) + 2) : calls[x - 2] = Waits}
      BY CallTypes
<1>2. id \in 3..(Len(calls) + 2) /\ calls[id - 2] = Waits
      BY <1>1
<1>3. ASSUME NEW c \in DOMAIN calls, calls[c].window = r.window
      PROVE  FALSE
      <2>1. calls[c] \in Outcome /\ calls[c] \in Outcomes
            BY <1>1 DEF Outcomes
      <2>2. calls[c].state = "ok"
            BY <1>3, <2>1 DEF Outcome
      <2>3. calls[c].of = c + 2
            BY <1>1, <2>2 DEF IpcInv, CallsOK, FirstId
      <2>4. calls[c].of = id
            BY <1>3, <2>1 DEF IpcInv, WindowsOK
      <2>5. c = id - 2
            BY <1>1, <1>2, <2>3, <2>4
      <2>6. calls[c].state = "waits"
            BY <1>2, <2>5 DEF Waits
      <2>7. QED BY <2>2, <2>6
<1>4. QED BY <1>3 DEF Service!Windows

LEMMA SetServes ==
    ASSUME IpcInv, NEW id \in OpenIds, NEW r \in NamedOutcome \ {Waits}, OldOrBare(r),
           r.state = "ok" => r.of = id, calls' = [calls EXCEPT ![id - FirstId + 1] = r]
    PROVE  Service!Next
<1> DEFINE c == id - 2
<1>1. /\ calls \in Seq(Outcome) /\ DOMAIN calls = 1..Len(calls) /\ Len(calls) \in Nat
      /\ OpenIds = {x \in 3..(Len(calls) + 2) : calls[x - 2] = Waits}
      BY CallTypes
<1>2. id - FirstId + 1 = c /\ c \in DOMAIN calls /\ calls[c] = Waits /\ c + FirstId - 1 = id
      BY <1>1 DEF FirstId
<1> HIDE DEF c
<1>3. calls' = [calls EXCEPT ![c] = r] /\ calls'[c] = r /\ c \in Service!Waiting
      BY <1>2, SameOutcomes DEF Service!Waiting
<1>4. CASE r = Error
      <2>1. calls' = [d \in DOMAIN calls |-> IF d \in {c} THEN Error ELSE calls[d]]
            BY <1>3, <1>4
      <2>2. {c} \in SUBSET Service!Waiting
            BY <1>3
      <2>3. Service!Fail
            BY <2>1, <2>2, SameOutcomes DEF Service!Fail
      <2>4. QED BY <2>3 DEF Service!Next
<1>5. CASE r.state = "ok"
      <2>1. r = Answer(id, r.window)
            <3>1. r \in [state : {"waits", "ok", "error"}, of : Nat, window : Nat]
                  BY DEF NamedOutcome, Outcome
            <3>2. QED BY <1>5, <3>1 DEF Answer
      <2>2. r.window \notin Service!Windows
            <3>1. CASE r.window = 0
                  BY <3>1 DEF Service!Windows
            <3>2. CASE r.window # 0
                  BY <1>5, <3>2, WindowIsNew DEF OldOrBare
            <3>3. QED BY <3>1, <3>2
      <2>3. calls' = [calls EXCEPT ![c] = Service!Answer(c + FirstId - 1, calls'[c].window)]
            BY <1>2, <1>3, <2>1, SameOutcomes
      <2>4. calls'[c].window \notin Service!Windows
            BY <1>3, <2>2
      <2>5. Service!Succeed
            BY <1>3, <2>3, <2>4 DEF Service!Succeed
      <2>6. QED BY <2>5 DEF Service!Next
<1>6. QED BY <1>4, <1>5 DEF NamedOutcome

LEMMA StepServes ==
    ASSUME IpcInv, IdInv, [Next]_vars
    PROVE  Service!Next \/ UNCHANGED calls
<1>1. Error \in NamedOutcome \ {Waits} /\ OldOrBare(Error) /\ Error.state # "ok"
      BY NamedAnswers DEF OldOrBare, Error
<1>2. CASE UiSends
      <2>1. asked # <<>> /\ asked \in Seq(Request) /\ DOMAIN asked = 1..Len(asked) /\ Len(asked) \in Nat
            BY <1>2, CallTypes DEF UiSends
      <2>2. Head(asked) = asked[1] /\ 1 \in DOMAIN asked
            BY <2>1
      <2>3. Head(asked).id \in OpenIds
            BY <2>2 DEF IdInv, Tracked, AskedIds
      <2>4. calls' = calls \/ calls' = [calls EXCEPT ![Head(asked).id - FirstId + 1] = Error]
            BY <1>2 DEF UiSends
      <2>5. QED BY <1>1, <2>3, <2>4, SetServes
<1>3. CASE UiReads
      <2> DEFINE f == Head(toUi)
      <2>1. toUi # <<>> /\ toUi \in Seq(Frame) /\ toUi \in Seq(NamedFrame)
            BY <1>3 DEF UiReads, IpcInv, TypeInv, IdInv, OutcomesNamed
      <2>2. f \in Frame /\ f \in NamedFrame /\ f = toUi[1] /\ 1 \in DOMAIN toUi
            BY <2>1
      <2>3. f.type \in {"answer", "devices", "sessions"}
            BY <2>2 DEF Frame, AnswerFrame
      <2>4. \/ calls' = calls
            \/ /\ f.type = "answer" /\ f.id \in waiting
               /\ calls' = [calls EXCEPT ![f.id - FirstId + 1] = f.result]
            BY <1>3, <2>3 DEF UiReads
      <2> HIDE DEF f
      <2>5. CASE /\ f.type = "answer" /\ f.id \in waiting
                 /\ calls' = [calls EXCEPT ![f.id - FirstId + 1] = f.result]
            <3>1. f.id \in OpenIds
                  BY <2>5 DEF IdInv, Tracked
            <3>2. f.result \in NamedOutcome \ {Waits}
                  BY <2>2, <2>5 DEF NamedFrame
            <3>3. f.result.state = "ok" => f.result.of = f.id
                  BY <2>2, <2>5 DEF Frame, AnswerFrame
            <3>4. OldOrBare(f.result)
                  BY <2>2, <2>5, OutcomesOld
            <3>5. QED BY <2>5, <3>1, <3>2, <3>3, <3>4, SetServes
      <2>6. QED BY <2>4, <2>5
<1>4. CASE UiLoses
      <2> DEFINE failed == {c \in DOMAIN calls : calls[c] = Waits /\ c + FirstId - 1 \in waiting \cup AskedIds}
      <2>1. calls' = [c \in DOMAIN calls |-> IF c \in failed THEN Error ELSE calls[c]]
            BY <1>4 DEF UiLoses, AskedIds
      <2>2. failed \in SUBSET Service!Waiting
            BY SameOutcomes DEF Service!Waiting
      <2> HIDE DEF failed
      <2>3. Service!Fail
            BY <2>1, <2>2, SameOutcomes DEF Service!Fail
      <2>4. QED BY <2>3 DEF Service!Next
<1>5. CASE Connect \/ CannotConnect \/ ConnSteps \/ CoreSteps \/ Closes \/ Changes \/ Quit \/ Dies
      BY <1>5 DEF Connect, CannotConnect, ConnSteps, CoreSteps, Accept, TakeRequest, Enqueue,
         Relay, TimesOut, SendEvent, Handle, Listed, Push, Closes, Changes, Quit, Dies, ui
<1>6. CASE \/ \E kind \in {"query", "list", "open"} : Asks(kind)
           \/ \E o \in Options : Switches(o)
      <2>1. PICK r \in {Waits, Error} : calls' = Append(calls, r)
            BY <1>6 DEF Asks, Switches, Invoke
      <2>2. Service!Ask
            BY <2>1, SameOutcomes DEF Service!Ask
      <2>3. QED BY <2>2 DEF Service!Next
<1>7. CASE UNCHANGED vars
      BY <1>7 DEF vars, ui
<1>8. QED BY <1>2, <1>3, <1>4, <1>5, <1>6, <1>7 DEF Next, UiSteps

(* However calls overlap, time out and are answered late, and however the daemon    *)
(* ends, the UI's calls are those of CallService: one outcome each, its own, and   *)
(* no window twice.                                                           *)
THEOREM IpcImplements == Spec => ImplementsCalls
<1>1. Init => Service!Init
      BY DEF Init, Service!Init
<1>2. IpcInv /\ IdInv /\ [Next]_vars => [Service!Next]_calls
      BY StepServes
<1>3. QED BY <1>1, <1>2, IpcInvariant, IdHolds, PTL DEF Spec, ImplementsCalls, Service!Spec

(* A call's outcome is final: a late, second or stray answer, a time-out and the   *)
(* end of the connection leave a call that has one as it is.                    *)
Kept == \A c \in DOMAIN calls : calls[c] # Waits => c \in DOMAIN calls' /\ calls'[c] = calls[c]
OutcomeIsFinal == [][Kept]_vars

THEOREM AnsweredOnce == Spec => OutcomeIsFinal
<1>1. ASSUME IpcInv, Service!Next \/ UNCHANGED calls
      PROVE  Kept
      <2>1. calls \in Seq(Outcome) /\ Len(calls) \in Nat /\ DOMAIN calls = 1..Len(calls)
            BY <1>1, CallTypes
      <2>2. CASE Service!Ask
            <3>1. PICK r \in {Waits, Error} : calls' = Append(calls, r)
                  BY <2>2, SameOutcomes DEF Service!Ask
            <3>2. r \in Outcome
                  BY ErrorType
            <3>3. QED BY <2>1, <3>1, <3>2 DEF Kept
      <2>3. CASE Service!Fail
            BY <2>3, SameOutcomes DEF Service!Fail, Service!Waiting, Kept
      <2>4. CASE Service!Succeed
            BY <2>4, SameOutcomes DEF Service!Succeed, Service!Waiting, Kept
      <2>5. CASE UNCHANGED calls
            BY <2>5 DEF Kept
      <2>6. QED BY <1>1, <2>2, <2>3, <2>4, <2>5 DEF Service!Next
<1>2. IpcInv /\ IdInv /\ [Next]_vars => [Kept]_vars
      BY <1>1, StepServes
<1>3. QED BY <1>2, IpcInvariant, IdHolds, PTL DEF Spec, OutcomeIsFinal

=============================================================================
