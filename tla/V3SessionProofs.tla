--------------------------- MODULE V3SessionProofs ---------------------------
(***************************************************************************)
(* Theorems about V3Session, for every number of sessions, clients and     *)
(* calls and every capacity of the pipe; and, first, the one about the     *)
(* time at which its network thread wakes up, which is a module of its own *)
(* (V3Keepalive) and shares no variable with it.                           *)
(***************************************************************************)
EXTENDS V3Session, V3Keepalive, TLAPS

\* V3Keepalive.  KeepsTime is inductive once it is known what the timeout is
\* in select(): what is left of the interval.
Due == Interval * Second

\* What is left of the interval after d, if anything.
Left(d) == IF d < Due THEN Due - d ELSE 0

KAInv ==
  /\ stage \in {"call", "select", "handle"}
  /\ {now, last_timestamp, tv, since, gap} \subseteq Nat
  /\ busy \in BOOLEAN /\ set \in BOOLEAN
  /\ gap >= Due
  /\ ~set => /\ now = last_timestamp + since
             /\ since > Due => busy
             /\ stage = "select" => tv = Left(since)

\* Seconds and microseconds: the parts of a time, and the time they are.
LEMMA Parts ==
  ASSUME NEW t \in Nat
  PROVE  \E q \in Nat, r \in 0..(Second - 1) :
           Timeval(t) = [sec |-> q, usec |-> r] /\ t = q * Second + r
<1>1. t \div Second \in Nat /\ t % Second \in 0..(Second - 1)
  BY KeepaliveAssumption
<1>2. Second \in Int /\ Second > 0 /\ t \in Int
  BY KeepaliveAssumption
<1>3. t = (t \div Second) * Second + (t % Second)
  BY <1>2, Z3
<1> QED
  BY <1>1, <1>3 DEF Timeval

\* The time that a number of seconds is has the sign of the number.
LEMMA Whole ==
  ASSUME NEW a \in Int
  PROVE  /\ a * Second \in Int
         /\ a >= 0 => a * Second >= 0
         /\ a < 0 => a * Second =< -Second
  BY KeepaliveAssumption

LEMMA Times ==
  ASSUME NEW a \in Int, NEW b \in Int, NEW c \in Int
  PROVE  (a + b - c) * Second = a * Second + b * Second - c * Second
  BY KeepaliveAssumption

\* One second is borrowed if it is needed, never more.
LEMMA BorrowIs ==
  ASSUME NEW a \in Nat, NEW lu \in 0..(Second - 1), NEW ns \in Nat, NEW nu \in 0..(Second - 1),
         NEW last, last = [sec |-> a, usec |-> lu], NEW n, n = [sec |-> ns, usec |-> nu]
  PROVE  Borrow(last, n) =
           IF lu < nu THEN [sec |-> ns + 1, usec |-> nu - Second] ELSE [sec |-> ns, usec |-> nu]
<1>1. CASE lu < nu
  <2>1. nu - lu \in Nat /\ nu - lu > 0 /\ nu - lu < Second
    BY <1>1, KeepaliveAssumption
  <2>2. (nu - lu) \div Second = 0
    BY <2>1, KeepaliveAssumption
  <2> QED
    BY <1>1, <2>2, KeepaliveAssumption DEF Borrow
<1>2. CASE ~(lu < nu)
  BY <1>2 DEF Borrow
<1> QED
  BY <1>1, <1>2

\* _v3_next_timestamp returns what is left of the interval, in seconds and
\* in microseconds that select() takes.
LEMMA NextIsLeft ==
  ASSUME NEW t \in Nat, NEW n \in Nat, NEW r, r = NextTimestamp(t, n)
  PROVE  Valid(r) /\ r.sec * Second + r.usec = IF n < t + Due THEN t + Due - n ELSE 0
<1>0. PICK tq \in Nat, tr \in 0..(Second - 1) :
        Timeval(t) = [sec |-> tq, usec |-> tr] /\ t = tq * Second + tr
  BY Parts
<1>1. PICK nq \in Nat, nr \in 0..(Second - 1) :
        Timeval(n) = [sec |-> nq, usec |-> nr] /\ n = nq * Second + nr
  BY Parts
<1>2. PICK bs \in 0..1 : bs = IF tr < nr THEN 1 ELSE 0
  OBVIOUS
<1>3. PICK sec \in Int, usec \in 0..(Second - 1) :
        sec = tq + Interval - (nq + bs) /\ usec = tr - nr + bs * Second
  <2>1. tq + Interval - (nq + bs) \in Int
    BY KeepaliveAssumption
  <2>2. tr - nr + bs * Second \in 0..(Second - 1)
    <3>1. CASE tr < nr
      BY <1>2, <3>1, KeepaliveAssumption
    <3>2. CASE ~(tr < nr)
      BY <1>2, <3>2, KeepaliveAssumption
    <3> QED
      BY <3>1, <3>2
  <2> QED
    BY <2>1, <2>2
<1>4. r = IF sec < 0 THEN [sec |-> 0, usec |-> 0] ELSE [sec |-> sec, usec |-> usec]
  <2>1. PICK last : last = [Timeval(t) EXCEPT !.sec = @ + Interval]
    OBVIOUS
  <2>2. PICK a \in Nat : a = tq + Interval
    BY KeepaliveAssumption
  <2>3. last = [sec |-> a, usec |-> tr]
    BY <1>0, <2>1, <2>2
  <2>4. PICK b : b = Borrow(last, Timeval(n))
    OBVIOUS
  <2>5. b = IF tr < nr THEN [sec |-> nq + 1, usec |-> nr - Second] ELSE [sec |-> nq, usec |-> nr]
    BY <1>1, <2>3, <2>4, BorrowIs
  <2>6. b.sec = nq + bs /\ b.usec = nr - bs * Second
    BY <1>2, <2>5, KeepaliveAssumption
  <2>7. r = LET result == [sec |-> last.sec - b.sec, usec |-> last.usec - b.usec]
            IN IF result.sec < 0 THEN [sec |-> 0, usec |-> 0] ELSE result
    BY <2>1, <2>4 DEF NextTimestamp
  <2>8. last.usec - b.usec = usec /\ last.sec - b.sec = sec
    BY <1>2, <1>3, <2>2, <2>3, <2>6, KeepaliveAssumption
  <2> QED
    BY <2>7, <2>8
<1>5. sec * Second + usec = t + Due - n
  <2>1. sec * Second = tq * Second + Interval * Second - (nq + bs) * Second
    BY <1>3, Times, KeepaliveAssumption
  <2>2. (nq + bs) * Second = nq * Second + bs * Second
    BY <1>2, KeepaliveAssumption
  <2>3. tq * Second \in Int /\ nq * Second \in Int /\ bs * Second \in Int /\ Interval * Second \in Int
    BY Whole, KeepaliveAssumption
  <2> QED
    BY <1>0, <1>1, <1>3, <2>1, <2>2, <2>3 DEF Due
<1>6. Due \in Nat
  BY KeepaliveAssumption DEF Due
<1>7. CASE sec < 0
  <2>1. sec * Second + usec < 0
    BY <1>3, <1>7, Whole, KeepaliveAssumption
  <2>2. 0 * Second = 0 /\ 0 \in 0..(Second - 1)
    BY KeepaliveAssumption
  <2> QED
    BY <1>4, <1>5, <1>6, <1>7, <2>1, <2>2 DEF Valid
<1>8. CASE sec >= 0
  <2>1. sec * Second + usec >= 0
    BY <1>3, <1>8, Whole, KeepaliveAssumption
  <2>2. r = [sec |-> sec, usec |-> usec]
    BY <1>3, <1>4, <1>8
  <2> QED
    BY <1>5, <1>6, <2>1, <2>2 DEF Valid
<1> QED
  BY <1>3, <1>7, <1>8
\* The timeout is set to what is left.
LEMMA WaitsRest ==
  ASSUME NEW t \in Nat, NEW n \in Nat, Wait(NextTimestamp(t, n))
  PROVE  stage' = "select" /\ tv' = IF n < t + Due THEN t + Due - n ELSE 0
  BY NextIsLeft DEF Wait

LEMMA KAStep == KAInv /\ [KANext]_KAvars => KAInv'
<1> SUFFICES ASSUME KAInv, [KANext]_KAvars PROVE KAInv'
  OBVIOUS
<1> USE DEF KAInv
<1>0. Due \in Nat
  BY KeepaliveAssumption DEF Due
<1>1. CASE Call
  <2>1. /\ stage' = "select" /\ tv' = IF now < last_timestamp + Due THEN last_timestamp + Due - now ELSE 0
        /\ UNCHANGED <<now, last_timestamp, since, gap, busy, set>>
    BY <1>1, WaitsRest DEF Call
  <2> QED
    BY <1>0, <2>1 DEF Left
<1>2. CASE Timeout
  <2>1. /\ stage' = "select" /\ tv' = IF now < now + Due THEN now + Due - now ELSE 0
    BY <1>2, WaitsRest DEF Timeout
  <2>2. /\ stage = "select" /\ tv = 0
        /\ now' = now /\ last_timestamp' = now
        /\ since' = 0 /\ gap' = (IF set THEN gap ELSE since) /\ ~busy' /\ ~set'
    BY <1>2 DEF Timeout
  <2>3. gap' >= Due
    BY <1>0, <2>2 DEF Left
  <2>4. tv' = Left(0) /\ tv' \in Nat
    BY <1>0, <2>1 DEF Left
  <2>5. busy' \in BOOLEAN /\ set' \in BOOLEAN
    BY <1>2 DEF Timeout
  <2> QED
    BY <1>0, <2>1, <2>2, <2>3, <2>4, <2>5
<1>3. CASE Return \/ Handled \/ Arrive
  BY <1>3 DEF Return, Handled, Arrive
<1>4. CASE Tick
  <2>1. /\ now' = now + 1 /\ since' = since + 1
        /\ UNCHANGED <<stage, last_timestamp, gap, set>>
    BY <1>4 DEF Tick
  <2>2. CASE stage = "select" /\ tv > 0 /\ tv' = tv - 1 /\ UNCHANGED busy
    BY <1>0, <2>1, <2>2 DEF Left
  <2>3. CASE stage = "handle" /\ busy' = (busy \/ since >= Interval * Second) /\ UNCHANGED tv
    <3>1. busy' \in BOOLEAN /\ (since >= Due => busy') /\ (busy => busy')
      BY <2>3 DEF Due
    <3> QED
      BY <1>0, <2>1, <2>3, <3>1
  <2> QED
    BY <1>4, <2>2, <2>3 DEF Tick
<1>5. CASE SetClock
  <2>1. now' \in Nat /\ set' /\ set' \in BOOLEAN
    BY <1>5, KeepaliveAssumption DEF SetClock
  <2> QED
    BY <1>5, <2>1 DEF SetClock
<1>6. CASE UNCHANGED KAvars
  BY <1>6 DEF KAvars
<1> QED
  BY <1>1, <1>2, <1>3, <1>4, <1>5, <1>6 DEF KANext, Thread

\* For a second, an interval and a clock of any length: select() gets a timeout
\* it can take, timestamps are never early, and one is late only if the thread
\* handled something when it was due (libventrilo3.c:389-415, 1319-1386).
THEOREM TimeIsKept == KASpec => []KeepsTime
<1>1. KAInit => KAInv
  <2>1. Due \in Nat
    BY KeepaliveAssumption DEF Due
  <2> SUFFICES ASSUME KAInit PROVE KAInv
    OBVIOUS
  <2>2. gap = Due /\ since = 0 /\ tv = 0 /\ now = last_timestamp /\ stage = "call"
    BY DEF KAInit, Due
  <2>3. now \in Nat
    BY KeepaliveAssumption DEF KAInit
  <2>4. busy \in BOOLEAN /\ set \in BOOLEAN
    BY DEF KAInit
  <2> QED
    BY <2>1, <2>2, <2>3, <2>4 DEF KAInv
<1>2. KAInv => KeepsTime
  BY DEF KAInv, KeepsTime, Due
<1> QED
  BY <1>1, <1>2, KAStep, PTL DEF KASpec
-----------------------------------------------------------------------------

USE SessionAssumption DEF Sessions

\* Every step is one of these, which is how the proofs below split Next.
LEMMA NextCases ==
  ASSUME Next
  PROVE  \/ Connect \/ GetEvent
         \/ \E s \in Sessions :
              \/ LoginPipe(s) \/ LoginConnect(s) \/ LoginFailed(s)
              \/ RecvClosed(s) \/ SelectEvent(s) \/ SelectMsg(s) \/ SelectFails(s)
              \/ DrainOne(s) \/ DrainEnd(s)
              \/ ReadFails(s) \/ ReadOther(s) \/ ReadReady(s)
              \/ (\E type \in {"0x06", "0x59"} : ReadError(s, type))
              \/ ReadKick(s) \/ ReadBye(s)
              \/ LogoutQueue(s) \/ LogoutClose(s) \/ LogoutFree(s)
         \/ \E c \in Clients :
              \/ \E op \in Ops : ApiCheck(c, op)
              \/ ApiReadFd(c) \/ EvpipeWrite(c)
  BY DEF Next, Network, Api, LoginStep, RecvStep, PacketStep, LogoutStep

LEMMA EmptySeq == ASSUME NEW S PROVE <<>> \in Seq(S)
  OBVIOUS

LEMMA AppendType ==
  ASSUME NEW S, NEW q \in Seq(S), NEW e \in S
  PROVE  Append(q, e) \in Seq(S) /\ Len(Append(q, e)) = Len(q) + 1
  OBVIOUS

LEMMA QueueType ==
  ASSUME eventq \in Seq(AppEvents), NEW s \in Sessions,
         NEW type \in {"LOGIN_COMPLETE", "ERROR_MSG", "DISCONNECT"}, Queue(s, type)
  PROVE  eventq' \in Seq(AppEvents)
  BY DEF Queue, AppEvents

\* The values of every variable, in every reachable state.
THEOREM TypeCorrect == Spec => []TypeOK
<1>1. Init => TypeOK
  <2> SUFFICES ASSUME Init PROVE TypeOK
    OBVIOUS
  <2>1. call \in [Clients -> Calls]
    BY DEF Init, Calls
  <2>2. pc \in [Sessions -> PCs] /\ phase \in [Sessions -> Phases] /\ caller \in [Sessions -> Callers]
    BY DEF Init, PCs, Phases, Callers
  <2>3. pipe \in Seq(PipeEvents) /\ sent \in Seq(Packets) /\ eventq \in Seq(AppEvents)
    BY EmptySeq DEF Init
  <2>4. both \in [Sessions -> BOOLEAN] /\ notified \in [Sessions -> Nat]
    BY DEF Init
  <2>5. /\ sockd \in 0..MaxSessions /\ evpipe \in 0..MaxSessions
        /\ sendq \in 0..MaxSessions /\ session \in 0..MaxSessions
        /\ loggedin \in BOOLEAN /\ online \in BOOLEAN /\ written \in Nat
    <3>1. 0 \in 0..MaxSessions
      OBVIOUS
    <3>2. QED
      BY <3>1 DEF Init
  <2>6. Len(pipe) <= PipeCap
    BY SessionAssumption DEF Init
  <2>7. QED
    BY <2>1, <2>2, <2>3, <2>4, <2>5, <2>6, Zenon DEF TypeOK
<1>2. TypeOK /\ [Next]_vars => TypeOK'
  <2> SUFFICES ASSUME TypeOK, [Next]_vars PROVE TypeOK'
    OBVIOUS
  <2> USE DEF TypeOK, Goto, netVars, connVars, pipeVars, apiVars, appVars
  <2>1. CASE Connect
    <3>1. pc' \in [Sessions -> PCs]
      BY <2>1 DEF Connect, PCs
    <3>2. session' \in 0..MaxSessions /\ online' \in BOOLEAN
      BY <2>1 DEF Connect
    <3>3. QED
      BY <2>1, <3>1, <3>2 DEF Connect
  <2>2. CASE GetEvent
    <3>1. eventq' \in Seq(AppEvents)
      BY <2>2 DEF GetEvent
    <3>2. online' \in BOOLEAN
      BY <2>2 DEF GetEvent
    <3>3. QED
      BY <2>2, <3>1, <3>2 DEF GetEvent
  <2>3. ASSUME NEW s \in Sessions, LoginPipe(s) PROVE TypeOK'
    <3>1. pc' \in [Sessions -> PCs]
      BY <2>3 DEF LoginPipe, PCs
    <3>2. evpipe' \in 0..MaxSessions
      BY <2>3 DEF LoginPipe
    <3>3. pipe' \in Seq(PipeEvents)
      <4>1. pipe' = pipe \/ pipe' = <<>>
        BY <2>3, Zenon DEF LoginPipe
      <4>2. <<>> \in Seq(PipeEvents)
        BY EmptySeq, Zenon
      <4>3. QED
        BY <4>1, <4>2, Zenon
    <3>4. Len(pipe') <= PipeCap
      BY <2>3 DEF LoginPipe
    <3>5. QED
      BY <2>3, <3>1, <3>2, <3>3, <3>4 DEF LoginPipe
  <2>4. ASSUME NEW s \in Sessions, LoginConnect(s) PROVE TypeOK'
    <3>1. pc' \in [Sessions -> PCs]
      BY <2>4 DEF LoginConnect, PCs
    <3>2. sockd' \in 0..MaxSessions
      BY <2>4 DEF LoginConnect
    <3>3. QED
      BY <2>4, <3>1, <3>2 DEF LoginConnect
  <2>5. ASSUME NEW s \in Sessions, LoginFailed(s) PROVE TypeOK'
    BY <2>5 DEF LoginFailed, PCs
  <2>6. ASSUME NEW s \in Sessions, RecvClosed(s) PROVE TypeOK'
    BY <2>6 DEF RecvClosed, PCs, AfterNull
  <2>7. ASSUME NEW s \in Sessions, SelectEvent(s) PROVE TypeOK'
    BY <2>7 DEF SelectEvent, PCs
  <2>8. ASSUME NEW s \in Sessions, SelectMsg(s) PROVE TypeOK'
    BY <2>8 DEF SelectMsg, PCs
  <2>25. ASSUME NEW s \in Sessions, SelectFails(s) PROVE TypeOK'
    BY <2>25 DEF SelectFails, PCs
  <2>9. ASSUME NEW s \in Sessions, DrainOne(s) PROVE TypeOK'
    <3>1. pc' \in [Sessions -> PCs]
      BY <2>9 DEF DrainOne, PCs, CallLogout
    <3>2. caller' \in [Sessions -> Callers]
      BY <2>9 DEF DrainOne, Callers, CallLogout
    <3>3. pipe' \in Seq(PipeEvents) /\ Len(pipe') <= PipeCap
      BY <2>9 DEF DrainOne, PipeReadable
    <3>4. sent' \in Seq(Packets)
      <4>1. Head(pipe) \in PipeEvents /\ Head(pipe).id \in Nat
        <5>1. pipe # <<>> /\ pipe \in Seq(PipeEvents)
          BY <2>9 DEF DrainOne, PipeReadable
        <5>2. Head(pipe) \in PipeEvents
          BY <5>1
        <5>3. QED
          BY <5>2 DEF PipeEvents
      <4>2. sockd # 0 => [id |-> Head(pipe).id, on |-> sockd] \in Packets
        BY <4>1 DEF Packets
      <4>3. sent' = sent \/ sent' = Transmit(Head(pipe))
        BY <2>9 DEF DrainOne
      <4>4. CASE sockd = 0 \/ sent' = sent
        BY <4>3, <4>4 DEF Transmit
      <4>5. CASE sockd # 0 /\ sent' = Transmit(Head(pipe))
        BY <4>2, <4>5 DEF Transmit
      <4>6. QED
        BY <4>3, <4>4, <4>5
    <3>5. QED
      BY <2>9, <3>1, <3>2, <3>3, <3>4 DEF DrainOne
  <2>10. ASSUME NEW s \in Sessions, DrainEnd(s) PROVE TypeOK'
    BY <2>10 DEF DrainEnd, PCs
  <2>11. ASSUME NEW s \in Sessions, ReadFails(s) PROVE TypeOK'
    <3>1. pc' \in [Sessions -> PCs]
      BY <2>11 DEF ReadFails, PCs, CallLogout
    <3>2. caller' \in [Sessions -> Callers]
      BY <2>11 DEF ReadFails, Callers, CallLogout
    <3>3. sockd' \in 0..MaxSessions
      BY <2>11 DEF ReadFails
    <3>4. loggedin' \in BOOLEAN
      BY <2>11 DEF ReadFails
    <3>5. QED
      BY <2>11, <3>1, <3>2, <3>3, <3>4 DEF ReadFails
  <2>12. ASSUME NEW s \in Sessions, ReadOther(s) PROVE TypeOK'
    BY <2>12 DEF ReadOther, PCs, Phases, LoopTest
  <2>13. ASSUME NEW s \in Sessions, ReadReady(s) PROVE TypeOK'
    BY <2>13 DEF ReadReady, PCs, Phases, Queue, AppEvents
  <2>14. ASSUME NEW s \in Sessions, ReadKick(s) PROVE TypeOK'
    <3>1. pc' \in [Sessions -> PCs]
      BY <2>14 DEF ReadKick, PCs, CallLogout
    <3>2. caller' \in [Sessions -> Callers]
      BY <2>14 DEF ReadKick, Callers, CallLogout
    <3>3. eventq' \in Seq(AppEvents)
      BY <2>14, QueueType DEF ReadKick
    <3>4. QED
      BY <2>14, <3>1, <3>2, <3>3 DEF ReadKick
  <2>15. ASSUME NEW s \in Sessions, ReadBye(s) PROVE TypeOK'
    BY <2>15 DEF ReadBye, PCs, Callers, CallLogout
  <2>16. ASSUME NEW s \in Sessions, LogoutQueue(s) PROVE TypeOK'
    <3>1. pc' \in [Sessions -> PCs]
      BY <2>16 DEF LogoutQueue, PCs
    <3>2. eventq' \in Seq(AppEvents)
      BY <2>16 DEF LogoutQueue, Queue, AppEvents
    <3>3. notified' \in [Sessions -> Nat]
      BY <2>16 DEF LogoutQueue
    <3>4. QED
      BY <2>16, <3>1, <3>2, <3>3 DEF LogoutQueue
  <2>17. ASSUME NEW s \in Sessions, LogoutClose(s) PROVE TypeOK'
    <3>1. pc' \in [Sessions -> PCs]
      BY <2>17 DEF LogoutClose, PCs
    <3>2. sockd' \in 0..MaxSessions
      BY <2>17 DEF LogoutClose
    <3>3. loggedin' \in BOOLEAN
      BY <2>17 DEF LogoutClose
    <3>4. QED
      BY <2>17, <3>1, <3>2, <3>3 DEF LogoutClose
  <2>18. ASSUME NEW s \in Sessions, LogoutFree(s) PROVE TypeOK'
    <3>1. pc' \in [Sessions -> PCs]
      BY <2>18 DEF LogoutFree, PCs, Callers, Phases, AfterLogout, AfterNull, LoopTest
    <3>2. phase' \in [Sessions -> Phases]
      BY <2>18 DEF LogoutFree, Phases
    <3>3. evpipe' \in 0..MaxSessions
      BY <2>18 DEF LogoutFree
    <3>4. pipe' \in Seq(PipeEvents) /\ Len(pipe') <= PipeCap
      BY <2>18, EmptySeq DEF LogoutFree
    <3>5. eventq' \in Seq(AppEvents)
      BY <2>18, QueueType DEF LogoutFree
    <3>6. caller' \in [Sessions -> Callers]
      BY <2>18 DEF LogoutFree, Callers
    <3>7. QED
      BY <2>18, <3>1, <3>2, <3>3, <3>4, <3>5, <3>6 DEF LogoutFree
  <2>19. ASSUME NEW s \in Sessions, NEW type \in {"0x06", "0x59"}, ReadError(s, type)
         PROVE  TypeOK'
    <3>1. pc' \in [Sessions -> PCs]
      BY <2>19 DEF ReadError, PCs, LoopTest
    <3>2. phase' \in [Sessions -> Phases]
      BY <2>19 DEF ReadError, Phases
    <3>3. eventq' \in Seq(AppEvents)
      BY <2>19, QueueType DEF ReadError
    <3>4. QED
      BY <2>19, <3>1, <3>2, <3>3 DEF ReadError
  <2>20. ASSUME NEW c \in Clients, NEW op \in Ops, ApiCheck(c, op) PROVE TypeOK'
    BY <2>20 DEF ApiCheck, Calls
  <2>21. ASSUME NEW c \in Clients, ApiReadFd(c) PROVE TypeOK'
    <3>1. call' \in [Clients -> Calls]
      BY <2>21 DEF ApiReadFd, Calls, NoCall
    <3>2. QED
      BY <2>21, <3>1 DEF ApiReadFd
  <2>22. ASSUME NEW c \in Clients, EvpipeWrite(c) PROVE TypeOK'
    <3>1. pipe' \in Seq(PipeEvents) /\ Len(pipe') <= PipeCap
      <4>1. call[c].op \in Ops
        BY <2>22 DEF EvpipeWrite, Calls, NoCall
      <4> DEFINE e == [id |-> written + 1, op |-> call[c].op]
      <4>2. e \in PipeEvents
        BY <4>1 DEF PipeEvents
      <4>3. pipe' = pipe \/ (Accepts /\ pipe' = Append(pipe, e))
        BY <2>22 DEF EvpipeWrite
      <4> HIDE DEF e
      <4>4. CASE pipe' = pipe
        BY <4>4
      <4>5. CASE Accepts /\ pipe' = Append(pipe, e)
        BY <4>2, <4>5, AppendType, SessionAssumption DEF Accepts
      <4>6. QED
        BY <4>3, <4>4, <4>5
    <3>2. call' \in [Clients -> Calls]
      BY <2>22 DEF EvpipeWrite, Calls, NoCall
    <3>3. written' \in Nat
      BY <2>22 DEF EvpipeWrite
    <3>4. QED
      BY <2>22, <3>1, <3>2, <3>3 DEF EvpipeWrite
  <2>23. CASE UNCHANGED vars
    BY <2>23 DEF vars
  <2>24. QED
    BY <2>1, <2>2, <2>3, <2>4, <2>5, <2>6, <2>7, <2>8, <2>9, <2>10, <2>11, <2>12, <2>13, <2>14, <2>15, <2>16, <2>17, <2>18, <2>19, <2>20, <2>21, <2>22, <2>23, <2>25, NextCases
<1>3. QED
  BY <1>1, <1>2, PTL DEF Spec
-----------------------------------------------------------------------------
\* Threads are started in the order of their numbers.
Unstarted == \A s \in Sessions : s > session => pc[s] = "None"

SendqInv == Unstarted /\ SendqReleased

\* A step of thread s keeps the invariant if it keeps what it says of s.
LEMMA SendqStep ==
  ASSUME TypeOK, SendqInv, NEW s \in Sessions, pc[s] # "None",
         NEW p \in PCs \ {"None"}, Goto(s, p),
         \A t \in Sessions \ {s} : caller'[t] = caller[t],
         session' = session,
         sendq' = s <=> Draining(s)',
         \A t \in Sessions \ {s} : sendq' = t <=> sendq = t
  PROVE  SendqInv'
<1>1. Unstarted'
  BY DEF Unstarted, SendqInv, Goto, TypeOK
<1>2. ASSUME NEW t \in Sessions PROVE sendq' = t <=> Draining(t)'
  <2>1. CASE t = s
    BY <2>1
  <2>2. CASE t # s
    <3>1. pc'[t] = pc[t] /\ caller'[t] = caller[t]
      BY <2>2 DEF Goto, TypeOK
    <3>2. Draining(t)' <=> Draining(t)
      BY <3>1 DEF Draining
    <3>3. sendq = t <=> Draining(t)
      BY DEF SendqInv, SendqReleased
    <3>4. QED
      BY <2>2, <3>2, <3>3
  <2>3. QED
    BY <2>1, <2>2
<1>3. QED
  BY <1>1, <1>2 DEF SendqInv, SendqReleased

\* For every number of sessions, clients and calls: at every moment at most
\* one network thread drains the pipe, and it is the one that holds sendq.
THEOREM SendqSafe == Spec => []SendqReleased
<1>1. Init => SendqInv
  BY DEF Init, SendqInv, Unstarted, SendqReleased, Draining
<1>2. TypeOK /\ SendqInv /\ [Next]_vars => SendqInv'
  <2> SUFFICES ASSUME TypeOK, SendqInv, [Next]_vars PROVE SendqInv'
    OBVIOUS
  <2> USE DEF netVars, connVars, pipeVars, apiVars, appVars
  <2>1. CASE Connect
    <3>1. session + 1 \in Sessions /\ pc[session + 1] = "None"
      BY <2>1 DEF Connect, TypeOK, SendqInv, Unstarted
    <3>2. Unstarted'
      BY <2>1, <3>1 DEF Connect, Goto, TypeOK, SendqInv, Unstarted
    <3>3. ASSUME NEW t \in Sessions PROVE sendq' = t <=> Draining(t)'
      BY <2>1, <3>1 DEF Connect, Goto, TypeOK, SendqInv, SendqReleased, Draining
    <3>4. QED
      BY <3>2, <3>3 DEF SendqInv, SendqReleased
  <2>2. ASSUME NEW s \in Sessions, LoginPipe(s) PROVE SendqInv'
    BY <2>2, SendqStep DEF LoginPipe, Goto, PCs, TypeOK, SendqInv, SendqReleased, Draining
  <2>3. ASSUME NEW s \in Sessions, LoginConnect(s) PROVE SendqInv'
    BY <2>3, SendqStep DEF LoginConnect, Goto, PCs, TypeOK, SendqInv, SendqReleased, Draining
  <2>4. ASSUME NEW s \in Sessions, LoginFailed(s) PROVE SendqInv'
    BY <2>4, SendqStep DEF LoginFailed, Goto, PCs, TypeOK, SendqInv, SendqReleased, Draining
  <2>5. ASSUME NEW s \in Sessions, RecvClosed(s) PROVE SendqInv'
    BY <2>5, SendqStep DEF RecvClosed, Goto, PCs, TypeOK, SendqInv, SendqReleased, Draining, AfterNull
  <2>6. ASSUME NEW s \in Sessions, SelectEvent(s) PROVE SendqInv'
    <3>1. Goto(s, "Drain") /\ sendq = 0 /\ sendq' = s
      BY <2>6 DEF SelectEvent
    <3>2. Draining(s)' /\ pc[s] # "None"
      BY <2>6, <3>1 DEF SelectEvent, Goto, TypeOK, Draining
    <3>3. \A t \in Sessions \ {s} : sendq' = t <=> sendq = t
      BY <3>1
    <3>4. UNCHANGED <<caller, session>>
      BY <2>6 DEF SelectEvent
    <3>5. QED
      BY <3>1, <3>2, <3>3, <3>4, SendqStep DEF PCs
  <2>7. ASSUME NEW s \in Sessions, SelectMsg(s) PROVE SendqInv'
    BY <2>7, SendqStep DEF SelectMsg, Goto, PCs, TypeOK, SendqInv, SendqReleased, Draining
  <2>26. ASSUME NEW s \in Sessions, SelectFails(s) PROVE SendqInv'
    BY <2>26, SendqStep DEF SelectFails, Goto, PCs, TypeOK, SendqInv, SendqReleased, Draining
  <2>8. ASSUME NEW s \in Sessions, DrainOne(s) PROVE SendqInv'
    <3>1. pc[s] = "Drain" /\ sendq = s /\ UNCHANGED <<sendq, session>>
      BY <2>8 DEF DrainOne, SendqInv, SendqReleased, Draining
    <3>2. CASE UNCHANGED <<pc, caller>>
      BY <3>1, <3>2 DEF SendqInv, Unstarted, SendqReleased, Draining
    <3>3. CASE CallLogout(s, "pipe")
      <4>1. Goto(s, "LogoutQueue") /\ caller'[s] = "pipe"
        BY <3>3 DEF CallLogout, TypeOK
      <4>2. Draining(s)'
        BY <4>1 DEF Goto, TypeOK, Draining
      <4>3. \A t \in Sessions \ {s} : caller'[t] = caller[t]
        BY <3>3 DEF CallLogout, TypeOK
      <4>4. QED
        BY <3>1, <4>1, <4>2, <4>3, SendqStep DEF PCs
    <3>4. QED
      BY <2>8, <3>2, <3>3 DEF DrainOne
  <2>9. ASSUME NEW s \in Sessions, DrainEnd(s) PROVE SendqInv'
    <3> DEFINE p == IF both[s] THEN "Read" ELSE "Select"
    <3>1. Goto(s, p) /\ p \in {"Read", "Select"} /\ pc[s] = "Drain"
      BY <2>9 DEF DrainEnd
    <3>2. sendq = s /\ sendq' = 0 /\ UNCHANGED <<caller, session>>
      BY <2>9 DEF DrainEnd, SendqInv, SendqReleased, Draining
    <3> HIDE DEF p
    <3>3. ~Draining(s)'
      BY <3>1 DEF Goto, TypeOK, Draining
    <3>4. QED
      BY <3>1, <3>2, <3>3, SendqStep DEF PCs
  <2>10. ASSUME NEW s \in Sessions, ReadFails(s) PROVE SendqInv'
    BY <2>10, SendqStep DEF ReadFails, Goto, PCs, TypeOK, SendqInv, SendqReleased, Draining, CallLogout
  <2>11. ASSUME NEW s \in Sessions, ReadOther(s) PROVE SendqInv'
    BY <2>11, SendqStep DEF ReadOther, Goto, PCs, TypeOK, SendqInv, SendqReleased, Draining, LoopTest
  <2>12. ASSUME NEW s \in Sessions, ReadReady(s) PROVE SendqInv'
    BY <2>12, SendqStep DEF ReadReady, Goto, PCs, TypeOK, SendqInv, SendqReleased, Draining
  <2>13. ASSUME NEW s \in Sessions, ReadKick(s) PROVE SendqInv'
    BY <2>13, SendqStep DEF ReadKick, Goto, PCs, TypeOK, SendqInv, SendqReleased, Draining, CallLogout
  <2>14. ASSUME NEW s \in Sessions, ReadBye(s) PROVE SendqInv'
    BY <2>14, SendqStep DEF ReadBye, Goto, PCs, TypeOK, SendqInv, SendqReleased, Draining, CallLogout
  <2>15. ASSUME NEW s \in Sessions, LogoutQueue(s) PROVE SendqInv'
    BY <2>15, SendqStep DEF LogoutQueue, Goto, PCs, TypeOK, SendqInv, SendqReleased, Draining
  <2>16. ASSUME NEW s \in Sessions, LogoutClose(s) PROVE SendqInv'
    BY <2>16, SendqStep DEF LogoutClose, Goto, PCs, TypeOK, SendqInv, SendqReleased, Draining
  <2>17. ASSUME NEW s \in Sessions, LogoutFree(s) PROVE SendqInv'
    BY <2>17, SendqStep DEF LogoutFree, Goto, PCs, TypeOK, SendqInv, SendqReleased, Draining, AfterLogout, AfterNull, LoopTest, Callers
  <2>18. ASSUME NEW s \in Sessions, NEW type \in {"0x06", "0x59"}, ReadError(s, type)
         PROVE  SendqInv'
    BY <2>18, SendqStep DEF ReadError, LoopTest, Goto, PCs, TypeOK, SendqInv, SendqReleased, Draining
  <2>19. ASSUME UNCHANGED <<pc, caller, sendq, session>> PROVE SendqInv'
    BY <2>19 DEF SendqInv, Unstarted, SendqReleased, Draining
  <2>20. CASE GetEvent
    BY <2>19, <2>20 DEF GetEvent
  <2>21. ASSUME NEW c \in Clients, NEW op \in Ops, ApiCheck(c, op) PROVE SendqInv'
    BY <2>19, <2>21 DEF ApiCheck
  <2>22. ASSUME NEW c \in Clients, ApiReadFd(c) PROVE SendqInv'
    BY <2>19, <2>22 DEF ApiReadFd
  <2>23. ASSUME NEW c \in Clients, EvpipeWrite(c) PROVE SendqInv'
    BY <2>19, <2>23 DEF EvpipeWrite
  <2>24. CASE UNCHANGED vars
    BY <2>19, <2>24 DEF vars
  <2>25. QED
    BY <2>1, <2>2, <2>3, <2>4, <2>5, <2>6, <2>7, <2>8, <2>9, <2>10, <2>11, <2>12, <2>13, <2>14, <2>15, <2>16, <2>17, <2>18, <2>20, <2>21, <2>22, <2>23, <2>24, <2>26, NextCases
<1>3. SendqInv => SendqReleased
  BY DEF SendqInv
<1>4. QED
  BY <1>1, <1>2, <1>3, TypeCorrect, PTL DEF Spec
-----------------------------------------------------------------------------
LEMMA AppendElements ==
  ASSUME NEW S, NEW q \in Seq(S), NEW e \in S, NEW i \in DOMAIN Append(q, e)
  PROVE  \/ i \in DOMAIN q /\ Append(q, e)[i] = q[i] /\ i < Len(q) + 1
         \/ i = Len(q) + 1 /\ Append(q, e)[i] = e
  OBVIOUS

LEMMA TailElements ==
  ASSUME NEW S, NEW q \in Seq(S), q # <<>>, NEW i \in DOMAIN Tail(q)
  PROVE  i + 1 \in DOMAIN q /\ Tail(q)[i] = q[i + 1] /\ i \in Nat \ {0}
  OBVIOUS

LEMMA HeadElement ==
  ASSUME NEW S, NEW q \in Seq(S), q # <<>>
  PROVE  1 \in DOMAIN q /\ Head(q) = q[1] /\ Head(q) \in S
  OBVIOUS

\* The pipe holds its events in the order of the calls.
PipeInOrder == \A i, j \in DOMAIN pipe : i < j => pipe[i].id < pipe[j].id

\* No event has a number that no call was given.
NoneAhead ==
  /\ \A i \in DOMAIN sent : sent[i].id \in 1..written
  /\ \A i \in DOMAIN pipe : pipe[i].id \in 1..written

OrderInv == SentInOrder /\ PipeInOrder /\ PipeIsAhead /\ NoneAhead

LEMMA IdTypes ==
  ASSUME TypeOK
  PROVE  /\ \A i \in DOMAIN sent : sent[i].id \in Nat
         /\ \A i \in DOMAIN pipe : pipe[i].id \in Nat
         /\ written \in Nat
<1>1. /\ sent \in Seq(Packets) /\ pipe \in Seq(PipeEvents) /\ written \in Nat
  BY DEF TypeOK
<1>2. /\ \A i \in DOMAIN sent : sent[i] \in Packets
      /\ \A i \in DOMAIN pipe : pipe[i] \in PipeEvents
  BY <1>1
<1>3. QED
  BY <1>1, <1>2 DEF Packets, PipeEvents

\* An empty pipe, a pipe that lost its first event and one that gained the
\* event of the newest call.
LEMMA OrderEmptied ==
  ASSUME TypeOK, OrderInv, pipe' = <<>>, UNCHANGED <<sent, written>>
  PROVE  OrderInv'
  BY DEF OrderInv, SentInOrder, PipeInOrder, PipeIsAhead, NoneAhead

LEMMA OrderPopped ==
  ASSUME TypeOK, OrderInv, pipe # <<>>, pipe' = Tail(pipe), UNCHANGED <<sent, written>>
  PROVE  OrderInv' /\ \A i \in DOMAIN pipe' : Head(pipe).id < pipe'[i].id
<1>1. pipe \in Seq(PipeEvents)
  BY DEF TypeOK
<1>2. \A i \in DOMAIN pipe' : i + 1 \in DOMAIN pipe /\ pipe'[i] = pipe[i + 1] /\ i \in Nat \ {0}
  BY <1>1, TailElements
<1>3. 1 \in DOMAIN pipe /\ Head(pipe) = pipe[1]
  BY <1>1, HeadElement
<1>4. OrderInv'
  BY <1>2 DEF OrderInv, SentInOrder, PipeInOrder, PipeIsAhead, NoneAhead
<1>5. \A i \in DOMAIN pipe' : Head(pipe).id < pipe'[i].id
  BY <1>2, <1>3 DEF OrderInv, PipeInOrder
<1>6. QED
  BY <1>4, <1>5

LEMMA OrderSent ==
  ASSUME TypeOK, OrderInv, pipe # <<>>, pipe' = Tail(pipe), UNCHANGED written,
         NEW r \in Packets, r.id = Head(pipe).id, sent' = Append(sent, r)
  PROVE  OrderInv'
<1>1. pipe \in Seq(PipeEvents) /\ sent \in Seq(Packets)
  BY DEF TypeOK
<1>2. \A i \in DOMAIN pipe' : i + 1 \in DOMAIN pipe /\ pipe'[i] = pipe[i + 1] /\ i \in Nat \ {0}
  BY <1>1, TailElements
<1>3. 1 \in DOMAIN pipe /\ r.id = pipe[1].id
  BY <1>1, HeadElement
<1>4. \A i \in DOMAIN sent' : \/ i \in DOMAIN sent /\ sent'[i] = sent[i] /\ i < Len(sent) + 1
                              \/ i = Len(sent) + 1 /\ sent'[i] = r
  BY <1>1, AppendElements
<1>5. DOMAIN sent = 1..Len(sent) /\ Len(sent) \in Nat
  BY <1>1
<1>6. SentInOrder'
  BY <1>3, <1>4, <1>5 DEF OrderInv, SentInOrder, PipeIsAhead
<1>7. PipeInOrder'
  BY <1>2 DEF OrderInv, PipeInOrder
<1>8. PipeIsAhead'
  BY <1>2, <1>3, <1>4 DEF OrderInv, PipeInOrder, PipeIsAhead
<1>9. NoneAhead'
  BY <1>2, <1>3, <1>4 DEF OrderInv, NoneAhead
<1>10. QED
  BY <1>6, <1>7, <1>8, <1>9 DEF OrderInv

LEMMA OrderPushed ==
  ASSUME TypeOK, OrderInv, NEW e \in PipeEvents, e.id = written + 1, UNCHANGED sent,
         written' = written + 1, pipe' = Append(pipe, e)
  PROVE  OrderInv'
<1>1. pipe \in Seq(PipeEvents)
  BY DEF TypeOK
<1>2. \A i \in DOMAIN pipe' : \/ i \in DOMAIN pipe /\ pipe'[i] = pipe[i] /\ i < Len(pipe) + 1
                              \/ i = Len(pipe) + 1 /\ pipe'[i] = e
  BY <1>1, AppendElements
<1>3. DOMAIN pipe = 1..Len(pipe) /\ Len(pipe) \in Nat
  BY <1>1
<1>4. SentInOrder'
  BY DEF OrderInv, SentInOrder
<1>5. PipeInOrder'
  BY <1>2, <1>3, IdTypes DEF OrderInv, PipeInOrder, NoneAhead
<1>6. PipeIsAhead'
  BY <1>2, IdTypes DEF OrderInv, PipeIsAhead, NoneAhead
<1>7. NoneAhead'
  BY <1>2, IdTypes DEF OrderInv, NoneAhead
<1>8. QED
  BY <1>4, <1>5, <1>6, <1>7 DEF OrderInv

LEMMA OrderRefused ==
  ASSUME TypeOK, OrderInv, UNCHANGED <<pipe, sent>>, written' = written + 1
  PROVE  OrderInv'
  BY IdTypes DEF OrderInv, SentInOrder, PipeInOrder, PipeIsAhead, NoneAhead

\* What a read of the pipe may put on the wire.
LEMMA DrainCases ==
  ASSUME TypeOK, NEW s \in Sessions, DrainOne(s)
  PROVE  /\ pipe # <<>> /\ pipe' = Tail(pipe) /\ UNCHANGED written
         /\ \/ sent' = sent
            \/ \E r \in Packets : r.id = Head(pipe).id /\ sent' = Append(sent, r)
<1>1. pipe # <<>> /\ pipe' = Tail(pipe) /\ UNCHANGED written /\ sent' \in {sent, Transmit(Head(pipe))}
  BY DEF DrainOne, PipeReadable, apiVars
<1>2. Head(pipe).id \in Nat
  <2>1. pipe \in Seq(PipeEvents)
    BY DEF TypeOK
  <2>2. Head(pipe) \in PipeEvents
    BY <1>1, <2>1, HeadElement
  <2>3. QED
    BY <2>2 DEF PipeEvents
<1>3. CASE sockd = 0 \/ sent' = sent
  BY <1>1, <1>3 DEF Transmit
<1>4. CASE sockd # 0 /\ sent' # sent
  <2> DEFINE r == [id |-> Head(pipe).id, on |-> sockd]
  <2>1. r \in Packets /\ r.id = Head(pipe).id
    BY <1>2, <1>4 DEF Packets, TypeOK
  <2>2. sent' = Append(sent, r)
    BY <1>1, <1>4 DEF Transmit
  <2>3. QED
    BY <1>1, <2>1, <2>2
<1>5. QED
  BY <1>1, <1>3, <1>4

\* What a write may leave in the pipe.
LEMMA WriteCases ==
  ASSUME TypeOK, NEW c \in Clients, EvpipeWrite(c)
  PROVE  /\ UNCHANGED sent /\ written' = written + 1
         /\ \/ pipe' = pipe
            \/ \E e \in PipeEvents : e.id = written + 1 /\ pipe' = Append(pipe, e)
<1> DEFINE e == [id |-> written + 1, op |-> call[c].op]
<1>1. UNCHANGED sent /\ written' = written + 1 /\ pipe' \in {pipe, Append(pipe, e)}
  BY DEF EvpipeWrite
<1>2. call[c].op \in Ops
  BY DEF EvpipeWrite, Calls, NoCall, TypeOK
<1>3. e \in PipeEvents /\ e.id = written + 1
  BY <1>2 DEF PipeEvents, TypeOK
<1> HIDE DEF e
<1>4. QED
  BY <1>1, <1>3

LEMMA OrderStep == TypeOK /\ OrderInv /\ [Next]_vars => OrderInv'
<1> SUFFICES ASSUME TypeOK, OrderInv, [Next]_vars PROVE OrderInv'
  OBVIOUS
<1>1. ASSUME UNCHANGED <<pipe, sent, written>> PROVE OrderInv'
  BY <1>1 DEF OrderInv, SentInOrder, PipeInOrder, PipeIsAhead, NoneAhead
<1>2. ASSUME NEW s \in Sessions, LoginPipe(s) PROVE OrderInv'
  BY <1>1, <1>2, OrderEmptied DEF LoginPipe, apiVars
<1>3. ASSUME NEW s \in Sessions, LogoutFree(s) PROVE OrderInv'
  BY <1>3, OrderEmptied DEF LogoutFree, apiVars
<1>4. ASSUME NEW s \in Sessions, DrainOne(s) PROVE OrderInv'
  BY <1>4, DrainCases, OrderPopped, OrderSent
<1>5. ASSUME NEW c \in Clients, EvpipeWrite(c) PROVE OrderInv'
  BY <1>5, WriteCases, OrderPushed, OrderRefused
<1>6. CASE Connect \/ GetEvent \/ UNCHANGED vars
  BY <1>1, <1>6 DEF Connect, GetEvent, vars, apiVars, pipeVars
<1>7. ASSUME NEW s \in Sessions,
             \/ LoginConnect(s) \/ LoginFailed(s) \/ RecvClosed(s) \/ SelectEvent(s)
             \/ SelectMsg(s) \/ SelectFails(s) \/ DrainEnd(s)
      PROVE  OrderInv'
  BY <1>1, <1>7 DEF LoginConnect, LoginFailed, RecvClosed, SelectEvent, SelectMsg, SelectFails,
                    DrainEnd, pipeVars, apiVars
<1>8. ASSUME NEW s \in Sessions,
             \/ ReadFails(s) \/ ReadOther(s) \/ ReadReady(s) \/ ReadKick(s) \/ ReadBye(s)
             \/ (\E type \in {"0x06", "0x59"} : ReadError(s, type))
      PROVE  OrderInv'
  BY <1>1, <1>8 DEF ReadFails, ReadOther, ReadReady, ReadKick, ReadBye, ReadError, pipeVars, apiVars
<1>9. ASSUME NEW s \in Sessions, LogoutQueue(s) \/ LogoutClose(s) PROVE OrderInv'
  BY <1>1, <1>9 DEF LogoutQueue, LogoutClose, pipeVars, apiVars
<1>10. ASSUME NEW c \in Clients, ApiReadFd(c) \/ \E op \in Ops : ApiCheck(c, op) PROVE OrderInv'
  BY <1>1, <1>10 DEF ApiReadFd, ApiCheck, pipeVars
<1>11. QED
  BY <1>2, <1>3, <1>4, <1>5, <1>6, <1>7, <1>8, <1>9, <1>10, NextCases

\* For every capacity of the pipe and number of threads: no event reaches
\* the server before one whose call was made earlier, and none twice.
THEOREM OrderSafe == Spec => [](SentInOrder /\ PipeIsAhead)
<1>1. Init => OrderInv
  BY DEF Init, OrderInv, SentInOrder, PipeInOrder, PipeIsAhead, NoneAhead
<1>2. OrderInv => SentInOrder /\ PipeIsAhead
  BY DEF OrderInv
<1>3. QED
  BY <1>1, <1>2, OrderStep, TypeCorrect, PTL DEF Spec
-----------------------------------------------------------------------------
\* The mapped variable of CommandChannel.
Delivered == [i \in DOMAIN sent |-> sent[i].id]

LEMMA DeliveredGrows ==
  ASSUME TypeOK, NEW r \in Packets, sent' = Append(sent, r)
  PROVE  Delivered' = Append(Delivered, r.id)
<1> DEFINE n == Len(sent)
<1>1. sent \in Seq(Packets) /\ n \in Nat /\ DOMAIN sent = 1..n
  BY DEF TypeOK
<1>2. DOMAIN sent' = 1..(n + 1)
  BY <1>1
<1>3. \A i \in 1..(n + 1) : sent'[i] = IF i <= n THEN sent[i] ELSE r
  BY <1>1
<1>4. Delivered \in Seq({x.id : x \in Packets}) /\ Len(Delivered) = n
  <2>1. \A i \in 1..n : sent[i] \in Packets
    BY <1>1
  <2>2. Delivered \in [1..n -> {x.id : x \in Packets}]
    BY <1>1, <2>1 DEF Delivered
  <2>3. QED
    BY <1>1, <2>2
<1>5. Append(Delivered, r.id) = [i \in 1..(n + 1) |-> IF i <= n THEN Delivered[i] ELSE r.id]
  BY <1>1, <1>4
<1>6. Delivered' = [i \in 1..(n + 1) |-> IF i <= n THEN sent[i].id ELSE r.id]
  BY <1>2, <1>3 DEF Delivered
<1>7. \A i \in 1..n : Delivered[i] = sent[i].id
  BY <1>1 DEF Delivered
<1>8. QED
  BY <1>1, <1>5, <1>6, <1>7

\* A step on the channel is an Issue, a Deliver or a stutter.
LEMMA ChannelStep ==
  TypeOK /\ OrderInv /\ [Next]_vars => [Channel!Next]_<<written, Delivered>>
<1> SUFFICES ASSUME TypeOK, OrderInv, [Next]_vars
             PROVE  [Channel!Next]_<<written, Delivered>>
  OBVIOUS
<1>1. ASSUME UNCHANGED <<sent, written>> PROVE UNCHANGED <<written, Delivered>>
  BY <1>1 DEF Delivered
<1>2. ASSUME NEW s \in Sessions, DrainOne(s) PROVE [Channel!Next]_<<written, Delivered>>
  <2>1. CASE sent' = sent
    BY <1>1, <1>2, <2>1, DrainCases
  <2>2. CASE \E r \in Packets : r.id = Head(pipe).id /\ sent' = Append(sent, r)
    <3>1. PICK r \in Packets : r.id = Head(pipe).id /\ sent' = Append(sent, r)
      BY <2>2
    <3>2. Delivered' = Append(Delivered, r.id)
      BY <3>1, DeliveredGrows
    <3>3. pipe # <<>> /\ UNCHANGED written
      BY <1>2, DrainCases
    <3>4. 1 \in DOMAIN pipe /\ r.id = pipe[1].id
      BY <3>1, <3>3, HeadElement DEF TypeOK
    <3>5. r.id \in 1..written /\ \A i \in DOMAIN sent : sent[i].id < r.id
      BY <3>4 DEF OrderInv, NoneAhead, PipeIsAhead
    <3>6. \A i \in DOMAIN Delivered : Delivered[i] < r.id
      BY <3>5 DEF Delivered
    <3>7. Channel!Deliver
      BY <3>2, <3>3, <3>5, <3>6 DEF Channel!Deliver, Delivered
    <3>8. QED
      BY <3>7 DEF Channel!Next
  <2>3. QED
    BY <1>2, <2>1, <2>2, DrainCases
<1>3. ASSUME NEW c \in Clients, EvpipeWrite(c) PROVE [Channel!Next]_<<written, Delivered>>
  <2>1. written' = written + 1 /\ UNCHANGED Delivered
    BY <1>3, WriteCases DEF Delivered
  <2>2. Channel!Issue
    BY <2>1 DEF Channel!Issue, Delivered
  <2>3. QED
    BY <2>2 DEF Channel!Next
<1>4. CASE Connect \/ GetEvent \/ UNCHANGED vars
  BY <1>1, <1>4 DEF Connect, GetEvent, vars, apiVars
<1>5. ASSUME NEW s \in Sessions,
             \/ LoginPipe(s) \/ LoginConnect(s) \/ LoginFailed(s) \/ RecvClosed(s)
             \/ SelectEvent(s) \/ SelectMsg(s) \/ SelectFails(s) \/ DrainEnd(s)
      PROVE  UNCHANGED <<written, Delivered>>
  BY <1>1, <1>5 DEF LoginPipe, LoginConnect, LoginFailed, RecvClosed, SelectEvent, SelectMsg,
                    SelectFails, DrainEnd, apiVars
<1>6. ASSUME NEW s \in Sessions,
             \/ ReadFails(s) \/ ReadOther(s) \/ ReadReady(s) \/ ReadKick(s) \/ ReadBye(s)
             \/ (\E type \in {"0x06", "0x59"} : ReadError(s, type))
      PROVE  UNCHANGED <<written, Delivered>>
  BY <1>1, <1>6 DEF ReadFails, ReadOther, ReadReady, ReadKick, ReadBye, ReadError, apiVars
<1>7. ASSUME NEW s \in Sessions, LogoutQueue(s) \/ LogoutClose(s) \/ LogoutFree(s)
      PROVE  UNCHANGED <<written, Delivered>>
  BY <1>1, <1>7 DEF LogoutQueue, LogoutClose, LogoutFree, apiVars
<1>8. ASSUME NEW c \in Clients, ApiReadFd(c) \/ \E op \in Ops : ApiCheck(c, op)
      PROVE  UNCHANGED <<written, Delivered>>
  BY <1>1, <1>8 DEF ApiReadFd, ApiCheck
<1>9. QED
  BY <1>2, <1>3, <1>4, <1>5, <1>6, <1>7, <1>8, NextCases

\* The outbound path, whatever fails and however the application hurries,
\* implements CommandChannel.
THEOREM ChannelRefined == Spec => ImplementsChannel
<1>1. Init => Channel!Init
  <2>1. DOMAIN <<>> = {}
    OBVIOUS
  <2>2. [i \in {} |-> sent[i].id] = <<>>
    OBVIOUS
  <2>3. QED
    BY <2>1, <2>2 DEF Init, Channel!Init
<1>2. Init => OrderInv
  BY DEF Init, OrderInv, SentInOrder, PipeInOrder, PipeIsAhead, NoneAhead
<1>3. QED
  BY <1>1, <1>2, OrderStep, ChannelStep, TypeCorrect, PTL
     DEF Spec, ImplementsChannel, Channel!Spec, Delivered
-----------------------------------------------------------------------------
\* The session is up: its thread has its own connection and pipe, and has
\* told nobody of an end.
Up(s) ==
  /\ sockd = s /\ evpipe = s /\ notified[s] = 0
  /\ phase[s] = "main" => loggedin

\* It is over: everything is closed and the application knows.
Down(s) == sockd = 0 /\ evpipe = 0 /\ pipe = <<>> /\ ~loggedin /\ notified[s] > 0

\* The newest thread, by its program counter.
Life(s) ==
  /\ pc[s] # "None"
  /\ phase[s] = "main" => pc[s] \notin {"Pipe", "Connect", "Failed"}
  /\ loggedin => phase[s] = "main"
  /\ pc[s] \in {"Pipe", "Connect"} => notified[s] = 0
  /\ pc[s] = "Connect" => evpipe = s
  /\ pc[s] \in {"Select", "Drain", "Read"} => Up(s) \/ Down(s)
  /\ pc[s] = "LogoutQueue" => Up(s) \/ Down(s) \/ (sockd = 0 /\ ~loggedin)
  /\ pc[s] = "LogoutClose" => notified[s] > 0
  /\ pc[s] = "LogoutFree" => notified[s] > 0 /\ sockd = 0 /\ ~loggedin
  /\ pc[s] = "Done" /\ phase[s] = "main" => Down(s)
  /\ pc[s] = "Cut" => phase[s] = "main" /\ Up(s)

\* Only the newest thread runs; those before it are done and those after it
\* have not begun.
LifeInv ==
  /\ \A s \in Sessions :
       /\ s > session => pc[s] = "None" /\ phase[s] = "hello" /\ notified[s] = 0
       /\ s < session => pc[s] = "Done" /\ (phase[s] = "main" => notified[s] > 0)
  /\ IF session = 0 THEN ~loggedin ELSE Life(session)

LEMMA Newest ==
  ASSUME TypeOK, LifeInv, NEW s \in Sessions, Running(s)
  PROVE  s = session /\ session # 0 /\ Life(s)
  BY DEF TypeOK, LifeInv, Running

LEMMA LifeStep ==
  ASSUME TypeOK, LifeInv, NEW s \in Sessions, Running(s), session' = session,
         \A t \in Sessions \ {s} : /\ pc'[t] = pc[t] /\ phase'[t] = phase[t]
                                   /\ notified'[t] = notified[t],
         Life(s)'
  PROVE  LifeInv'
  BY Newest DEF LifeInv, TypeOK

\* A step of thread s that only moves it, or also changes its phase.
LEMMA LifeMoved ==
  ASSUME TypeOK, LifeInv, NEW s \in Sessions, Running(s), NEW p, Goto(s, p),
         UNCHANGED <<phase, notified, session>>, Life(s)'
  PROVE  LifeInv'
  BY LifeStep DEF Goto, TypeOK

LEMMA LifeInvStep == ASSUME ~Eager PROVE TypeOK /\ LifeInv /\ [Next]_vars => LifeInv'
<1> SUFFICES ASSUME TypeOK, LifeInv, [Next]_vars PROVE LifeInv'
  OBVIOUS
<1> USE DEF netVars, connVars, pipeVars, apiVars, appVars
<1>1. CASE Connect
  <2>0. PICK n \in Sessions : n = session + 1
    BY <1>1 DEF Connect, TypeOK
  <2>1. session' = n /\ n # 0 /\ Goto(n, "Pipe") /\ session \in Nat /\ n = session + 1
    BY <1>1, <2>0 DEF Connect, TypeOK
  <2>2. \A s \in Sessions : ~Running(s)
    BY <1>1 DEF Connect
  <2>3. UNCHANGED <<phase, notified, sockd, evpipe, loggedin, pipe>>
    BY <1>1 DEF Connect
  <2>4. session # 0 => session \in Sessions /\ pc[session] = "Done" /\ Life(session)
    <3>1. \A s \in Sessions : pc[s] # "Cut"
      BY <1>1 DEF Connect
    <3>2. QED
      BY <2>2, <3>1 DEF LifeInv, Life, Running, TypeOK
  <2>5. ~loggedin /\ (session # 0 /\ phase[session] = "main" => notified[session] > 0)
    BY <2>4 DEF LifeInv, Life, Down
  <2>6. pc' = [pc EXCEPT ![n] = "Pipe"] /\ phase[n] = "hello" /\ notified[n] = 0
    BY <2>1 DEF Goto, LifeInv
  <2>7. Life(n)'
    BY <2>1, <2>3, <2>5, <2>6 DEF Life, TypeOK
  <2>8. \A s \in Sessions : s > n => pc'[s] = "None" /\ phase[s] = "hello" /\ notified[s] = 0
    BY <2>1, <2>6 DEF LifeInv, TypeOK
  <2>9. \A s \in Sessions : s < n => pc'[s] = "Done" /\ (phase[s] = "main" => notified[s] > 0)
    BY <2>1, <2>4, <2>5, <2>6 DEF LifeInv, TypeOK
  <2>10. QED
    BY <2>1, <2>3, <2>7, <2>8, <2>9 DEF LifeInv
<1>2. ASSUME NEW s \in Sessions, LoginPipe(s) PROVE LifeInv'
  <2>1. Running(s) /\ Life(s)
    BY <1>2, Newest DEF LoginPipe, Running
  <2>2. Life(s)'
    BY <1>2, <2>1 DEF LoginPipe, Goto, TypeOK, Life, Up, Down
  <2>3. QED
    BY <1>2, <2>1, <2>2, LifeStep DEF LoginPipe, Goto, TypeOK
<1>3. ASSUME NEW s \in Sessions, LoginConnect(s) PROVE LifeInv'
  <2>1. Running(s) /\ Life(s)
    BY <1>3, Newest DEF LoginConnect, Running
  <2>2. Life(s)'
    BY <1>3, <2>1 DEF LoginConnect, Goto, TypeOK, Life, Up, Down
  <2>3. QED
    BY <1>3, <2>1, <2>2, LifeStep DEF LoginConnect, Goto, TypeOK
<1>4. ASSUME NEW s \in Sessions, LoginFailed(s) PROVE LifeInv'
  <2>1. Running(s) /\ Life(s)
    BY <1>4, Newest DEF LoginFailed, Running
  <2>2. Life(s)'
    BY <1>4, <2>1 DEF LoginFailed, Goto, TypeOK, Life, Up, Down
  <2>3. QED
    BY <1>4, <2>1, <2>2, LifeStep DEF LoginFailed, Goto, TypeOK
<1>5. ASSUME NEW s \in Sessions, RecvClosed(s) PROVE LifeInv'
  <2>1. Running(s) /\ Life(s)
    BY <1>5, Newest DEF RecvClosed, Running
  <2>2. Life(s)'
    BY <1>5, <2>1 DEF RecvClosed, Goto, TypeOK, Life, Up, Down, AfterNull
  <2>3. QED
    BY <1>5, <2>1, <2>2, LifeStep DEF RecvClosed, Goto, TypeOK, AfterNull
<1>6. ASSUME NEW s \in Sessions, SelectEvent(s) PROVE LifeInv'
  <2>1. Running(s) /\ Life(s)
    BY <1>6, Newest DEF SelectEvent, Running
  <2>2. Life(s)'
    BY <1>6, <2>1 DEF SelectEvent, Goto, TypeOK, Life, Up, Down
  <2>3. QED
    BY <1>6, <2>1, <2>2, LifeStep DEF SelectEvent, Goto, TypeOK
<1>7. ASSUME NEW s \in Sessions, SelectMsg(s) PROVE LifeInv'
  <2>1. Running(s) /\ Life(s)
    BY <1>7, Newest DEF SelectMsg, Running
  <2>2. Life(s)'
    BY <1>7, <2>1 DEF SelectMsg, Goto, TypeOK, Life, Up, Down
  <2>3. QED
    BY <1>7, <2>1, <2>2, LifeStep DEF SelectMsg, Goto, TypeOK
<1>25. ASSUME NEW s \in Sessions, SelectFails(s) PROVE LifeInv'
  <2>1. Running(s) /\ Life(s)
    BY <1>25, Newest DEF SelectFails, Running
  <2>2. Life(s)'
    BY <1>25, <2>1 DEF SelectFails, Goto, TypeOK, Life, Up, Down
  <2>3. QED
    BY <1>25, <2>1, <2>2, LifeStep DEF SelectFails, Goto, TypeOK
<1>8. ASSUME NEW s \in Sessions, DrainOne(s) PROVE LifeInv'
  <2>1. Running(s) /\ Life(s)
    BY <1>8, Newest DEF DrainOne, Running
  <2>2. Life(s)'
    <3>1. pc[s] = "Drain" /\ pipe # <<>> /\ UNCHANGED <<phase, notified, sockd, loggedin, evpipe>>
      BY <1>8 DEF DrainOne, PipeReadable
    <3>2. Up(s)
      BY <2>1, <3>1 DEF Life, Down
    <3>3. Up(s)'
      BY <3>1, <3>2 DEF Up
    <3>4. pc'[s] \in {"Drain", "LogoutQueue"}
      BY <1>8, <3>1 DEF DrainOne, CallLogout, Goto, TypeOK
    <3>5. QED
      BY <2>1, <3>1, <3>3, <3>4 DEF Life
  <2>3. QED
    BY <1>8, <2>1, <2>2, LifeStep DEF DrainOne, Goto, TypeOK, CallLogout
<1>9. ASSUME NEW s \in Sessions, DrainEnd(s) PROVE LifeInv'
  <2>1. Running(s) /\ Life(s)
    BY <1>9, Newest DEF DrainEnd, Running
  <2>2. Life(s)'
    BY <1>9, <2>1 DEF DrainEnd, Goto, TypeOK, Life, Up, Down
  <2>3. QED
    BY <1>9, <2>1, <2>2, LifeStep DEF DrainEnd, Goto, TypeOK
<1>10. ASSUME NEW s \in Sessions, ReadFails(s) PROVE LifeInv'
  <2>1. Running(s) /\ Life(s)
    BY <1>10, Newest DEF ReadFails, Running
  <2>2. Life(s)'
    BY <1>10, <2>1 DEF ReadFails, Goto, TypeOK, Life, Up, Down, CallLogout
  <2>3. QED
    BY <1>10, <2>1, <2>2, LifeStep DEF ReadFails, Goto, TypeOK, CallLogout
<1>11. ASSUME NEW s \in Sessions, ReadOther(s) PROVE LifeInv'
  <2>1. Running(s) /\ Life(s)
    BY <1>11, Newest DEF ReadOther, Running
  <2>2. Life(s)'
    BY <1>11, <2>1 DEF ReadOther, Goto, TypeOK, Life, Up, Down, LoopTest
  <2>3. QED
    BY <1>11, <2>1, <2>2, LifeStep DEF ReadOther, Goto, TypeOK, LoopTest
<1>12. ASSUME NEW s \in Sessions, ReadReady(s) PROVE LifeInv'
  <2>1. Running(s) /\ Life(s)
    BY <1>12, Newest DEF ReadReady, Running
  <2>2. Life(s)'
    BY <1>12, <2>1 DEF ReadReady, Goto, TypeOK, Life, Up, Down
  <2>3. QED
    BY <1>12, <2>1, <2>2, LifeStep DEF ReadReady, Goto, TypeOK
<1>13. ASSUME NEW s \in Sessions, ReadKick(s) PROVE LifeInv'
  <2>1. Running(s) /\ Life(s)
    BY <1>13, Newest DEF ReadKick, Running
  <2>2. Life(s)'
    BY <1>13, <2>1 DEF ReadKick, Goto, TypeOK, Life, Up, Down, CallLogout
  <2>3. QED
    BY <1>13, <2>1, <2>2, LifeStep DEF ReadKick, Goto, TypeOK, CallLogout
<1>14. ASSUME NEW s \in Sessions, ReadBye(s) PROVE LifeInv'
  <2>1. Running(s) /\ Life(s)
    BY <1>14, Newest DEF ReadBye, Running
  <2>2. Life(s)'
    BY <1>14, <2>1 DEF ReadBye, Goto, TypeOK, Life, Up, Down, CallLogout
  <2>3. QED
    BY <1>14, <2>1, <2>2, LifeStep DEF ReadBye, Goto, TypeOK, CallLogout
<1>15. ASSUME NEW s \in Sessions, LogoutQueue(s) PROVE LifeInv'
  <2>1. Running(s) /\ Life(s)
    BY <1>15, Newest DEF LogoutQueue, Running
  <2>2. Life(s)'
    BY <1>15, <2>1 DEF LogoutQueue, Goto, TypeOK, Life, Up, Down
  <2>3. QED
    BY <1>15, <2>1, <2>2, LifeStep DEF LogoutQueue, Goto, TypeOK
<1>16. ASSUME NEW s \in Sessions, LogoutClose(s) PROVE LifeInv'
  <2>1. Running(s) /\ Life(s)
    BY <1>16, Newest DEF LogoutClose, Running
  <2>2. Life(s)'
    BY <1>16, <2>1 DEF LogoutClose, Goto, TypeOK, Life, Up, Down
  <2>3. QED
    BY <1>16, <2>1, <2>2, LifeStep DEF LogoutClose, Goto, TypeOK
<1>17. ASSUME NEW s \in Sessions, LogoutFree(s) PROVE LifeInv'
  <2>1. Running(s) /\ Life(s)
    BY <1>17, Newest DEF LogoutFree, Running
  <2>2. Life(s)'
    BY <1>17, <2>1 DEF LogoutFree, Goto, TypeOK, Life, Up, Down, AfterLogout, AfterNull, LoopTest, Callers
  <2>3. QED
    BY <1>17, <2>1, <2>2, LifeStep DEF LogoutFree, Goto, TypeOK, AfterLogout, AfterNull, LoopTest, Callers
<1>18. ASSUME NEW s \in Sessions, NEW type \in {"0x06", "0x59"}, ReadError(s, type) PROVE LifeInv'
  <2>1. Running(s) /\ Life(s)
    BY <1>18, Newest DEF ReadError, Running
  <2>2. Life(s)'
    BY <1>18, <2>1 DEF ReadError, Goto, TypeOK, Life, Up, Down, LoopTest
  <2>3. QED
    BY <1>18, <2>1, <2>2, LifeStep DEF ReadError, Goto, TypeOK
<1>19. ASSUME UNCHANGED <<pc, phase, notified, sockd, evpipe, loggedin, pipe, session>> PROVE LifeInv'
  BY <1>19 DEF LifeInv, Life, Up, Down
<1>20. CASE GetEvent
  BY <1>19, <1>20 DEF GetEvent
<1>21. CASE UNCHANGED vars
  BY <1>19, <1>21 DEF vars
<1>22. ASSUME NEW c \in Clients, ApiReadFd(c) \/ \E op \in Ops : ApiCheck(c, op) PROVE LifeInv'
  BY <1>19, <1>22 DEF ApiReadFd, ApiCheck
<1>23. ASSUME NEW c \in Clients, EvpipeWrite(c) PROVE LifeInv'
  <2>1. call[c] \in [at : {"write"}, op : Ops, fd : Sessions]
    BY <1>23 DEF EvpipeWrite, TypeOK, Calls, NoCall
  <2>2. evpipe = 0 => Reaches(call[c].fd) = {FALSE}
    <3>1. call[c].fd # 0
      BY <2>1
    <3>2. QED
      BY <3>1, Zenon DEF Reaches
  <2>3. evpipe = 0 => pipe' = pipe
    BY <1>23, <2>2 DEF EvpipeWrite
  <2>4. QED
    BY <1>23, <2>3 DEF EvpipeWrite, LifeInv, Life, Up, Down
<1>24. QED
  BY <1>1, <1>2, <1>3, <1>4, <1>5, <1>6, <1>7, <1>8, <1>9, <1>10, <1>11, <1>12, <1>13, <1>14, <1>15, <1>16, <1>17, <1>18, <1>20, <1>21, <1>22, <1>23, <1>25, NextCases

LEMMA LifeInvariant == ASSUME ~Eager PROVE Spec => []LifeInv
<1>1. Init => LifeInv
  BY DEF Init, LifeInv
<1>2. TypeOK /\ LifeInv /\ [Next]_vars => LifeInv'
  BY LifeInvStep
<1>3. QED
  BY <1>1, <1>2, TypeCorrect, PTL DEF Spec

\* If the application logs in again only after the old thread has ended, and
\* not after one that select() cut off: an established session is otherwise
\* always ended with a notice, works on what it created, and leaves nothing
\* open, whatever the server, the network and the API threads do; cut off, it
\* leaves everything open but the lock.
THEOREM LifeSafe ==
  ASSUME ~Eager PROVE Spec => [](EndIsNotified /\ OwnConnection /\ AllOrNothing)
<1>1. ASSUME TypeOK, LifeInv, SendqReleased PROVE EndIsNotified /\ OwnConnection /\ AllOrNothing
  <2>1. ASSUME NEW s \in Sessions, pc[s] = "Done", phase[s] = "main" PROVE notified[s] > 0
    <3>1. s <= session
      BY <1>1, <2>1 DEF LifeInv, TypeOK
    <3>2. CASE s < session
      BY <1>1, <2>1, <3>2 DEF LifeInv
    <3>3. CASE s = session
      BY <1>1, <2>1, <3>3 DEF LifeInv, Life, Down
    <3>4. QED
      BY <1>1, <3>1, <3>2, <3>3 DEF TypeOK
  <2>2. ASSUME NEW s \in Sessions, phase[s] = "main", pc[s] = "Select", sockd # 0
        PROVE  sockd = s /\ evpipe = s /\ loggedin
    BY <1>1, <2>2, Newest DEF Running, Life, Up, Down
  <2>3. ASSUME \A s \in Sessions : ~Running(s), session # 0, phase[session] = "main"
        PROVE  /\ IF pc[session] = "Cut"
                  THEN sockd = session /\ evpipe = session /\ loggedin
                  ELSE sockd = 0 /\ evpipe = 0 /\ pipe = <<>> /\ ~loggedin
               /\ sendq = 0
    <3>1. session \in Sessions /\ Life(session)
      BY <1>1, <2>3 DEF LifeInv, TypeOK
    <3>2. pc[session] \in {"Done", "Cut"}
      BY <2>3, <3>1 DEF Running, Life
    <3>3. IF pc[session] = "Cut" THEN Up(session) ELSE Down(session)
      BY <2>3, <3>1, <3>2 DEF Life
    <3>4. \A s \in Sessions : sendq # s
      BY <1>1, <2>3 DEF SendqReleased, Draining, Running
    <3>5. QED
      BY <1>1, <2>3, <3>3, <3>4 DEF Up, Down, TypeOK
  <2>4. QED
    BY <2>1, <2>2, <2>3 DEF EndIsNotified, OwnConnection, AllOrNothing
<1>2. QED
  BY <1>1, LifeInvariant, TypeCorrect, SendqSafe, PTL

\* In particular, when no thread is left an established session has given back
\* its socket, its pipe and the sendq lock, or, cut off, the lock alone.
THEOREM LeavesAllOrNothing == ASSUME ~Eager PROVE Spec => []AllOrNothing
BY LifeSafe, PTL

\* Under the same condition nothing is sent for a session whose end the
\* application has been told.
THEOREM QuietSafe == ASSUME ~Eager PROVE Spec => QuietAfterNotice
<1>1. ASSUME TypeOK, LifeInv, [Next]_vars
      PROVE  [\A i \in DOMAIN sent' : i > Len(sent) => notified[sent'[i].on] = 0]_<<sent, notified>>
  <2>1. ASSUME sent' = sent
        PROVE  \A i \in DOMAIN sent' : i > Len(sent) => notified[sent'[i].on] = 0
    BY <1>1, <2>1 DEF TypeOK
  <2>2. ASSUME NEW s \in Sessions, DrainOne(s), sent' # sent
        PROVE  \A i \in DOMAIN sent' : i > Len(sent) => notified[sent'[i].on] = 0
    <3>1. Up(s)
      <4>1. pc[s] = "Drain" /\ pipe # <<>>
        BY <2>2 DEF DrainOne, PipeReadable
      <4>2. Life(s)
        BY <1>1, <4>1, Newest DEF Running
      <4>3. QED
        BY <4>1, <4>2 DEF Life, Down
    <3> DEFINE r == [id |-> Head(pipe).id, on |-> sockd]
    <3>2. sent' = Append(sent, r) /\ r.on = s
      BY <2>2, <3>1 DEF DrainOne, Transmit, Up
    <3>3. \A i \in DOMAIN sent' : i > Len(sent) => sent'[i] = r
      BY <1>1, <3>2 DEF TypeOK
    <3>4. QED
      BY <3>1, <3>2, <3>3 DEF Up
  <2>3. sent' = sent \/ \E s \in Sessions : DrainOne(s)
    <3>1. CASE Connect \/ GetEvent \/ UNCHANGED vars
      BY <3>1 DEF Connect, GetEvent, vars
    <3>2. ASSUME NEW s \in Sessions,
                 \/ LoginPipe(s) \/ LoginConnect(s) \/ LoginFailed(s) \/ RecvClosed(s)
                 \/ SelectEvent(s) \/ SelectMsg(s) \/ SelectFails(s) \/ DrainEnd(s)
          PROVE  sent' = sent
      BY <3>2 DEF LoginPipe, LoginConnect, LoginFailed, RecvClosed, SelectEvent, SelectMsg,
                  SelectFails, DrainEnd
    <3>3. ASSUME NEW s \in Sessions,
                 \/ ReadFails(s) \/ ReadOther(s) \/ ReadReady(s) \/ ReadKick(s) \/ ReadBye(s)
                 \/ (\E type \in {"0x06", "0x59"} : ReadError(s, type))
          PROVE  sent' = sent
      BY <3>3 DEF ReadFails, ReadOther, ReadReady, ReadKick, ReadBye, ReadError
    <3>4. ASSUME NEW s \in Sessions, LogoutQueue(s) \/ LogoutClose(s) \/ LogoutFree(s)
          PROVE  sent' = sent
      BY <3>4 DEF LogoutQueue, LogoutClose, LogoutFree
    <3>5. ASSUME NEW c \in Clients,
                 ApiReadFd(c) \/ EvpipeWrite(c) \/ \E op \in Ops : ApiCheck(c, op)
          PROVE  sent' = sent
      BY <3>5 DEF ApiReadFd, EvpipeWrite, ApiCheck
    <3>6. QED
      BY <1>1, <3>1, <3>2, <3>3, <3>4, <3>5, NextCases
  <2>4. QED
    BY <2>1, <2>2, <2>3
<1>2. QED
  BY <1>1, LifeInvariant, TypeCorrect, PTL DEF Spec, QuietAfterNotice
=============================================================================
