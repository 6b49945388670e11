---------------------------- MODULE V3EventsProofs ----------------------------
(***************************************************************************)
(* Theorems about what reaches the GUI through the inbound queue.          *)
(*                                                                         *)
(* V3EventQueue: the queue is a FIFO whatever threads use it, and with a   *)
(* single consumer no NULL pointer is met, no wakeup lost.                 *)
(*                                                                         *)
(* V3ServerProps: of the 0x4c transactions, whose outcomes are queued      *)
(* there, none is read or written by halves, only late settings cut one    *)
(* short, and the form ends up with what was read after the last update.   *)
(***************************************************************************)
EXTENDS V3EventQueue, V3ServerProps, SequenceTheorems, TLAPS

\* The numbers on the list continue those already returned: together they
\* are 1..queued, in order.
Numbered ==
  /\ Len(got) + Len(eventq) = queued
  /\ \A i \in 1..Len(got) : got[i] = i
  /\ \A i \in 1..Len(eventq) : eventq[i] = Len(got) + i

FifoInv ==
  /\ ready \in BOOLEAN /\ crashed \in BOOLEAN /\ early \in BOOLEAN
  /\ putting \in SUBSET Producers
  /\ eventq \in Seq(Nat) /\ got \in Seq(Nat) /\ queued \in Nat
  /\ pc \in [Consumers -> PCs]
  /\ block \in [Consumers -> BOOLEAN]
  /\ Numbered
-----------------------------------------------------------------------------
\* What Put does to the list.
LEMMA PutNumbers ==
  ASSUME FifoInv, eventq' = Append(eventq, queued + 1), queued' = queued + 1, got' = got
  PROVE  Numbered' /\ eventq' \in Seq(Nat) /\ queued' \in Nat
<1>1. /\ eventq \in Seq(Nat) /\ got \in Seq(Nat) /\ queued \in Nat
      /\ Len(got) + Len(eventq) = queued
  BY DEF FifoInv, Numbered
<1>2. /\ eventq' \in Seq(Nat) /\ Len(eventq') = Len(eventq) + 1
      /\ \A i \in 1..Len(eventq') :
           eventq'[i] = IF i = Len(eventq) + 1 THEN queued + 1 ELSE eventq[i]
  BY <1>1
<1>3. ASSUME NEW i \in 1..Len(eventq') PROVE eventq'[i] = Len(got) + i
  <2>1. Len(eventq) \in Nat /\ Len(got) \in Nat
    BY <1>1
  <2>2. CASE i = Len(eventq) + 1
    BY <1>1, <1>2, <2>1, <2>2
  <2>3. CASE i # Len(eventq) + 1
    <3>1. i \in 1..Len(eventq) /\ eventq'[i] = eventq[i]
      BY <1>2, <2>1, <2>3
    <3> QED
      BY <3>1 DEF FifoInv, Numbered
  <2> QED
    BY <2>2, <2>3
<1>4. Len(got') + Len(eventq') = queued' /\ queued' \in Nat
  BY <1>1, <1>2
<1> QED
  BY <1>2, <1>3, <1>4 DEF FifoInv, Numbered

\* What taking the head does to it, and that the event returned is the next.
LEMMA TakeNumbers ==
  ASSUME FifoInv, eventq # <<>>, queued' = queued,
         got' = Append(got, Head(eventq)), eventq' = Tail(eventq)
  PROVE  /\ Numbered' /\ eventq' \in Seq(Nat) /\ got' \in Seq(Nat)
         /\ Len(got) < queued /\ got' = Append(got, Len(got) + 1)
<1>1. Len(eventq) > 0 /\ Head(eventq) = eventq[1] /\ Head(eventq) = Len(got) + 1
  BY DEF FifoInv, Numbered
<1>2. /\ eventq' \in Seq(Nat) /\ Len(eventq') = Len(eventq) - 1
      /\ \A i \in 1..Len(eventq') : eventq'[i] = eventq[i + 1]
  BY <1>1 DEF FifoInv
<1>3. /\ got' \in Seq(Nat) /\ Len(got') = Len(got) + 1
      /\ \A i \in 1..Len(got') : got'[i] = IF i = Len(got) + 1 THEN Head(eventq) ELSE got[i]
  BY <1>1 DEF FifoInv
<1>4. Len(got') + Len(eventq') = queued'
  <2>1. Len(got) \in Nat /\ Len(eventq) \in Nat /\ Len(got) + Len(eventq) = queued
    BY DEF FifoInv, Numbered
  <2> QED
    BY <1>2, <1>3, <2>1
<1>5. \A i \in 1..Len(got') : got'[i] = i
  BY <1>1, <1>3 DEF FifoInv, Numbered
<1>6. \A i \in 1..Len(eventq') : eventq'[i] = Len(got') + i
  <2>1. TAKE i \in 1..Len(eventq')
  <2>2. i + 1 \in 1..Len(eventq) /\ eventq'[i] = eventq[i + 1]
    BY <1>1, <1>2 DEF FifoInv
  <2>3. eventq[i + 1] = Len(got) + (i + 1)
    BY <2>2 DEF FifoInv, Numbered
  <2> QED
    BY <1>3, <2>2, <2>3 DEF FifoInv
<1> QED
  BY <1>1, <1>2, <1>3, <1>4, <1>5, <1>6 DEF FifoInv, Numbered

\* Take, from either of its callers: it crashes on an empty list and is an
\* abstract Take on any other.
LEMMA TakeStep ==
  ASSUME FifoInv, NEW c \in Consumers, Take(c),
         UNCHANGED <<ready, putting, block, queued, early>>
  PROVE  FifoInv' /\ (Fifo!Take \/ UNCHANGED <<queued, got>>)
<1>1. CASE eventq = <<>>
  BY <1>1 DEF Take, FifoInv, Numbered
<1>2. CASE eventq # <<>>
  <2>1. /\ got' = Append(got, Head(eventq)) /\ eventq' = Tail(eventq)
        /\ Goto(c, "out") /\ UNCHANGED crashed
    BY <1>2 DEF Take
  <2>2. /\ Numbered' /\ eventq' \in Seq(Nat) /\ got' \in Seq(Nat)
        /\ Len(got) < queued /\ got' = Append(got, Len(got) + 1)
    BY <2>1, <1>2, TakeNumbers
  <2>3. pc' \in [Consumers -> PCs]
    BY <2>1 DEF Goto, FifoInv, PCs
  <2> QED
    BY <2>1, <2>2, <2>3 DEF FifoInv, Fifo!Take
<1> QED
  BY <1>1, <1>2

\* Every step keeps FifoInv and is a step of EventFifo or a stutter.
LEMMA FifoStep ==
  ASSUME FifoInv, [Next]_vars
  PROVE  FifoInv' /\ [Fifo!Next]_<<queued, got>>
<1>1. CASE UNCHANGED vars
  BY <1>1 DEF vars, threadVars, FifoInv, Numbered
<1>2. ASSUME NEW p \in Producers, PutCheck(p)
      PROVE  FifoInv' /\ UNCHANGED <<queued, got>>
  BY <1>2 DEF PutCheck, threadVars, FifoInv, Numbered
<1>3. ASSUME NEW p \in Producers, Put(p)
      PROVE  FifoInv' /\ Fifo!Accept
  <2>1. Numbered' /\ eventq' \in Seq(Nat) /\ queued' \in Nat
    BY <1>3, PutNumbers DEF Put
  <2>2. pc' \in [Consumers -> PCs]
    <3>1. UNCHANGED pc \/ \E c \in Consumers : pc' = [pc EXCEPT ![c] = "woken"]
      BY <1>3 DEF Put, Signal, Waiting, Goto
    <3> QED
      BY <3>1 DEF FifoInv, PCs
  <2> QED
    BY <1>3, <2>1, <2>2 DEF Put, FifoInv, Fifo!Accept
<1>4. ASSUME NEW c \in Consumers, Call(c)
      PROVE  FifoInv' /\ UNCHANGED <<queued, got>>
  <2>1. PICK b \in BOOLEAN : block' = [block EXCEPT ![c] = b]
    BY <1>4 DEF Call, Allowed
  <2>2. UNCHANGED pc \/ pc' = [pc EXCEPT ![c] = "enter"]
    BY <1>4 DEF Call, Goto
  <2>3. pc' \in [Consumers -> PCs] /\ block' \in [Consumers -> BOOLEAN]
    BY <2>1, <2>2 DEF FifoInv, PCs
  <2> QED
    BY <1>4, <2>3 DEF Call, FifoInv, Numbered
<1>5. ASSUME NEW c \in Consumers, Enter(c)
      PROVE  FifoInv' /\ (Fifo!Take \/ UNCHANGED <<queued, got>>)
  <2>1. CASE eventq = <<>>
    BY <1>5, <2>1 DEF Enter, Goto, FifoInv, Numbered, PCs
  <2>2. CASE eventq # <<>>
    BY <1>5, <2>2, TakeStep DEF Enter
  <2> QED
    BY <2>1, <2>2
<1>6. ASSUME NEW c \in Consumers, Woken(c)
      PROVE  FifoInv' /\ (Fifo!Take \/ UNCHANGED <<queued, got>>)
  BY <1>6, TakeStep DEF Woken
<1>7. ASSUME NEW c \in Consumers, WakeSpuriously(c)
      PROVE  FifoInv' /\ UNCHANGED <<queued, got>>
  <2>1. pc' \in [Consumers -> PCs]
    BY <1>7 DEF WakeSpuriously, Goto, FifoInv, PCs
  <2> QED
    BY <1>7, <2>1 DEF WakeSpuriously, FifoInv, Numbered
<1> QED
  BY <1>1, <1>2, <1>3, <1>4, <1>5, <1>6, <1>7
     DEF Next, Produce, Consume, Fifo!Next

LEMMA FifoInit == Init => FifoInv /\ Fifo!Init
<1> SUFFICES ASSUME Init PROVE FifoInv /\ Fifo!Init
  OBVIOUS
<1>1. eventq \in Seq(Nat) /\ got \in Seq(Nat) /\ Len(eventq) = 0 /\ Len(got) = 0
  BY DEF Init
<1>2. Numbered
  BY <1>1 DEF Init, Numbered
<1>3. pc \in [Consumers -> PCs] /\ block \in [Consumers -> BOOLEAN]
  BY DEF Init, PCs
<1> QED
  BY <1>1, <1>2, <1>3 DEF Init, FifoInv, Fifo!Init

\* The variables have their types and no event is returned that was not put
\* on the list (v3_queue_event, v3_get_event).
THEOREM QueueTyped == Spec => []TypeOK
<1>1. FifoInv => TypeOK
  BY DEF FifoInv, Numbered, TypeOK
<1>2. FifoInv /\ [Next]_vars => FifoInv'
  BY FifoStep
<1> QED
  BY FifoInit, <1>1, <1>2, PTL DEF Spec

\* v3_queue_event and v3_get_event implement a FIFO: any number of producers
\* and consumers, blocking or not, with or without spurious wakeups.
THEOREM FifoRefined == Spec => ImplementsFifo
<1>1. FifoInv /\ [Next]_vars => FifoInv'
  BY FifoStep
<1>2. FifoInv /\ [Next]_vars => [Fifo!Next]_<<queued, got>>
  BY FifoStep
<1> QED
  BY FifoInit, <1>1, <1>2, PTL DEF Spec, ImplementsFifo, Fifo!Spec
-----------------------------------------------------------------------------
\* What a single consumer knows at each point of v3_get_event.
Guarded(c) ==
  /\ pc[c] = "enter" /\ ~block[c] => eventq # <<>>
  /\ pc[c] = "waiting" => eventq = <<>> /\ block[c]
  /\ pc[c] = "woken" /\ ~early => eventq # <<>>

LoneInv(c) == FifoInv /\ (crashed => early) /\ Guarded(c)

\* Each step of a lone consumer, and of a producer next to it, keeps Guarded.
LEMMA LoneStep ==
  ASSUME NEW c, Consumers = {c}, LoneInv(c), [Next]_vars
  PROVE  LoneInv(c)'
<1> USE DEF LoneInv
<1>0. FifoInv'
  BY FifoStep
<1>1. CASE UNCHANGED vars
  BY <1>0, <1>1 DEF vars, threadVars, Guarded
<1>2. ASSUME NEW p \in Producers, PutCheck(p)
      PROVE  LoneInv(c)'
  BY <1>0, <1>2 DEF PutCheck, threadVars, Guarded
<1>3. ASSUME NEW p \in Producers, Put(p)
      PROVE  LoneInv(c)'
  <2>1. eventq' # <<>> /\ block' = block /\ UNCHANGED <<crashed, early>>
    BY <1>3 DEF Put, FifoInv
  <2>2. pc'[c] # "waiting"
    <3>1. CASE pc[c] = "waiting"
      <4>1. eventq = <<>> /\ Waiting = {c}
        BY <3>1 DEF Guarded, Waiting
      <4>2. pc' = [pc EXCEPT ![c] = "woken"]
        BY <4>1, <1>3 DEF Put, Signal, Goto
      <4> QED
        BY <4>2 DEF FifoInv
    <3>2. CASE pc[c] # "waiting"
      <4>1. Waiting = {}
        BY <3>2 DEF Waiting
      <4> QED
        BY <1>3, <3>2, <4>1 DEF Put, Signal
    <3> QED
      BY <3>1, <3>2
  <2> QED
    BY <1>0, <2>1, <2>2 DEF Guarded
<1>4. CASE Call(c)
  <2>1. PICK b \in BOOLEAN :
          /\ block' = [block EXCEPT ![c] = b]
          /\ IF ~b /\ eventq = <<>> THEN UNCHANGED pc ELSE Goto(c, "enter")
    BY <1>4 DEF Call, Allowed
  <2>2. pc[c] = "out" /\ UNCHANGED <<eventq, crashed, early>>
    BY <1>4 DEF Call
  <2>3. block'[c] = b
    BY <2>1 DEF FifoInv
  <2>4. pc'[c] = "out" \/ (pc'[c] = "enter" /\ (b \/ eventq # <<>>))
    BY <2>1, <2>2 DEF Goto, FifoInv
  <2> QED
    BY <1>0, <2>2, <2>3, <2>4 DEF Guarded
<1>5. ASSUME Take(c), eventq # <<>>, UNCHANGED <<block, early>>
      PROVE  LoneInv(c)'
  <2>1. Goto(c, "out") /\ UNCHANGED crashed
    BY <1>5 DEF Take
  <2>2. pc'[c] = "out"
    BY <2>1 DEF Goto, FifoInv
  <2> QED
    BY <1>0, <1>5, <2>1, <2>2 DEF Guarded
<1>6. CASE Enter(c)
  <2>1. CASE eventq = <<>>
    <3>1. pc'[c] = "waiting" /\ UNCHANGED <<eventq, block, crashed, early>> /\ block[c]
      BY <1>6, <2>1 DEF Enter, Goto, FifoInv, Guarded
    <3> QED
      BY <1>0, <2>1, <3>1 DEF Guarded
  <2>2. CASE eventq # <<>>
    BY <1>5, <1>6, <2>2 DEF Enter
  <2> QED
    BY <2>1, <2>2
<1>7. CASE Woken(c)
  <2>1. pc[c] = "woken" /\ Take(c) /\ UNCHANGED <<block, early>>
    BY <1>7 DEF Woken
  <2>2. CASE eventq # <<>>
    BY <1>5, <2>1, <2>2
  <2>3. CASE eventq = <<>>
    <3>1. early /\ UNCHANGED <<eventq, pc>>
      BY <2>1, <2>3 DEF Take, Guarded
    <3> QED
      BY <1>0, <2>1, <2>3, <3>1 DEF Guarded
  <2> QED
    BY <2>2, <2>3
<1>8. CASE WakeSpuriously(c)
  <2>1. pc'[c] = "woken" /\ early' /\ UNCHANGED <<eventq, block>>
    BY <1>8 DEF WakeSpuriously, Goto, FifoInv
  <2> QED
    BY <1>0, <2>1 DEF Guarded
<1> QED
  BY <1>1, <1>2, <1>3, <1>4, <1>6, <1>7, <1>8 DEF Next, Produce, Consume

LEMMA LoneConsumer ==
  ASSUME NEW c, Consumers = {c}
  PROVE  Spec => []LoneInv(c)
<1>1. Init => LoneInv(c)
  BY FifoInit DEF LoneInv, Init, Guarded
<1>2. LoneInv(c) /\ [Next]_vars => LoneInv(c)'
  BY LoneStep
<1> QED
  BY <1>1, <1>2, PTL DEF Spec

\* A thread that has the queue to itself (the GUI, the jukebox, the iPhone
\* client) meets no NULL pointer before a spurious wakeup.
THEOREM LoneConsumerSafe ==
  ASSUME NEW c, Consumers = {c}
  PROVE  Spec => []NeverNull
<1>1. LoneInv(c) => NeverNull
  BY DEF LoneInv, NeverNull
<1> QED
  BY LoneConsumer, <1>1, PTL

\* It is never left in pthread_cond_wait beside an event: the one signal of
\* v3_queue_event goes to it (libventrilo3.c:6908-6914, 6944-6949).
THEOREM NoWakeupLost ==
  ASSUME NEW c, Consumers = {c}
  PROVE  Spec => []NoneStranded
<1>1. LoneInv(c) => NoneStranded
  BY DEF LoneInv, Guarded, NoneStranded, Waiting
<1> QED
  BY LoneConsumer, <1>1, PTL

\* With V3_NONBLOCK it does not wait, though the queue is looked at without
\* the mutex first: nobody else can have emptied it since.
THEOREM PollReturns ==
  ASSUME NEW c, Consumers = {c}
  PROVE  Spec => []NonblockReturns
<1>1. LoneInv(c) => NonblockReturns
  BY DEF LoneInv, Guarded, NonblockReturns, Waiting
<1> QED
  BY LoneConsumer, <1>1, PTL
-----------------------------------------------------------------------------
\* What is appended to a sequence, or left of it.
LEMMA Appended ==
  ASSUME NEW S, NEW s \in Seq(S), NEW e \in S
  PROVE  /\ Append(s, e) \in Seq(S) /\ Append(s, e) # <<>>
         /\ Len(Append(s, e)) = Len(s) + 1 /\ Append(s, e)[Len(s) + 1] = e
         /\ DOMAIN Append(s, e) = 1..(Len(s) + 1)
         /\ \A i \in 1..Len(s) : Append(s, e)[i] = s[i]
  OBVIOUS

\* What is left of it.
LEMMA Rest ==
  ASSUME NEW S, NEW s \in Seq(S), s # <<>>
  PROVE  /\ Head(s) = s[1] /\ Head(s) \in S /\ Tail(s) \in Seq(S)
         /\ Len(s) \in Nat \ {0} /\ Len(Tail(s)) = Len(s) - 1
         /\ DOMAIN s = 1..Len(s) /\ DOMAIN Tail(s) = 1..(Len(s) - 1)
         /\ \A i \in 1..(Len(s) - 1) : Tail(s)[i] = s[i + 1]
<1>1. Head(s) = s[1] /\ Len(s) \in Nat \ {0} /\ DOMAIN s = 1..Len(s)
  OBVIOUS
<1>2. Head(s) \in S
  BY <1>1
<1>3. Tail(s) \in Seq(S) /\ Len(Tail(s)) = Len(s) - 1
  OBVIOUS
<1>4. DOMAIN Tail(s) = 1..(Len(s) - 1)
  BY <1>3
<1>5. \A i \in 1..(Len(s) - 1) : Tail(s)[i] = s[i + 1]
  OBVIOUS
<1> QED
  BY <1>1, <1>2, <1>3, <1>4, <1>5

\* The requests are what they say.
LEMMA Records ==
  /\ Close \in Requests /\ Close.type = "close"
  /\ \A n \in Nat : /\ Open(n) \in Requests /\ Open(n).type = "open" /\ Open(n).n = n
                    /\ Update(n) \in Requests /\ Update(n).type = "update" /\ Update(n).n = n
  BY DEF Close, Open, Update, Requests

\* What a step of the GUI may write to the pipe, of which any part may be lost.
Asks ==
  \/ asked' = asked /\ pipe' \in {pipe, Append(pipe, Close)}
  \/ /\ asked' = asked + 1
     /\ \E q \in {Open(asked + 1), Update(asked + 1)} :
          pipe' \in {pipe, Append(pipe, Close), Append(pipe, q), Append(Append(pipe, Close), q)}
-----------------------------------------------------------------------------
(* The inductive invariant.                                                *)

\* Of the requests in pipe p each has a number above k, rising to n at most.
Rising(p, k, n) ==
  \A i \in DOMAIN p : p[i].type # "close" =>
    /\ p[i].n \in (k + 1)..n
    /\ \A j \in 1..(i - 1) : p[j].type # "close" => p[j].n < p[i].n

\* Up to k the numbers have been used as ids, none above.
Fresh(k) ==
  /\ tid <= k
  /\ \A i \in DOMAIN wire : wire[i].tid \in 1..k
  /\ \A w \in sent : w[1] \in 1..k
  /\ done \subseteq 1..k
  /\ Rising(pipe, k, asked)
Ordered == \E k \in 0..asked : Fresh(k)

\* The message belongs to the transaction under way: there is at most one.
Now(i) == wire[i].tid = tid
Single == \A i, j \in DOMAIN wire : Now(i) /\ Now(j) => i = j

\* A transaction that reads has all that lies before, and began after every
\* completed one; one that writes has sent its own values, up to where it is.
Reads == \A i \in DOMAIN wire : Now(i) /\ wire[i].sub = "recv" =>
  /\ wire[i].property \in {0, 1, Finish} \cup Settings
  /\ wire[i].property > 1 => \A q \in Settings : q < wire[i].property => prop[q] = tid
  /\ \A n \in done : n < tid
SentBy(n) == {w \in sent : w[1] = n}
Writes == \A i \in DOMAIN wire : Now(i) /\ wire[i].sub = "send" =>
  /\ sending /\ wire[i].property \in Settings
  /\ \A q \in Settings : prop[q] = tid
  /\ SentBy(tid) = {<<tid, q, tid>> : q \in {r \in Settings : r <= wire[i].property}}
Is(i, type) == events[i].type = type

\* Without a connection nothing is under way and DISCONNECT is yet to be taken,
\* last; or the window is closed.
Gone ==
  /\ ~loggedin => /\ pipe = <<>> /\ wire = <<>> /\ ~sending
                  /\ IF events = <<>> THEN ~isOpen /\ ~SrvEditorOpen ELSE Is(Len(events), "disconnect")
  /\ \A i \in DOMAIN events : Is(i, "disconnect") => i = Len(events) /\ ~loggedin

\* While the form is unlocked in time no update is under way; while it is
\* locked one is asked for, sent, or done: nothing follows it in the pipe.
NoUpdate == \A i \in DOMAIN pipe : pipe[i].type # "update"
NoSent == \A i \in DOMAIN events : ~Is(i, "sent")
Idle == NoUpdate /\ ~sending /\ NoSent
Busy ==
  \/ /\ pipe # <<>> /\ pipe[Len(pipe)].type = "update"
     /\ \A i \in 1..(Len(pipe) - 1) : pipe[i].type # "update"
     /\ ~sending /\ NoSent
  \/ sending /\ pipe = <<>> /\ NoSent
  \/ /\ NoUpdate /\ ~sending
     /\ \A i, j \in DOMAIN events : Is(i, "sent") /\ Is(j, "sent") => i = j
Locked ==
  /\ sensitive => SrvIsNotUpdating
  /\ ~late => Idle \/ (~SrvIsNotUpdating /\ Busy)
  /\ cut => late

\* What the form shows once the events are taken.
Latest(v) ==
  \/ v = shown /\ \A i \in DOMAIN events : ~Is(i, "received")
  \/ \E i \in DOMAIN events : Is(i, "received") /\ v = events[i].of
        /\ \A j \in (i + 1)..Len(events) : ~Is(j, "received")

\* New settings will come: a transaction is under way, or the end of an update
\* will ask for them.
Coming == (\E i \in DOMAIN wire : Now(i)) \/ \E i \in DOMAIN events : Is(i, "sent")
Follows ==
  loggedin /\ SrvEditorOpen /\ ~dropped =>
    IF pipe = <<>> THEN Coming \/ \E v \in 0..asked : Latest(v) /\ \A n \in done : n < v
    ELSE pipe[Len(pipe)].type # "close"

SPInv == SPTypeOK /\ Ordered /\ Single /\ Reads /\ Writes /\ Gone /\ Locked /\ Follows
           /\ TransfersAreWhole
-----------------------------------------------------------------------------
(* Typing.                                                                 *)

\* A step of the GUI asks, takes an event at most, and leaves the transaction alone.
LEMMA Asked ==
  ASSUME SPTypeOK, ShowWindow \/ HideWindow \/ ServerUpdate \/ TakeEvent
  PROVE  /\ Asks /\ UNCHANGED <<netVars, loggedin, sessions>>
         /\ events' = events \/ (events # <<>> /\ events' = Tail(events))
<1> USE DEF SPTypeOK
<1>0. asked \in Nat /\ asked + 1 \in Nat /\ pipe \in Seq(Requests)
  OBVIOUS
<1>1. ASSUME NEW q \in {Open(asked + 1), Update(asked + 1)}, Ask(pipe, q)
      PROVE  Asks
  BY <1>1 DEF Ask, Written, Asks
<1>2. ASSUME asked' = asked, pipe' \in Written(pipe, Close) \/ pipe' = pipe
      PROVE  Asks
  BY <1>2 DEF Written, Asks
<1>3. ASSUME NEW admin, Show(admin) PROVE Asks
  BY <1>1, <1>2, <1>3 DEF Show
<1>4. CASE ShowWindow
  BY <1>3, <1>4 DEF ShowWindow
<1>5. CASE HideWindow
  BY <1>2, <1>5 DEF HideWindow, Hide
<1>6. CASE ServerUpdate
  BY <1>1, <1>6 DEF ServerUpdate
<1>7. CASE TakeReceived \/ TakeDisconnect
  BY <1>2, <1>7 DEF TakeReceived, TakeDisconnect, Takes
<1>8. CASE TakeSent
  <2>1. ASSUME isOpen PROVE Asks
    <3>1. PICK p \in Written(pipe, Close) : Ask(p, Open(asked + 1))
      BY <1>8, <2>1 DEF TakeSent, SendDone
    <3>2. p \in {pipe, Append(pipe, Close)}
      BY <3>1 DEF Written
    <3>3. asked' = asked + 1 /\ pipe' \in {p, Append(p, Open(asked + 1))}
      BY <3>1 DEF Ask, Written
    <3> QED
      BY <3>2, <3>3 DEF Asks
  <2>2. ASSUME ~isOpen PROVE Asks
    <3>1. asked' = asked /\ pipe' \in Written(pipe, Close)
      BY <1>8, <2>2 DEF TakeSent, SendDone
    <3> QED
      BY <1>2, <3>1
  <2> QED
    BY <1>8, <2>1, <2>2 DEF TakeSent, Takes
<1>9. CASE TakeAuth
  BY <1>2, <1>3, <1>9 DEF TakeAuth, Takes
<1> QED
  BY <1>4, <1>5, <1>6, <1>7, <1>8, <1>9 DEF TakeEvent

\* What is asked for or sent next is a property, or the end.
LEMMA NextProperty ==
  ASSUME NEW p \in Nat
  PROVE  /\ AfterRecv(p) \in Nat /\ AfterSend(p) \in Nat
         /\ p \in {0, 1, Finish} \cup Settings =>
              \/ AfterRecv(p) > Finish /\ p = Finish
              \/ /\ AfterRecv(p) \in {0, 1, Finish} \cup Settings
                 /\ \A q \in Settings : q < AfterRecv(p) => q <= p
         /\ p \in Settings =>
              \/ AfterSend(p) > Finish /\ \A q \in Settings : q <= p
              \/ /\ AfterSend(p) \in Settings /\ p < AfterSend(p)
                 /\ \A q \in Settings : q <= AfterSend(p) => q <= p \/ q = AfterSend(p)
<1> USE ServerPropsAssumption
<1>1. AfterRecv(p) \in Nat /\ AfterSend(p) \in Nat
  BY DEF AfterRecv, AfterSend
<1>2. CASE p \in {0, 1, Finish}
  BY <1>1, <1>2 DEF AfterRecv, Settings, CHAT_FILTER
<1>3. ASSUME p \in Settings
      PROVE  /\ AfterRecv(p) \in {Finish} \cup Settings
             /\ \A q \in Settings : q < AfterRecv(p) => q <= p
  <2>1. p \in 2..(Finish - 1) /\ p \notin Skipped
    BY <1>3 DEF Settings, CHAT_FILTER
  <2>2. CASE p + 1 \in Skipped
    <3>1. AfterRecv(p) = p + 2 /\ p + 2 \notin Skipped /\ p + 1 <= Finish - 2
      BY <2>2 DEF AfterRecv
    <3> QED
      BY <2>1, <2>2, <3>1 DEF Settings, CHAT_FILTER
  <2>3. CASE p + 1 \notin Skipped
    <3>1. AfterRecv(p) = p + 1
      BY <2>1, <2>3 DEF AfterRecv
    <3> QED
      BY <2>1, <2>3, <3>1 DEF Settings, CHAT_FILTER
  <2> QED
    BY <2>2, <2>3
<1>4. ASSUME p \in Settings
      PROVE  \/ AfterSend(p) > Finish /\ \A q \in Settings : q <= p
             \/ /\ AfterSend(p) \in Settings /\ p < AfterSend(p)
                /\ \A q \in Settings : q <= AfterSend(p) => q <= p \/ q = AfterSend(p)
  <2>1. p \in 2..(Finish - 1) /\ p \notin Skipped
    BY <1>4 DEF Settings, CHAT_FILTER
  <2>2. CASE p + 1 \in Skipped
    <3>1. AfterSend(p) = p + 2 /\ p + 2 \notin Skipped /\ p + 1 <= Finish - 2
      BY <2>2 DEF AfterSend
    <3> QED
      BY <2>1, <2>2, <3>1 DEF Settings, CHAT_FILTER
  <2>3. CASE p + 1 = Finish
    <3>1. AfterSend(p) = p + 2
      BY <2>3 DEF AfterSend
    <3> QED
      BY <2>1, <2>3, <3>1 DEF Settings, CHAT_FILTER
  <2>4. CASE p + 1 \notin Skipped \cup {Finish}
    <3>1. AfterSend(p) = p + 1
      BY <2>4 DEF AfterSend
    <3> QED
      BY <2>1, <2>4, <3>1 DEF Settings, CHAT_FILTER
  <2> QED
    BY <2>2, <2>3, <2>4
<1> QED
  BY <1>1, <1>2, <1>3, <1>4 DEF Settings, CHAT_FILTER

\* A step of the GUI keeps the types ...
LEMMA GuiTyped ==
  ASSUME SPTypeOK, ShowWindow \/ HideWindow \/ ServerUpdate \/ TakeEvent
  PROVE  SPTypeOK'
<1>1. /\ Asks /\ UNCHANGED <<netVars, loggedin, sessions>>
      /\ events' = events \/ (events # <<>> /\ events' = Tail(events))
  BY Asked
<1> USE DEF SPTypeOK
<1>2. asked' \in Nat /\ pipe' \in Seq(Requests)
  <2>1. asked \in Nat /\ pipe \in Seq(Requests)
    OBVIOUS
  <2>2. \A p \in Seq(Requests), q \in Requests : Append(p, q) \in Seq(Requests)
    OBVIOUS
  <2>3. CASE asked' = asked /\ pipe' \in {pipe, Append(pipe, Close)}
    BY <2>1, <2>2, <2>3, Records
  <2>4. ASSUME NEW q \in {Open(asked + 1), Update(asked + 1)}, asked' = asked + 1,
               pipe' \in {pipe, Append(pipe, Close), Append(pipe, q), Append(Append(pipe, Close), q)}
        PROVE  asked' \in Nat /\ pipe' \in Seq(Requests)
    <3>1. q \in Requests /\ Close \in Requests
      BY <2>1, <2>4, Records
    <3>2. Append(pipe, Close) \in Seq(Requests)
      BY <2>1, <2>2, <3>1
    <3>3. Append(pipe, q) \in Seq(Requests)
      BY <2>1, <2>2, <3>1
    <3>4. Append(Append(pipe, Close), q) \in Seq(Requests)
      BY <2>2, <3>1, <3>2
    <3> QED
      <4>1. pipe' \in Seq(Requests)
        BY <2>1, <2>4, <3>2, <3>3, <3>4, Zenon
      <4>2. asked' \in Nat
        BY <2>1, <2>4
      <4> QED
        BY <4>1, <4>2
  <2> QED
    BY <1>1, <2>3, <2>4 DEF Asks
<1>3. events' \in Seq(Events)
  <2>1. events # <<>> => Tail(events) \in Seq(Events)
    BY Rest
  <2> QED
    BY <1>1, <2>1
<1>4. {isOpen, SrvEditorOpen, SrvIsNotUpdating, isAdmin, tab, sensitive, late, dropped}'
        \subseteq BOOLEAN
  <2>0. \A p, q : Ask(p, q) => dropped' \in BOOLEAN
    BY DEF Ask
  <2>1. CASE ShowWindow
    BY <2>0, <2>1 DEF ShowWindow, Show, formVars
  <2>2. CASE HideWindow
    BY <2>2 DEF HideWindow, Hide
  <2>3. CASE ServerUpdate
    BY <2>0, <2>3 DEF ServerUpdate
  <2>4. CASE TakeReceived
    BY <2>4 DEF TakeReceived
  <2>5. CASE TakeSent
    BY <2>0, <2>5 DEF TakeSent, SendDone
  <2>6. CASE TakeAuth
    BY <2>0, <2>6 DEF TakeAuth, Show, formVars
  <2>7. CASE TakeDisconnect
    BY <2>7 DEF TakeDisconnect
  <2> QED
    BY <2>1, <2>2, <2>3, <2>4, <2>5, <2>6, <2>7 DEF TakeEvent
<1>5. shown' \in Nat
  <2>1. events # <<>> => Head(events) \in Events
    BY Rest
  <2>2. CASE TakeReceived
    BY <2>1, <2>2 DEF TakeReceived, Takes, Events
  <2>3. CASE ~TakeReceived
    BY <2>3 DEF ShowWindow, HideWindow, ServerUpdate, TakeEvent, TakeSent, TakeAuth, TakeDisconnect, formVars
  <2> QED
    BY <2>2, <2>3
<1> QED
  BY <1>1, <1>2, <1>3, <1>4, <1>5 DEF netVars

\* ... and one of the network thread, of the rights or of the connection.
LEMMA NetTyped ==
  ASSUME SPTypeOK, Writes, Thread \/ Authorise \/ Logout \/ Login
  PROVE  SPTypeOK'
<1> USE DEF SPTypeOK
<1>0. /\ wire \in Seq(Messages) /\ pipe \in Seq(Requests) /\ events \in Seq(Events)
      /\ prop \in [Settings -> Nat] /\ asked \in Nat /\ tid \in Nat /\ done \subseteq Nat
      /\ 0 \in 0..Finish /\ CHAT_FILTER \in 0..Finish /\ CHAT_FILTER \in Settings
  BY ServerPropsAssumption DEF Settings, CHAT_FILTER
<1>1. /\ \A s \in Seq(Messages), m \in Messages : Append(s, m) \in Seq(Messages)
      /\ \A s \in Seq(Events), e \in Events : Append(s, e) \in Seq(Events)
  OBVIOUS
<1>2. \A sub \in {"recv", "send"}, p \in 0..Finish, n \in Nat : Message(sub, p, n) \in Messages
  BY DEF Message, Messages
<1>3. \A type \in {"received", "sent", "auth", "disconnect"}, n \in Nat, f \in [Settings -> Nat] :
        [type |-> type, of |-> n, prop |-> f] \in Events
  BY DEF Events
<1>4. CASE ReadOpen \/ ReadClose \/ ReadUpdate
  <2>1. Head(pipe) \in Requests /\ Tail(pipe) \in Seq(Requests)
    BY <1>0, <1>4, Rest DEF ReadOpen, ReadClose, ReadUpdate
  <2>2. Head(pipe).n \in Nat
    BY <2>1 DEF Requests
  <2>3. pipe' = Tail(pipe) /\ cut' \in BOOLEAN /\ sending' \in BOOLEAN /\ tid' \in Nat
    <3>1. Replaces /\ pipe' = Tail(pipe)
      BY <1>4 DEF ReadOpen, ReadClose, ReadUpdate
    <3>2. sending' \in BOOLEAN /\ tid' \in Nat
      <4>1. sending' \in BOOLEAN
        BY <1>4 DEF ReadOpen, ReadClose, ReadUpdate
      <4>2. tid' \in {0, Head(pipe).n}
        BY <1>4 DEF ReadOpen, ReadClose, ReadUpdate
      <4> QED
        BY <2>2, <4>1, <4>2
    <3>3. cut' \in BOOLEAN
      <4>1. (cut \/ sending) = TRUE \/ (cut \/ sending) = FALSE
        OBVIOUS
      <4> QED
        BY <3>1, <4>1, Zenon DEF Replaces
    <3> QED
      BY <3>1, <3>2, <3>3
  <2>4. CASE ReadOpen
    BY <1>0, <1>1, <1>2, <2>1, <2>3, <2>4 DEF ReadOpen, guiVars, flagVars, formVars
  <2>5. CASE ReadClose
    BY <1>0, <2>1, <2>3, <2>5 DEF ReadClose, guiVars, flagVars, formVars
  <2>6. CASE ReadUpdate
    <3>1. prop' \in [Settings -> Nat] /\ prop'[CHAT_FILTER] = tid'
      BY <1>0, <2>3, <2>6 DEF ReadUpdate
    <3>2. sent' \subseteq Nat \X Settings \X Nat
      BY <1>0, <2>3, <2>6, <3>1 DEF ReadUpdate
    <3>3. wire' \in Seq(Messages)
      BY <1>0, <1>1, <1>2, <2>3, <2>6 DEF ReadUpdate
    <3> QED
      BY <1>0, <2>1, <2>3, <2>6, <3>1, <3>2, <3>3 DEF ReadUpdate, guiVars, flagVars, formVars
  <2> QED
    BY <1>4, <2>4, <2>5, <2>6
<1>5. CASE ProcessMessage
  <2>1. PICK m : m = Head(wire) /\ (Ignore(m) \/ Received(m) \/ Acknowledged(m))
    BY <1>5 DEF ProcessMessage
  <2>2. wire # <<>> /\ UNCHANGED <<guiVars, tid, cut, loggedin, pipe, sessions>>
    BY <2>1 DEF Ignore, Received, Acknowledged, Answer
  <2>3. m \in Messages /\ m = wire[1] /\ Tail(wire) \in Seq(Messages) /\ 1 \in DOMAIN wire
    BY <1>0, <2>1, <2>2, Rest
  <2>4. m.property \in 0..Finish /\ m.tid \in Nat /\ m.sub \in {"recv", "send"}
    BY <2>3 DEF Messages
  <2>5. \A n \in Nat : n <= Finish => n \in 0..Finish
    BY ServerPropsAssumption
  <2>6. CASE Ignore(m)
    BY <1>0, <2>2, <2>3, <2>6 DEF Ignore, guiVars, flagVars, formVars
  <2>7. CASE Received(m)
    <3>1. AfterRecv(m.property) \in Nat
      BY <2>4, NextProperty, ServerPropsAssumption
    <3>2. prop' \in [Settings -> Nat]
      BY <1>0, <2>4, <2>7 DEF Received
    <3>3. wire' \in Seq(Messages) /\ events' \in Seq(Events)
      <4>1. CASE AfterRecv(m.property) <= Finish
        BY <1>0, <1>1, <1>2, <2>3, <2>4, <2>5, <2>7, <3>1, <4>1 DEF Received
      <4>2. CASE ~(AfterRecv(m.property) <= Finish)
        BY <1>0, <1>1, <1>3, <2>3, <2>4, <2>7, <3>2, <4>2 DEF Received, Queue
      <4> QED
        BY <4>1, <4>2
    <3> QED
      BY <1>0, <2>2, <2>7, <3>2, <3>3 DEF Received, guiVars, flagVars, formVars
  <2>8. CASE Acknowledged(m)
    <3>1. AfterSend(m.property) \in Nat /\ m.property \in Settings
      <4>1. Now(1) /\ wire[1].sub = "send"
        BY <2>3, <2>8 DEF Acknowledged, Current, Now
      <4>2. m.property \in Settings
        BY <2>3, <4>1 DEF Writes
      <4>3. m.property \in Nat
        BY <2>4, ServerPropsAssumption
      <4> QED
        BY <4>2, <4>3, NextProperty
    <3>2. CASE AfterSend(m.property) <= Finish
      <4>1. AfterSend(m.property) \in Settings
        <5>1. m.property \in Nat
          BY <2>4, ServerPropsAssumption
        <5>2. AfterSend(m.property) > Finish \/ AfterSend(m.property) \in Settings
          BY <3>1, <5>1, NextProperty
        <5> QED
          BY <3>1, <3>2, <5>2, ServerPropsAssumption
      <4>2. wire' \in Seq(Messages)
        BY <1>0, <1>1, <1>2, <2>3, <2>4, <2>5, <2>8, <3>1, <3>2 DEF Acknowledged
      <4>3. sent' \subseteq Nat \X Settings \X Nat
        <5>1. PICK k \in Settings : k = AfterSend(m.property)
          BY <4>1
        <5>2. sent' = sent \cup {<<m.tid, k, prop[k]>>}
          BY <2>8, <3>2, <5>1 DEF Acknowledged
        <5>3. <<m.tid, k, prop[k]>> \in Nat \X Settings \X Nat
          BY <1>0, <2>4
        <5> QED
          BY <5>2, <5>3
      <4> QED
        BY <1>0, <2>2, <2>8, <3>2, <4>2, <4>3 DEF Acknowledged, guiVars, flagVars, formVars
    <3>3. CASE ~(AfterSend(m.property) <= Finish)
      <4>1. wire' \in Seq(Messages) /\ events' \in Seq(Events) /\ done' \subseteq Nat /\ prop' = prop
        BY <1>0, <1>1, <1>3, <2>3, <2>4, <2>8, <3>3 DEF Acknowledged, Queue
      <4> QED
        BY <1>0, <2>2, <2>8, <3>3, <4>1 DEF Acknowledged, guiVars, flagVars, formVars
    <3> QED
      BY <3>2, <3>3
  <2> QED
    BY <2>1, <2>6, <2>7, <2>8
<1>6. CASE Authorise
  BY <1>0, <1>1, <1>3, <1>6 DEF Authorise, guiVars, flagVars, formVars, netVars
<1>7. CASE Logout
  <2>1. <<>> \in Seq(Requests) /\ <<>> \in Seq(Messages)
    OBVIOUS
  <2> QED
    BY <1>0, <1>1, <1>3, <1>7, <2>1 DEF Logout, guiVars, flagVars, formVars
<1>8. CASE Login
  BY <1>0, <1>8, ServerPropsAssumption DEF Login, guiVars, flagVars, formVars, netVars
<1> QED
  BY <1>4, <1>5, <1>6, <1>7, <1>8 DEF Thread
-----------------------------------------------------------------------------
(* What a transaction reads and writes.                                    *)

\* Requests stay in the order of their numbers, written or read.
LEMMA Numbers ==
  ASSUME NEW p \in Seq(Requests), NEW k \in Nat, NEW n \in Nat, Rising(p, k, n)
  PROVE  /\ Rising(Append(p, Close), k, n)
         /\ \A q \in {Open(n + 1), Update(n + 1)} : k <= n => Rising(Append(p, q), k, n + 1)
         /\ p # <<>> => Rising(Tail(p), k, n)
         /\ p # <<>> /\ Head(p).type # "close" =>
              /\ Head(p).n \in (k + 1)..n /\ Rising(Tail(p), Head(p).n, n)
<1>1. \A i \in DOMAIN p : p[i] \in Requests /\ p[i].n \in Nat
  <2>1. \A q \in Requests : q.n \in Nat
    BY DEF Requests
  <2>2. \A i \in DOMAIN p : p[i] \in Requests
    OBVIOUS
  <2> QED
    BY <2>1, <2>2
<1>2. Rising(Append(p, Close), k, n)
  <2>1. /\ DOMAIN Append(p, Close) = 1..(Len(p) + 1) /\ Append(p, Close)[Len(p) + 1] = Close
        /\ \A i \in 1..Len(p) : Append(p, Close)[i] = p[i]
    BY Appended, Records
  <2>2. ASSUME NEW i \in DOMAIN Append(p, Close), Append(p, Close)[i].type # "close"
        PROVE  i \in DOMAIN p /\ \A j \in 1..(i - 1) : j \in 1..Len(p)
    BY <2>1, <2>2, Records
  <2> QED
    BY <2>1, <2>2 DEF Rising
<1>3. ASSUME NEW q \in {Open(n + 1), Update(n + 1)}, k <= n
      PROVE  Rising(Append(p, q), k, n + 1)
  <2>0. q \in Requests /\ q.n = n + 1
    BY Records
  <2>1. /\ DOMAIN Append(p, q) = 1..(Len(p) + 1) /\ Append(p, q)[Len(p) + 1] = q
        /\ \A i \in 1..Len(p) : Append(p, q)[i] = p[i]
    BY <2>0, Appended
  <2>2. ASSUME NEW i \in 1..Len(p), p[i].type # "close"
        PROVE  /\ p[i].n \in (k + 1)..n
               /\ \A j \in 1..(i - 1) : p[j].type # "close" => p[j].n < p[i].n
    BY <2>2 DEF Rising
  <2> QED
    BY <1>1, <1>3, <2>0, <2>1, <2>2 DEF Rising
<1>4. ASSUME p # <<>>
      PROVE  /\ Rising(Tail(p), k, n)
             /\ Head(p).type # "close" =>
                  /\ Head(p).n \in (k + 1)..n /\ Rising(Tail(p), Head(p).n, n)
  <2>1. /\ Head(p) = p[1] /\ 1 \in DOMAIN p /\ DOMAIN Tail(p) = 1..(Len(p) - 1)
        /\ \A i \in 1..(Len(p) - 1) : Tail(p)[i] = p[i + 1] /\ i + 1 \in DOMAIN p
    BY <1>4, Rest
  <2>2. ASSUME NEW l \in Nat, Rising(p, l, n) \/ (p[1].type # "close" /\ l = p[1].n)
        PROVE  Rising(Tail(p), l, n)
    <3>1. ASSUME NEW i \in DOMAIN Tail(p), Tail(p)[i].type # "close"
          PROVE  Tail(p)[i].n \in (l + 1)..n
      <4>1. i + 1 \in DOMAIN p /\ Tail(p)[i] = p[i + 1] /\ i \in Nat /\ i \in 1..(Len(p) - 1)
        BY <2>1
      <4>2. Rising(p, l, n) => p[i + 1].n \in (l + 1)..n
        BY <3>1, <4>1 DEF Rising
      <4>3. ASSUME p[1].type # "close", l = p[1].n PROVE p[i + 1].n \in (l + 1)..n
        <5>1. 1 \in 1..((i + 1) - 1)
          BY <4>1
        <5>2. p[i + 1].n \in (k + 1)..n /\ p[1].n < p[i + 1].n
          BY <1>1, <3>1, <4>1, <4>3, <5>1 DEF Rising
        <5> QED
          BY <2>2, <4>3, <5>2
      <4> QED
        BY <2>2, <4>1, <4>2, <4>3
    <3>2. ASSUME NEW i \in DOMAIN Tail(p), Tail(p)[i].type # "close",
                 NEW j \in 1..(i - 1), Tail(p)[j].type # "close"
          PROVE  Tail(p)[j].n < Tail(p)[i].n
      <4>1. i + 1 \in DOMAIN p /\ j + 1 \in 1..((i + 1) - 1) /\ j \in 1..(Len(p) - 1)
        BY <2>1
      <4> QED
        BY <2>1, <3>2, <4>1 DEF Rising
    <3> QED
      BY <3>1, <3>2 DEF Rising
  <2>3. p[1].type # "close" => p[1].n \in (k + 1)..n
    BY <2>1 DEF Rising
  <2> QED
    BY <1>1, <2>1, <2>2, <2>3
<1> QED
  BY <1>2, <1>3, <1>4

\* A step of the GUI writes higher numbers, and touches no transaction.
LEMMA GuiOrders ==
  ASSUME SPTypeOK, Ordered, Asks, UNCHANGED netVars
  PROVE  Ordered'
<1>1. PICK k \in 0..asked : Fresh(k)
  BY DEF Ordered
<1>2. asked \in Nat /\ k \in Nat /\ k <= asked /\ pipe \in Seq(Requests) /\ Close \in Requests
  BY Records DEF SPTypeOK
<1>3. Rising(pipe, k, asked)
  BY <1>1 DEF Fresh
<1>4. PICK p \in Seq(Requests) : p = Append(pipe, Close)
  BY <1>2, Appended
<1>5. Rising(p, k, asked)
  BY <1>2, <1>3, <1>4, Numbers
<1>6. asked' \in {asked, asked + 1} /\ Rising(pipe', k, asked')
  <2>1. CASE asked' = asked /\ pipe' \in {pipe, Append(pipe, Close)}
    BY <1>3, <1>4, <1>5, <2>1
  <2>2. ASSUME NEW q \in {Open(asked + 1), Update(asked + 1)}, asked' = asked + 1,
               pipe' \in {pipe, p, Append(pipe, q), Append(p, q)}
        PROVE  Rising(pipe', k, asked')
    <3>1. Rising(pipe, k, asked + 1) /\ Rising(p, k, asked + 1)
      BY <1>2, <1>3, <1>5 DEF Rising, Requests
    <3>2. Rising(Append(pipe, q), k, asked + 1) /\ Rising(Append(p, q), k, asked + 1)
      BY <1>2, <1>3, <1>5, Numbers
    <3> QED
      BY <2>2, <3>1, <3>2
  <2> QED
    BY <1>4, <2>1, <2>2 DEF Asks
<1>7. Fresh(k)' /\ k \in 0..asked'
  BY <1>1, <1>2, <1>6 DEF Fresh, netVars
<1> QED
  BY <1>7 DEF Ordered

\* Nothing is under way but m, the last of the wire; or nothing at all.
Only(m) == \A i \in DOMAIN wire : Now(i) => i = Len(wire) /\ wire[i] = m

\* ... nor what is told about one.
LEMMA GuiTransfers ==
  ASSUME SPTypeOK, Single, Reads, Writes, TransfersAreWhole, UNCHANGED netVars,
         events' = events \/ (events # <<>> /\ events' = Tail(events))
  PROVE  Single' /\ Reads' /\ Writes' /\ TransfersAreWhole'
<1>1. Single' /\ Reads' /\ Writes'
  BY DEF Single, Reads, Writes, Now, SentBy, netVars
<1>2. \A n \in done' : {w \in sent' : w[1] = n} = {<<n, p, n>> : p \in Settings}
  BY DEF TransfersAreWhole, netVars
<1>3. ASSUME NEW i \in DOMAIN events', events'[i].type = "received"
      PROVE  \A p \in Settings : events'[i].prop[p] = events'[i].of
  <2>1. CASE events' = events
    BY <1>3, <2>1 DEF TransfersAreWhole
  <2>2. CASE events # <<>> /\ events' = Tail(events)
    <3>1. events \in Seq(Events)
      BY DEF SPTypeOK
    <3>2. i + 1 \in DOMAIN events /\ events'[i] = events[i + 1]
      BY <2>2, <3>1, Rest
    <3> QED
      BY <1>3, <3>2 DEF TransfersAreWhole
  <2> QED
    BY <2>1, <2>2
<1> QED
  BY <1>1, <1>2, <1>3 DEF TransfersAreWhole

\* The network thread: a request begins a transaction ...
LEMMA BeginOrders ==
  ASSUME SPTypeOK, Ordered, ReadOpen \/ ReadClose \/ ReadUpdate
  PROVE  /\ Ordered'
         /\ \E k \in 0..asked :
              /\ Fresh(k)
              /\ tid' = 0 \/ (tid' \in (k + 1)..asked /\ Head(pipe).n = tid')
<1>1. PICK k \in 0..asked : Fresh(k)
  BY DEF Ordered
<1>2. /\ asked \in Nat /\ k \in Nat /\ k <= asked /\ pipe \in Seq(Requests)
      /\ wire \in Seq(Messages) /\ pipe # <<>> /\ pipe' = Tail(pipe) /\ asked' = asked
  BY DEF SPTypeOK, ReadOpen, ReadClose, ReadUpdate, guiVars
<1>3. Rising(pipe, k, asked) /\ tid <= k
  BY <1>1 DEF Fresh
<1>4. CASE ReadClose
  <2>1. Rising(pipe', k, asked)
    BY <1>2, <1>3, Numbers
  <2>2. Fresh(k)' /\ tid' = 0
    BY <1>1, <1>2, <1>4, <2>1 DEF ReadClose, Fresh
  <2> QED
    BY <1>1, <1>2, <2>2 DEF Ordered
<1>5. CASE ReadOpen \/ ReadUpdate
  <2>1. tid' = Head(pipe).n /\ Head(pipe).type # "close" /\ done' = done
    BY <1>5 DEF ReadOpen, ReadUpdate
  <2>2. PICK l \in (k + 1)..asked : l = tid' /\ Rising(pipe', l, asked)
    BY <1>2, <1>3, <2>1, Numbers
  <2>3. \E sub \in {"recv", "send"}, p \in 0..Finish : wire' = Append(wire, Message(sub, p, tid'))
    BY <1>5, ServerPropsAssumption DEF ReadOpen, ReadUpdate, CHAT_FILTER
  <2>4. PICK m : wire' = Append(wire, m) /\ m \in Messages /\ m.tid = tid'
    <3>1. \A sub \in {"recv", "send"}, p \in 0..Finish :
            Message(sub, p, tid') \in Messages /\ Message(sub, p, tid').tid = tid'
      BY <1>2, <2>2 DEF Message, Messages
    <3> QED
      BY <2>3, <3>1
  <2>5. \A i \in DOMAIN wire' : wire'[i].tid \in 1..l
    <3>1. \A i \in 1..Len(wire) : wire[i].tid \in 1..k
      BY <1>1, <1>2 DEF Fresh
    <3>2. /\ DOMAIN wire' = 1..(Len(wire) + 1) /\ wire'[Len(wire) + 1] = m
          /\ \A i \in 1..Len(wire) : wire'[i] = wire[i]
      BY <1>2, <2>4, Appended
    <3>3. ASSUME NEW i \in DOMAIN wire' PROVE i = Len(wire) + 1 \/ i \in 1..Len(wire)
      BY <1>2, <3>2
    <3> QED
      BY <1>2, <2>2, <2>4, <3>1, <3>2, <3>3
  <2>6. \A w \in sent' : w[1] \in 1..l
    <3>1. \A w \in sent : w[1] \in 1..k
      BY <1>1 DEF Fresh
    <3>2. \E v : sent' = sent \/ sent' = sent \cup {<<tid', CHAT_FILTER, v>>}
      BY <1>5 DEF ReadOpen, ReadUpdate
    <3> QED
      BY <1>2, <2>2, <3>1, <3>2
  <2>7. done' \subseteq 1..l
    BY <1>1, <1>2, <2>1, <2>2 DEF Fresh
  <2>8. Fresh(l)'
    BY <1>2, <2>2, <2>5, <2>6, <2>7 DEF Fresh
  <2>9. l \in 0..asked'
    BY <1>2, <2>2
  <2>10. Ordered'
    BY <2>8, <2>9 DEF Ordered
  <2> QED
    BY <1>1, <2>1, <2>2, <2>10
<1> QED
  BY <1>4, <1>5

\* What one request adds to the wire is alone in its transaction.
LEMMA Added ==
  ASSUME wire \in Seq(Messages), NEW m \in Messages, wire' = Append(wire, m),
         \A i \in DOMAIN wire : wire[i].tid # tid'
  PROVE  Only(m)'
<1>1. /\ DOMAIN wire' = 1..(Len(wire) + 1) /\ wire'[Len(wire) + 1] = m
      /\ \A i \in 1..Len(wire) : wire'[i] = wire[i]
      /\ Len(wire') = Len(wire) + 1
  BY Appended
<1>2. ASSUME NEW i \in DOMAIN wire', wire'[i].tid = tid'
      PROVE  i = Len(wire') /\ wire'[i] = m
  <2>1. i = Len(wire) + 1 \/ i \in DOMAIN wire
    BY <1>1
  <2> QED
    BY <1>1, <1>2, <2>1
<1> QED
  BY <1>2 DEF Only, Now

\* What a transaction has read and written is the whole of it when it begins.
LEMMA BeginTransfers ==
  ASSUME SPTypeOK, Ordered, TransfersAreWhole, ReadOpen \/ ReadClose \/ ReadUpdate
  PROVE  Single' /\ Reads' /\ Writes' /\ TransfersAreWhole'
<1>1. PICK k \in 0..asked : Fresh(k) /\ (tid' = 0 \/ (tid' \in (k + 1)..asked /\ Head(pipe).n = tid'))
  BY BeginOrders
<1>2. /\ wire \in Seq(Messages) /\ asked \in Nat /\ k \in Nat
      /\ \A i \in DOMAIN wire : wire[i].tid \in 1..k
      /\ \A w \in sent : w[1] \in 1..k
      /\ done \subseteq 1..k /\ CHAT_FILTER \in Settings
      /\ 0 \in 0..Finish /\ CHAT_FILTER \in 0..Finish
  BY <1>1, ServerPropsAssumption DEF Fresh, SPTypeOK, Settings, CHAT_FILTER
<1>3. \A i \in DOMAIN wire : wire[i].tid # tid'
  BY <1>1, <1>2
<1>4. /\ events' = events /\ done' = done
      /\ \A p \in 0..Finish, sub \in {"recv", "send"} : tid' \in Nat =>
           /\ Message(sub, p, tid') \in Messages /\ Message(sub, p, tid').tid = tid'
           /\ Message(sub, p, tid').sub = sub /\ Message(sub, p, tid').property = p
  <2>1. events' = events /\ done' = done
    BY DEF ReadOpen, ReadClose, ReadUpdate
  <2> QED
    BY <2>1 DEF Message, Messages
<1>5. CASE ReadClose
  <2>1. \A i \in DOMAIN wire' : ~Now(i)'
    BY <1>3, <1>5 DEF ReadClose, Now
  <2>2. TransfersAreWhole'
    BY <1>5 DEF ReadClose, TransfersAreWhole
  <2> QED
    BY <2>1, <2>2 DEF Single, Reads, Writes
<1>6. CASE ReadOpen
  <2>1. tid' \in Nat /\ \A n \in done : n < tid'
    <3>1. tid' # 0
      <4>1. pipe \in Seq(Requests) /\ pipe # <<>> /\ Head(pipe).n = tid' /\ Head(pipe).type # "close"
        BY <1>6 DEF ReadOpen, SPTypeOK
      <4> QED
        BY <1>1, <1>2, <4>1, Numbers DEF Fresh
    <3> QED
      BY <1>1, <1>2, <3>1
  <2>2. PICK m \in Messages : /\ wire' = Append(wire, m) /\ m.sub = "recv" /\ m.property = 0
                               /\ m.tid = tid'
    BY <1>2, <1>4, <1>6, <2>1 DEF ReadOpen
  <2>3. Only(m)'
    BY <1>2, <1>3, <2>2, Added
  <2>4. Single' /\ Reads' /\ Writes'
    <3>1. \A i \in DOMAIN wire' : Now(i)' => i = Len(wire') /\ wire'[i] = m
      BY <2>3 DEF Only
    <3>2. Single'
      BY <3>1 DEF Single
    <3>3. Reads'
      BY <1>4, <2>1, <2>2, <3>1 DEF Reads
    <3>4. Writes'
      BY <2>2, <3>1 DEF Writes
    <3> QED
      BY <3>2, <3>3, <3>4
  <2>5. TransfersAreWhole'
    BY <1>6 DEF ReadOpen, TransfersAreWhole
  <2> QED
    BY <2>4, <2>5
<1>7. CASE ReadUpdate
  <2>1. tid' \in Nat /\ tid' > k
    <3>1. tid' # 0
      <4>1. pipe \in Seq(Requests) /\ pipe # <<>> /\ Head(pipe).n = tid' /\ Head(pipe).type # "close"
        BY <1>7 DEF ReadUpdate, SPTypeOK
      <4> QED
        BY <1>1, <1>2, <4>1, Numbers DEF Fresh
    <3> QED
      BY <1>1, <1>2, <3>1
  <2>2. PICK m \in Messages : /\ wire' = Append(wire, m) /\ m.sub = "send" /\ m.property = CHAT_FILTER
                               /\ m.tid = tid'
    BY <1>2, <1>4, <1>7, <2>1 DEF ReadUpdate
  <2>3. Only(m)'
    BY <1>2, <1>3, <2>2, Added
  <2>4. /\ \A q \in Settings : prop'[q] = tid'
        /\ sent' = sent \cup {<<tid', CHAT_FILTER, tid'>>} /\ sending'
    BY <1>2, <1>7 DEF ReadUpdate
  <2>5. \A i \in DOMAIN wire' : Now(i)' => i = Len(wire') /\ wire'[i] = m
    BY <2>3 DEF Only
  <2>6. Single' /\ Reads'
    BY <2>2, <2>5 DEF Single, Reads
  <2>7. SentBy(tid)' = {<<tid', CHAT_FILTER, tid'>>}
    BY <1>2, <2>1, <2>4 DEF SentBy
  <2>8. {r \in Settings : r <= CHAT_FILTER} = {CHAT_FILTER}
    BY <1>2, ServerPropsAssumption DEF Settings, CHAT_FILTER
  <2>9. Writes'
    BY <1>2, <2>2, <2>4, <2>5, <2>7, <2>8 DEF Writes
  <2>10. TransfersAreWhole'
    <3>1. \A n \in done : {w \in sent' : w[1] = n} = {w \in sent : w[1] = n}
      BY <1>2, <2>1, <2>4
    <3> QED
      BY <1>4, <1>7, <3>1 DEF ReadUpdate, TransfersAreWhole
  <2> QED
    BY <2>6, <2>9, <2>10
<1> QED
  BY <1>5, <1>6, <1>7

\* ... an answer is taken from the wire, and what it is answered with is
\* alone in its transaction, too.
LEMMA Answered ==
  ASSUME SPTypeOK, Ordered, Single, NEW m, Answer(m)
  PROVE  /\ wire \in Seq(Messages) /\ m = wire[1] /\ 1 \in DOMAIN wire /\ m \in Messages
         /\ tid' = tid /\ tid \in Nat
         /\ wire' = Tail(wire) => \A i \in DOMAIN wire' : wire'[i] = wire[i + 1] /\ i + 1 \in DOMAIN wire
         /\ wire' = Tail(wire) /\ m.tid = tid => \A i \in DOMAIN wire' : ~Now(i)'
         /\ \A n \in Messages : wire' = Append(Tail(wire), n) /\ m.tid = tid => Only(n)'
<1>1. /\ wire \in Seq(Messages) /\ m = wire[1] /\ wire # <<>> /\ tid' = tid /\ tid \in Nat
      /\ Tail(wire) \in Seq(Messages) /\ 1 \in DOMAIN wire /\ m \in Messages
      /\ Len(Tail(wire)) = Len(wire) - 1 /\ Len(wire) \in Nat /\ DOMAIN wire = 1..Len(wire)
      /\ \A i \in 1..(Len(wire) - 1) : Tail(wire)[i] = wire[i + 1]
  BY Rest DEF SPTypeOK, Answer
<1>2. m.tid = tid => \A i \in 1..(Len(wire) - 1) : Tail(wire)[i].tid # tid
  <2>1. ASSUME m.tid = tid, NEW i \in 1..(Len(wire) - 1), wire[i + 1].tid = tid PROVE FALSE
    <3>1. i + 1 \in DOMAIN wire /\ i + 1 # 1
      BY <1>1
    <3> QED
      BY <1>1, <2>1, <3>1 DEF Single, Now
  <2> QED
    BY <1>1, <2>1
<1>3. /\ wire' = Tail(wire) => \A i \in DOMAIN wire' : wire'[i] = wire[i + 1] /\ i + 1 \in DOMAIN wire
      /\ wire' = Tail(wire) /\ m.tid = tid => \A i \in DOMAIN wire' : ~Now(i)'
  <2>1. DOMAIN Tail(wire) = 1..(Len(wire) - 1)
    BY <1>1
  <2> QED
    BY <1>1, <1>2, <2>1 DEF Now
<1>4. ASSUME NEW n \in Messages, wire' = Append(Tail(wire), n), m.tid = tid
      PROVE  Only(n)'
  <2>1. PICK t \in Seq(Messages) : t = Tail(wire)
    BY <1>1
  <2>2. /\ DOMAIN wire' = 1..(Len(t) + 1) /\ wire'[Len(t) + 1] = n
        /\ \A i \in 1..Len(t) : wire'[i] = t[i]
        /\ Len(wire') = Len(t) + 1
    BY <1>4, <2>1, Appended
  <2>3. ASSUME NEW i \in DOMAIN wire', wire'[i].tid = tid'
        PROVE  i = Len(wire') /\ wire'[i] = n
    <3>1. i = Len(t) + 1 \/ i \in 1..(Len(wire) - 1)
      BY <1>1, <2>1, <2>2
    <3> QED
      BY <1>1, <1>2, <1>4, <2>1, <2>2, <2>3, <3>1
  <2> QED
    BY <2>3 DEF Only, Now
<1> QED
  BY <1>1, <1>3, <1>4

\* An answer leaves the numbers in order.
LEMMA AnswerOrders ==
  ASSUME SPTypeOK, Ordered, Single, Writes, ProcessMessage
  PROVE  Ordered'
<1>1. PICK m : m = Head(wire) /\ (Ignore(m) \/ Received(m) \/ Acknowledged(m))
  BY DEF ProcessMessage
<1>2. PICK k \in 0..asked : Fresh(k)
  BY DEF Ordered
<1>3. Answer(m)
  BY <1>1 DEF Ignore, Received, Acknowledged
<1>4. /\ wire \in Seq(Messages) /\ m = wire[1] /\ 1 \in DOMAIN wire /\ m \in Messages /\ tid' = tid
      /\ asked' = asked /\ pipe' = pipe
  <2>1. wire # <<>> /\ asked' = asked /\ pipe' = pipe
    BY <1>3 DEF Answer, guiVars
  <2>2. wire \in Seq(Messages) /\ m = wire[1] /\ 1 \in DOMAIN wire /\ m \in Messages /\ tid' = tid
    BY <1>3, Answered
  <2> QED
    BY <2>1, <2>2
<1>5. PICK t \in Seq(Messages) :
        t = Tail(wire) /\ DOMAIN t = 1..Len(t) /\ \A i \in 1..Len(t) : t[i].tid \in 1..k
  <2>1. wire # <<>>
    BY <1>4
  <2>2. PICK t \in Seq(Messages) : t = Tail(wire)
    BY <1>4, <2>1, Rest
  <2>3. DOMAIN t = 1..Len(t) /\ \A i \in 1..Len(t) : t[i] = wire[i + 1] /\ i + 1 \in DOMAIN wire
    BY <1>4, <2>1, <2>2, Rest
  <2> QED
    BY <1>2, <2>2, <2>3 DEF Fresh
<1>0. m.tid \in 1..k
  BY <1>2, <1>4 DEF Fresh
<1>6. \/ wire' = Tail(wire)
      \/ \E sub \in {"recv", "send"}, p \in 0..Finish : wire' = Append(Tail(wire), Message(sub, p, m.tid))
  <2>1. m.property \in Nat /\ (Acknowledged(m) => m.property \in Settings)
    <3>1. m.property \in Nat
      BY <1>4, ServerPropsAssumption DEF Messages
    <3>2. ASSUME Acknowledged(m) PROVE m.property \in Settings
      BY <1>4, <3>2 DEF Acknowledged, Current, Writes, Now
    <3> QED
      BY <3>1, <3>2
  <2>2. AfterRecv(m.property) \in Nat /\ AfterSend(m.property) \in Nat
    BY <2>1, NextProperty
  <2>3. \A n \in Nat : n <= Finish => n \in 0..Finish
    BY ServerPropsAssumption
  <2> QED
    BY <1>1, <2>2, <2>3 DEF Ignore, Received, Acknowledged
<1>7. \A i \in DOMAIN wire' : wire'[i].tid \in 1..k
  <2>1. CASE wire' = Tail(wire)
    BY <1>5, <2>1, Zenon
  <2>2. ASSUME NEW sub \in {"recv", "send"}, NEW p \in 0..Finish,
               wire' = Append(Tail(wire), Message(sub, p, m.tid))
        PROVE  \A i \in DOMAIN wire' : wire'[i].tid \in 1..k
    <3>1. m.tid \in Nat
      <4>1. \A x \in Messages : x.tid \in Nat
        BY DEF Messages
      <4> QED
        BY <1>4, <4>1
    <3>2. PICK n \in Messages : n = Message(sub, p, m.tid) /\ n.tid = m.tid
      <4>1. Message(sub, p, m.tid) \in Messages /\ Message(sub, p, m.tid).tid = m.tid
        BY <3>1 DEF Message, Messages
      <4> QED
        BY <4>1
    <3>3. /\ DOMAIN wire' = 1..(Len(t) + 1) /\ wire'[Len(t) + 1] = n
          /\ \A i \in 1..Len(t) : wire'[i] = t[i]
      BY <1>5, <2>2, <3>2, Appended
    <3>5. ASSUME NEW i \in DOMAIN wire'
          PROVE  wire'[i].tid \in 1..k
      <4>1. CASE i = Len(t) + 1
        BY <1>0, <3>2, <3>3, <4>1
      <4>2. CASE i \in 1..Len(t)
        BY <1>5, <3>3, <4>2
      <4> QED
        BY <3>3, <3>5, <4>1, <4>2
    <3> QED
      BY <3>5
  <2> QED
    BY <1>6, <2>1, <2>2
<1>8. (\A w \in sent' : w[1] \in 1..k) /\ done' \subseteq 1..k
  <2>1. (\A w \in sent : w[1] \in 1..k) /\ done \subseteq 1..k
    BY <1>2 DEF Fresh
  <2>2. /\ sent' = sent \/ \E p, v : sent' = sent \cup {<<m.tid, p, v>>}
        /\ done' = done \/ done' = done \cup {m.tid}
    BY <1>1 DEF Ignore, Received, Acknowledged
  <2>3. ASSUME NEW p, NEW v, sent' = sent \cup {<<m.tid, p, v>>}
        PROVE  \A w \in sent' : w[1] \in 1..k
    BY <1>0, <2>1, <2>3
  <2> QED
    BY <1>0, <2>1, <2>2, <2>3
<1>9. Fresh(k)'
  BY <1>2, <1>4, <1>7, <1>8 DEF Fresh
<1> QED
  BY <1>4, <1>9 DEF Ordered

\* One step on, the transaction has read or written one property more, or is
\* over and has all of them.
LEMMA AnswerTransfers ==
  ASSUME SPTypeOK, Ordered, Single, Reads, Writes, TransfersAreWhole, ProcessMessage
  PROVE  Single' /\ Reads' /\ Writes' /\ TransfersAreWhole'
<1>1. PICK m : m = Head(wire) /\ (Ignore(m) \/ Received(m) \/ Acknowledged(m))
  BY DEF ProcessMessage
<1>2. /\ m = wire[1] /\ 1 \in DOMAIN wire /\ m \in Messages /\ tid' = tid /\ tid \in Nat
      /\ wire' = Tail(wire) => \A i \in DOMAIN wire' : wire'[i] = wire[i + 1] /\ i + 1 \in DOMAIN wire
      /\ wire' = Tail(wire) /\ m.tid = tid => \A i \in DOMAIN wire' : ~Now(i)'
      /\ \A n \in Messages : wire' = Append(Tail(wire), n) /\ m.tid = tid => Only(n)'
  BY <1>1, Answered DEF Ignore, Received, Acknowledged
<1>3. m.property \in Nat /\ m.tid \in Nat
  BY <1>2, ServerPropsAssumption DEF Messages
<1>4. \A sub \in {"recv", "send"}, p \in Nat : p <= Finish =>
        /\ Message(sub, p, tid) \in Messages /\ Message(sub, p, tid).sub = sub
        /\ Message(sub, p, tid).property = p
  BY <1>2, ServerPropsAssumption DEF Message, Messages
<1>5. prop \in [Settings -> Nat] /\ events \in Seq(Events) /\ done \subseteq Nat
  BY DEF SPTypeOK
<1>6. ASSUME \A i \in DOMAIN wire' : ~Now(i)'
      PROVE  Single' /\ Reads' /\ Writes'
  BY <1>6 DEF Single, Reads, Writes
<1>7. CASE Ignore(m)
  <2>1. wire' = Tail(wire) /\ UNCHANGED <<prop, sending, sent, done, events>>
    BY <1>7 DEF Ignore
  <2>2. \A i \in DOMAIN wire' : /\ i + 1 \in DOMAIN wire /\ wire'[i] = wire[i + 1]
                               /\ Now(i)' = Now(i + 1)
    BY <1>2, <2>1 DEF Now
  <2>3. \A i \in DOMAIN wire' : i \in Int
    BY <1>2, <2>1, Rest DEF SPTypeOK
  <2>4. Single'
    BY <2>2, <2>3 DEF Single
  <2>5. Reads'
    BY <1>2, <2>1, <2>2 DEF Reads
  <2>6. Writes'
    BY <1>2, <2>1, <2>2 DEF Writes, SentBy
  <2>7. TransfersAreWhole'
    BY <2>1 DEF TransfersAreWhole
  <2> QED
    BY <2>4, <2>5, <2>6, <2>7
<1>8. CASE Received(m)
  <2>1. m.tid = tid /\ m.sub = "recv" /\ UNCHANGED <<sending, sent, done>> /\ Now(1)
    BY <1>2, <1>8 DEF Received, Current, Now
  <2>2. /\ m.property \in {0, 1, Finish} \cup Settings
        /\ m.property > 1 => \A q \in Settings : q < m.property => prop[q] = tid
        /\ \A n \in done : n < tid
    BY <1>2, <2>1 DEF Reads
  <2>3. ASSUME m.property > 1, NEW q \in Settings, q <= m.property
        PROVE  prop'[q] = tid
    <3>1. q \in Nat
      BY ServerPropsAssumption DEF Settings, CHAT_FILTER
    <3>2. prop'[q] = IF q = m.property THEN tid ELSE prop[q]
      BY <1>3, <1>8, <2>1, <2>3 DEF Received
    <3> QED
      BY <1>3, <2>2, <2>3, <3>1, <3>2
  <2>4. \/ AfterRecv(m.property) > Finish /\ m.property = Finish
        \/ /\ AfterRecv(m.property) \in {0, 1, Finish} \cup Settings
           /\ \A q \in Settings : q < AfterRecv(m.property) => q <= m.property
    BY <1>3, <2>2, NextProperty
  <2>5. /\ AfterRecv(m.property) \in Nat /\ Finish \in Nat /\ Finish > 2
        /\ \A q \in Settings : q \in Nat /\ q < Finish
    BY <1>3, NextProperty, ServerPropsAssumption DEF Settings, CHAT_FILTER
  <2>6. CASE AfterRecv(m.property) <= Finish
    <3>1. PICK next \in Nat : next = AfterRecv(m.property)
      BY <2>5
    <3>2. wire' = Append(Tail(wire), Message("recv", next, tid)) /\ events' = events
      BY <1>8, <2>1, <2>6, <3>1 DEF Received
    <3>3. PICK n \in Messages : n = Message("recv", next, tid) /\ n.sub = "recv" /\ n.property = next
      BY <1>4, <2>6, <3>1
    <3>4. \A i \in DOMAIN wire' : Now(i)' => i = Len(wire') /\ wire'[i] = n
      BY <1>2, <2>1, <3>2, <3>3 DEF Only
    <3>5. Single'
      BY <3>4 DEF Single
    <3>6. Writes'
      BY <3>3, <3>4 DEF Writes
    <3>7. next \in {0, 1, Finish} \cup Settings
      BY <2>4, <2>5, <2>6, <3>1
    <3>8. ASSUME next > 1, NEW q \in Settings, q < next PROVE prop'[q] = tid
      <4>1. q <= m.property /\ q \in Nat /\ q > 1
        BY <2>4, <2>5, <2>6, <3>1, <3>8, ServerPropsAssumption DEF Settings, CHAT_FILTER
      <4> QED
        BY <1>3, <2>3, <4>1
    <3>9. Reads'
      BY <1>2, <2>1, <2>2, <3>3, <3>4, <3>7, <3>8 DEF Reads
    <3>10. TransfersAreWhole'
      BY <2>1, <3>2 DEF TransfersAreWhole
    <3> QED
      BY <3>5, <3>6, <3>9, <3>10
  <2>7. CASE ~(AfterRecv(m.property) <= Finish)
    <3>1. m.property = Finish
      BY <2>4, <2>5, <2>7
    <3>2. wire' = Tail(wire) /\ Queue("received", tid)
      BY <1>8, <2>1, <2>7 DEF Received
    <3>3. Single' /\ Reads' /\ Writes'
      BY <1>2, <1>6, <2>1, <3>2
    <3>4. \A q \in Settings : prop'[q] = tid
      <4>1. \A q \in Settings : q <= m.property
        BY <3>1, ServerPropsAssumption DEF Settings, CHAT_FILTER
      <4> QED
        BY <2>3, <2>5, <3>1, <4>1
    <3>5. PICK e \in Events : e.prop = prop' /\ e.of = tid /\ events' = Append(events, e)
      <4>1. prop' \in [Settings -> Nat]
        BY <1>3, <1>5, <1>8 DEF Received
      <4> QED
        BY <1>2, <3>2, <4>1 DEF Queue, Events
    <3>6. ASSUME NEW i \in DOMAIN events', events'[i].type = "received"
          PROVE  \A p \in Settings : events'[i].prop[p] = events'[i].of
      <4>1. i = Len(events) + 1 \/ i \in DOMAIN events
        BY <1>5, <3>5
      <4>2. \A j \in DOMAIN events : events'[j] = events[j]
        BY <1>5, <3>5
      <4>3. events'[Len(events) + 1] = e
        BY <1>5, <3>5
      <4> QED
        BY <3>4, <3>5, <3>6, <4>1, <4>2, <4>3 DEF TransfersAreWhole
    <3>7. TransfersAreWhole'
      BY <2>1, <3>6 DEF TransfersAreWhole
    <3> QED
      BY <3>3, <3>7
  <2> QED
    BY <2>6, <2>7
<1>9. CASE Acknowledged(m)
  <2>1. m.tid = tid /\ m.sub = "send" /\ Now(1)
    BY <1>2, <1>9 DEF Acknowledged, Current, Now
  <2>2. /\ sending /\ m.property \in Settings /\ \A q \in Settings : prop[q] = tid
        /\ SentBy(tid) = {<<tid, q, tid>> : q \in {r \in Settings : r <= m.property}}
    BY <1>2, <2>1 DEF Writes
  <2>3. \/ AfterSend(m.property) > Finish /\ \A q \in Settings : q <= m.property
        \/ /\ AfterSend(m.property) \in Settings /\ m.property < AfterSend(m.property)
           /\ \A q \in Settings : q <= AfterSend(m.property) => q <= m.property \/ q = AfterSend(m.property)
    BY <1>3, <2>2, NextProperty
  <2>4. /\ AfterSend(m.property) \in Nat /\ Finish \in Nat
        /\ \A q \in Settings : q \in Nat /\ q < Finish
    BY <1>3, NextProperty, ServerPropsAssumption DEF Settings, CHAT_FILTER
  <2>5. CASE AfterSend(m.property) <= Finish
    <3>1. PICK next \in Settings :
            /\ next = AfterSend(m.property) /\ next \in Nat /\ m.property < next
            /\ \A q \in Settings : q <= next => q <= m.property \/ q = next
      BY <2>3, <2>4, <2>5
    <3>2. /\ wire' = Append(Tail(wire), Message("send", next, tid)) /\ UNCHANGED <<prop, sending, done, events>>
          /\ sent' = sent \cup {<<tid, next, tid>>}
      BY <1>9, <2>1, <2>2, <2>5, <3>1 DEF Acknowledged
    <3>3. PICK n \in Messages : n = Message("send", next, tid) /\ n.sub = "send" /\ n.property = next
      BY <1>4, <2>5, <3>1
    <3>4. \A i \in DOMAIN wire' : Now(i)' => i = Len(wire') /\ wire'[i] = n
      BY <1>2, <2>1, <3>2, <3>3 DEF Only
    <3>5. Single'
      BY <3>4 DEF Single
    <3>6. Reads'
      BY <3>3, <3>4 DEF Reads
    <3>7. SentBy(tid)' = {<<tid, q, tid>> : q \in {r \in Settings : r <= next}}
      <4>1. {r \in Settings : r <= next} = {r \in Settings : r <= m.property} \cup {next}
        <5>1. \A r \in Settings : r <= next <=> r <= m.property \/ r = next
          BY <1>3, <2>4, <3>1
        <5> QED
          BY <5>1
      <4>2. SentBy(tid)' = SentBy(tid) \cup {<<tid, next, tid>>}
        BY <1>2, <3>2 DEF SentBy
      <4> QED
        BY <2>2, <4>1, <4>2
    <3>8. Writes'
      BY <1>2, <2>2, <3>2, <3>3, <3>4, <3>7 DEF Writes
    <3>9. tid \notin done
      <4>1. SentBy(tid) # {<<tid, p, tid>> : p \in Settings}
        <5>1. <<tid, next, tid>> \in {<<tid, p, tid>> : p \in Settings}
          OBVIOUS
        <5>2. <<tid, next, tid>> \notin SentBy(tid)
          BY <1>3, <2>2, <3>1
        <5> QED
          BY <5>1, <5>2
      <4> QED
        BY <4>1 DEF TransfersAreWhole, SentBy
    <3>10. TransfersAreWhole'
      <4>1. \A n_1 \in done : {w \in sent' : w[1] = n_1} = {w \in sent : w[1] = n_1}
        BY <3>2, <3>9
      <4> QED
        BY <3>2, <4>1 DEF TransfersAreWhole
    <3> QED
      BY <3>5, <3>6, <3>8, <3>10
  <2>6. CASE ~(AfterSend(m.property) <= Finish)
    <3>1. /\ wire' = Tail(wire) /\ prop' = prop /\ done' = done \cup {tid} /\ sent' = sent
          /\ Queue("sent", tid)
      BY <1>9, <2>1, <2>6 DEF Acknowledged
    <3>2. Single' /\ Reads' /\ Writes'
      BY <1>2, <1>6, <2>1, <3>1
    <3>3. {r \in Settings : r <= m.property} = Settings
      <4>1. \A q \in Settings : q <= m.property
        BY <2>3, <2>4, <2>6
      <4> QED
        BY <4>1, Zenon
    <3>4. \A n \in done' : {w \in sent' : w[1] = n} = {<<n, p, n>> : p \in Settings}
      BY <2>2, <3>1, <3>3 DEF TransfersAreWhole, SentBy
    <3>5. PICK e \in Events : e.type = "sent" /\ events' = Append(events, e)
      BY <1>2, <1>5, <3>1 DEF Queue, Events
    <3>6. ASSUME NEW i \in DOMAIN events', events'[i].type = "received"
          PROVE  \A p \in Settings : events'[i].prop[p] = events'[i].of
      <4>1. i = Len(events) + 1 \/ i \in DOMAIN events
        BY <1>5, <3>5
      <4>2. \A j \in DOMAIN events : events'[j] = events[j]
        BY <1>5, <3>5
      <4>3. events'[Len(events) + 1] = e
        BY <1>5, <3>5
      <4> QED
        BY <3>5, <3>6, <4>1, <4>2, <4>3 DEF TransfersAreWhole
    <3>7. TransfersAreWhole'
      BY <3>4, <3>6 DEF TransfersAreWhole
    <3> QED
      BY <3>2, <3>7
  <2> QED
    BY <2>5, <2>6
<1> QED
  BY <1>1, <1>7, <1>8, <1>9

\* Rights, and the end and the beginning of a session.
LEMMA SessionTransfers ==
  ASSUME SPTypeOK, Ordered, Single, Reads, Writes, TransfersAreWhole, Authorise \/ Logout \/ Login
  PROVE  Ordered' /\ Single' /\ Reads' /\ Writes' /\ TransfersAreWhole'
<1>1. PICK k \in 0..asked : Fresh(k)
  BY DEF Ordered
<1>2. UNCHANGED <<asked, tid, prop, sent, done>>
  BY DEF Authorise, Logout, Login, guiVars, netVars
<1>3. Ordered' /\ Single' /\ Reads' /\ Writes'
  <2>1. CASE Logout
    <3>1. pipe' = <<>> /\ wire' = <<>> /\ DOMAIN wire' = {} /\ DOMAIN pipe' = {}
      BY <2>1 DEF Logout
    <3>2. Fresh(k)'
      BY <1>1, <1>2, <3>1 DEF Fresh, Rising
    <3>3. Single' /\ Reads' /\ Writes'
      BY <3>1 DEF Single, Reads, Writes
    <3> QED
      BY <1>1, <1>2, <3>2, <3>3 DEF Ordered
  <2>2. CASE Authorise \/ Login
    <3>1. UNCHANGED <<wire, pipe, sending>>
      BY <2>2 DEF Authorise, Login, netVars
    <3>2. Fresh(k)'
      BY <1>1, <1>2, <3>1 DEF Fresh, Rising
    <3>3. Single' /\ Reads' /\ Writes'
      BY <1>2, <3>1 DEF Single, Reads, Writes, Now, SentBy
    <3> QED
      BY <1>1, <1>2, <3>2, <3>3 DEF Ordered
  <2> QED
    BY <2>1, <2>2
<1>4. ASSUME NEW i \in DOMAIN events', events'[i].type = "received"
      PROVE  \A p \in Settings : events'[i].prop[p] = events'[i].of
  <2>1. CASE events' = events
    BY <1>4, <2>1 DEF TransfersAreWhole
  <2>2. ASSUME NEW e \in Events, events' = Append(events, e), e.type # "received"
        PROVE  \A p \in Settings : events'[i].prop[p] = events'[i].of
    <3>1. events \in Seq(Events)
      BY DEF SPTypeOK
    <3>2. i \in DOMAIN events /\ events'[i] = events[i]
      <4>1. /\ DOMAIN events' = 1..(Len(events) + 1) /\ events'[Len(events) + 1] = e
            /\ \A j \in 1..Len(events) : events'[j] = events[j]
        BY <2>2, <3>1, Appended
      <4> QED
        BY <1>4, <2>2, <3>1, <4>1
    <3> QED
      BY <1>4, <3>2 DEF TransfersAreWhole
  <2>3. \A type \in {"auth", "disconnect"} :
          /\ [type |-> type, of |-> 0, prop |-> prop] \in Events
          /\ [type |-> type, of |-> 0, prop |-> prop].type # "received"
    BY DEF SPTypeOK, Events
  <2> QED
    BY <2>1, <2>2, <2>3 DEF Authorise, Logout, Login
<1>5. \A n \in done' : {w \in sent' : w[1] = n} = {<<n, p, n>> : p \in Settings}
  BY <1>2 DEF TransfersAreWhole
<1> QED
  BY <1>3, <1>4, <1>5 DEF TransfersAreWhole
-----------------------------------------------------------------------------
(* The window, and the end of a session.                                   *)

\* The events after one was taken, and after one was queued.
LEMMA Taken ==
  ASSUME SPTypeOK, events # <<>>, events' = Tail(events)
  PROVE  /\ Len(events) \in Nat \ {0} /\ Len(events') = Len(events) - 1
         /\ DOMAIN events = 1..Len(events) /\ DOMAIN events' = 1..(Len(events) - 1)
         /\ Head(events) = events[1]
         /\ \A i \in DOMAIN events' : i + 1 \in DOMAIN events /\ events'[i] = events[i + 1]
         /\ events' = <<>> <=> Len(events) = 1
<1>1. events \in Seq(Events)
  BY DEF SPTypeOK
<1>2. events' \in Seq(Events) /\ Len(events') = Len(events) - 1 /\ Len(events) \in Nat \ {0}
  BY <1>1, Rest
<1>3. events' = <<>> <=> Len(events') = 0
  BY <1>2, EmptySeq
<1> QED
  BY <1>1, <1>2, <1>3, Rest

LEMMA Queued ==
  ASSUME SPTypeOK, NEW e, events' = Append(events, e)
  PROVE  /\ Len(events) \in Nat /\ Len(events') = Len(events) + 1 /\ events' # <<>>
         /\ DOMAIN events = 1..Len(events) /\ DOMAIN events' = 1..(Len(events) + 1)
         /\ events'[Len(events) + 1] = e
         /\ \A i \in DOMAIN events : events'[i] = events[i]
<1>1. events \in Seq(Events)
  BY DEF SPTypeOK
<1>2. PICK s \in Seq(Events \cup {e}) : s = events
  BY <1>1
<1>3. /\ Append(s, e) # <<>> /\ Len(Append(s, e)) = Len(s) + 1 /\ Append(s, e)[Len(s) + 1] = e
      /\ DOMAIN Append(s, e) = 1..(Len(s) + 1)
      /\ \A i \in 1..Len(s) : Append(s, e)[i] = s[i]
  BY Appended
<1> QED
  BY <1>2, <1>3

\* What the network thread and the session do to the events, and who queues them.
LEMMA Queues ==
  ASSUME SPTypeOK, Writes, Thread \/ Authorise
  PROVE  /\ Thread => pipe # <<>> \/ wire # <<>>
         /\ Authorise => loggedin
         /\ UNCHANGED <<guiVars, loggedin, sessions>>
         /\ \/ events' = events
            \/ \E e : events' = Append(events, e) /\ e.type \in {"received", "sent", "auth"}
<1> DEFINE Same == UNCHANGED <<guiVars, loggedin, sessions>>
           AtMostOne == \/ events' = events
                        \/ \E e : events' = Append(events, e) /\ e.type \in {"received", "sent", "auth"}
<1>1. ReadOpen \/ ReadClose \/ ReadUpdate => pipe # <<>> /\ Same /\ events' = events
  BY DEF ReadOpen, ReadClose, ReadUpdate
<1>2. ASSUME NEW m, Ignore(m) \/ Received(m) \/ Acknowledged(m) PROVE wire # <<>> /\ Same /\ AtMostOne
  <2>1. wire # <<>> /\ Same
    BY <1>2 DEF Ignore, Received, Acknowledged, Answer
  <2>2. CASE Ignore(m)
    BY <2>1, <2>2 DEF Ignore
  <2>3. CASE Received(m)
    BY <2>1, <2>3 DEF Received, Queue
  <2>4. CASE Acknowledged(m)
    BY <2>1, <2>4 DEF Acknowledged, Queue
  <2> QED
    BY <1>2, <2>2, <2>3, <2>4
<1>3. Authorise => loggedin /\ Same /\ AtMostOne
  BY DEF Authorise
<1> HIDE DEF Same, AtMostOne
<1>4. (events' = events) => AtMostOne
  BY DEF AtMostOne
<1>5. Thread => (pipe # <<>> \/ wire # <<>>) /\ Same /\ AtMostOne
  BY <1>1, <1>2, <1>4 DEF Thread, ProcessMessage
<1> QED
  BY <1>3, <1>5 DEF Same, AtMostOne

\* Without a connection nothing is written, and DISCONNECT closes the window.
LEMMA GuiGone ==
  ASSUME SPTypeOK, Gone, ShowWindow \/ HideWindow \/ ServerUpdate \/ TakeEvent
  PROVE  Gone'
<1>1. UNCHANGED <<netVars, loggedin>>
  BY Asked
<1>2. ~loggedin => pipe' = <<>>
  <2>1. ASSUME ~loggedin 
        PROVE  /\ pipe = <<>> /\ Written(pipe, Close) = {pipe}
               /\ \A q : Ask(pipe, q) => pipe' = pipe
    BY <2>1 DEF Gone, Ask, Written
  <2>2. CASE ShowWindow
    BY <2>1, <2>2 DEF ShowWindow, Show
  <2>3. CASE HideWindow
    BY <2>1, <2>3 DEF HideWindow, Hide
  <2>4. CASE ServerUpdate
    BY <2>1, <2>4 DEF ServerUpdate
  <2>5. CASE TakeReceived \/ TakeDisconnect
    BY <2>1, <2>5 DEF TakeReceived, TakeDisconnect
  <2>6. CASE TakeSent
    BY <2>1, <2>6 DEF TakeSent, SendDone
  <2>7. CASE TakeAuth
    BY <2>1, <2>7 DEF TakeAuth, Show
  <2> QED
    BY <2>2, <2>3, <2>4, <2>5, <2>6, <2>7 DEF TakeEvent
<1>3. CASE ShowWindow \/ HideWindow \/ ServerUpdate
  <2>1. events' = events
    BY <1>3 DEF ShowWindow, HideWindow, ServerUpdate
  <2>2. ASSUME ~loggedin, events = <<>> PROVE ~isOpen' /\ ~SrvEditorOpen'
    <3>1. ~isOpen /\ ~SrvEditorOpen /\ ~ShowWindow
      BY <2>2 DEF Gone, ShowWindow
    <3> QED
      BY <1>3, <3>1 DEF HideWindow, ServerUpdate
  <2> QED
    BY <1>1, <1>2, <2>1, <2>2 DEF Gone, Is, netVars
<1>4. CASE TakeEvent
  <2>1. /\ events # <<>> /\ events' = Tail(events)
        /\ Head(events).type = "disconnect" => TakeDisconnect
    BY <1>4 DEF TakeEvent, TakeReceived, TakeSent, TakeAuth, TakeDisconnect, Takes
  <2>2. /\ Len(events) \in Nat \ {0} /\ Len(events') = Len(events) - 1
        /\ DOMAIN events = 1..Len(events) /\ DOMAIN events' = 1..(Len(events) - 1)
        /\ Head(events) = events[1]
        /\ \A i \in DOMAIN events' : i + 1 \in DOMAIN events /\ events'[i] = events[i + 1]
        /\ events' = <<>> <=> Len(events) = 1
    BY <2>1, Taken
  <2>3. \A i \in DOMAIN events' : Is(i, "disconnect")' => i = Len(events') /\ ~loggedin
    BY <2>2 DEF Gone, Is
  <2>4. ASSUME ~loggedin, events' = <<>> PROVE ~isOpen' /\ ~SrvEditorOpen'
    <3>1. TakeDisconnect
      BY <2>1, <2>2, <2>4 DEF Gone, Is
    <3> QED
      BY <3>1 DEF TakeDisconnect
  <2>5. ASSUME ~loggedin, events' # <<>> PROVE Is(Len(events), "disconnect")'
    <3>1. events[Len(events)].type = "disconnect"
      BY <2>1, <2>5 DEF Gone, Is
    <3>2. Len(events') \in DOMAIN events' /\ Len(events') + 1 = Len(events)
      BY <2>2, <2>5
    <3> QED
      BY <2>2, <3>1, <3>2 DEF Is
  <2> QED
    BY <1>1, <1>2, <2>3, <2>4, <2>5 DEF Gone, netVars
<1> QED
  BY <1>3, <1>4

\* DISCONNECT is the last event of a session.
LEMMA NetGone ==
  ASSUME SPTypeOK, Gone, Writes, Thread \/ Authorise \/ Logout \/ Login
  PROVE  Gone'
<1>1. CASE Thread \/ Authorise
  <2>1. /\ loggedin /\ loggedin' = loggedin
        /\ \/ events' = events
           \/ \E e : events' = Append(events, e) /\ e.type \in {"received", "sent", "auth"}
    BY <1>1, Queues DEF Gone
  <2>2. ASSUME NEW i \in DOMAIN events' PROVE ~Is(i, "disconnect")'
    <3>1. CASE events' = events
      BY <2>1, <3>1 DEF Gone, Is
    <3>2. ASSUME NEW e, events' = Append(events, e), e.type # "disconnect"
          PROVE  ~Is(i, "disconnect")'
      <4>1. i = Len(events) + 1 \/ i \in DOMAIN events
        BY <3>2, Queued
      <4>2. events'[Len(events) + 1] = e /\ \A j \in DOMAIN events : events'[j] = events[j]
        BY <3>2, Queued
      <4> QED
        BY <2>1, <3>2, <4>1, <4>2 DEF Gone, Is
    <3> QED
      BY <2>1, <3>1, <3>2
  <2> QED
    BY <2>1, <2>2 DEF Gone
<1>2. CASE Logout
  <2>1. PICK e : events' = Append(events, e) /\ e.type = "disconnect"
    BY <1>2 DEF Logout
  <2>2. /\ Len(events) \in Nat /\ Len(events') = Len(events) + 1 /\ events' # <<>>
        /\ DOMAIN events = 1..Len(events) /\ DOMAIN events' = 1..(Len(events) + 1)
        /\ events'[Len(events) + 1] = e
        /\ \A i \in DOMAIN events : events'[i] = events[i]
    BY <2>1, Queued
  <2>3. loggedin /\ ~loggedin' /\ pipe' = <<>> /\ wire' = <<>> /\ ~sending'
    BY <1>2 DEF Logout
  <2>4. ASSUME NEW i \in DOMAIN events', Is(i, "disconnect")' PROVE i = Len(events')
    BY <2>2, <2>3, <2>4 DEF Gone, Is
  <2> QED
    BY <2>1, <2>2, <2>3, <2>4 DEF Gone, Is
<1>3. CASE Login
  BY <1>3 DEF Login, Gone, Is
<1> QED
  BY <1>1, <1>2, <1>3

\* Nothing that may be cut short goes on unless the GUI is updating.
LEMMA GuiLocked ==
  ASSUME SPTypeOK, Gone, Locked, ShowWindow \/ HideWindow \/ ServerUpdate \/ TakeEvent
  PROVE  Locked'
<1>0. UNCHANGED <<sending, cut, loggedin>> /\ pipe \in Seq(Requests) /\ asked \in Nat
  BY Asked DEF netVars, SPTypeOK
<1>1. cut' => late'
  <2>1. cut => late'
    <3>1. CASE TakeReceived
      BY <3>1 DEF TakeReceived, Locked
    <3>2. CASE ~TakeReceived
      BY <3>2 DEF Locked, ShowWindow, HideWindow, ServerUpdate, TakeEvent, TakeSent, TakeAuth,
                  TakeDisconnect
    <3> QED
      BY <3>1, <3>2
  <2> QED
    BY <1>0, <2>1
<1>2. sensitive' => SrvIsNotUpdating'
  BY DEF Locked, ShowWindow, HideWindow, ServerUpdate, TakeEvent, TakeReceived, TakeSent, SendDone,
         TakeAuth, TakeDisconnect, formVars
<1>3. ASSUME NoUpdate,
             \E p \in {pipe, Append(pipe, Close)} : pipe' \in {p, Append(p, Open(asked + 1))}
      PROVE  NoUpdate'
  <2>1. \A p \in Seq(Requests), q \in {Close, Open(asked + 1)} :
          (\A i \in DOMAIN p : p[i].type # "update") =>
             /\ Append(p, q) \in Seq(Requests)
             /\ \A i \in DOMAIN Append(p, q) : Append(p, q)[i].type # "update"
    <3>1. ASSUME NEW p \in Seq(Requests), NEW q \in Requests, q.type # "update",
                 \A i \in DOMAIN p : p[i].type # "update",
                 NEW i \in DOMAIN Append(p, q)
          PROVE  Append(p, q)[i].type # "update"
      BY <3>1
    <3>2. \A q \in {Close, Open(asked + 1)} : q \in Requests /\ q.type # "update"
      BY <1>0, Records
    <3>3. \A p \in Seq(Requests), q \in Requests : Append(p, q) \in Seq(Requests)
      OBVIOUS
    <3> QED
      BY <3>1, <3>2, <3>3
  <2>2. /\ \A i \in DOMAIN Append(pipe, Open(asked + 1)) :
             Append(pipe, Open(asked + 1))[i].type # "update"
        /\ \A i \in DOMAIN Append(pipe, Close) : Append(pipe, Close)[i].type # "update"
        /\ \A i \in DOMAIN Append(Append(pipe, Close), Open(asked + 1)) :
             Append(Append(pipe, Close), Open(asked + 1))[i].type # "update"
    BY <1>0, <1>3, <2>1 DEF NoUpdate
  <2> QED
    BY <1>3, <2>2 DEF NoUpdate
<1>4. ASSUME events # <<>>, events' = Tail(events)
      PROVE  /\ NoSent => NoSent'
             /\ (\A i, j \in DOMAIN events : Is(i, "sent") /\ Is(j, "sent") => i = j)
                  => /\ \A i, j \in DOMAIN events' : Is(i, "sent")' /\ Is(j, "sent")' => i = j
                     /\ Head(events).type = "sent" => NoSent'
  <2>1. /\ DOMAIN events = 1..Len(events) /\ DOMAIN events' = 1..(Len(events) - 1)
        /\ Head(events) = events[1] /\ Len(events) \in Nat \ {0}
        /\ \A i \in DOMAIN events' : i + 1 \in DOMAIN events /\ events'[i] = events[i + 1]
    BY <1>4, Taken
  <2> QED
    BY <2>1 DEF NoSent, Is
<1>5. ASSUME ~late', ShowWindow \/ HideWindow \/ TakeAuth
      PROVE  Idle' \/ (~SrvIsNotUpdating' /\ Busy')
  <2>1. /\ ~late /\ SrvIsNotUpdating' = SrvIsNotUpdating
        /\ events' = events \/ (events # <<>> /\ events' = Tail(events))
        /\ \/ pipe' = pipe
           \/ SrvIsNotUpdating /\ pipe' \in {Append(pipe, Close), Append(pipe, Open(asked + 1))}
    BY <1>5 DEF ShowWindow, HideWindow, TakeAuth, Show, Hide, Takes, Ask, Written
  <2>2. CASE Idle
    <3>1. NoSent'
      BY <1>4, <2>1, <2>2 DEF Idle, NoSent, Is
    <3> QED
      BY <1>0, <1>3, <2>1, <2>2, <3>1 DEF Idle
  <2>3. CASE ~SrvIsNotUpdating /\ Busy
    <3>1. pipe' = pipe
      BY <2>1, <2>3
    <3>2. /\ NoSent => NoSent'
          /\ (\A i, j \in DOMAIN events : Is(i, "sent") /\ Is(j, "sent") => i = j)
               => \A i, j \in DOMAIN events' : Is(i, "sent")' /\ Is(j, "sent")' => i = j
      <4>1. CASE events' = events
        BY <4>1 DEF NoSent, Is
      <4>2. CASE events # <<>> /\ events' = Tail(events)
        BY <1>4, <4>2
      <4> QED
        BY <2>1, <4>1, <4>2
    <3> QED
      BY <1>0, <2>1, <2>3, <3>1, <3>2 DEF Busy, NoUpdate
  <2> QED
    BY <2>1, <2>2, <2>3 DEF Locked
<1>6. ASSUME ~late', ServerUpdate
      PROVE  Idle' \/ (~SrvIsNotUpdating' /\ Busy')
  <2>1. ~late /\ ~SrvIsNotUpdating' /\ Ask(pipe, Update(asked + 1)) /\ events' = events /\ Idle
    BY <1>6 DEF ServerUpdate, Locked
  <2>2. PICK q \in Requests : q = Update(asked + 1) /\ q.type = "update"
    BY <1>0, Records
  <2>3. pipe' = pipe \/ pipe' = Append(pipe, q)
    BY <2>1, <2>2 DEF Ask, Written
  <2>4. NoSent' /\ ~sending' /\ NoUpdate
    BY <1>0, <2>1 DEF Idle, NoSent, Is
  <2>5. CASE pipe' = pipe
    BY <2>4, <2>5 DEF Idle, NoUpdate
  <2>6. CASE pipe' = Append(pipe, q)
    <3>1. /\ pipe' # <<>> /\ Len(pipe') = Len(pipe) + 1 /\ pipe'[Len(pipe) + 1] = q
          /\ \A i \in 1..Len(pipe) : pipe'[i] = pipe[i]
      BY <1>0, <2>6, Appended
    <3>2. Len(pipe) \in Nat /\ \A i \in 1..Len(pipe) : pipe[i].type # "update"
      BY <1>0, <2>4 DEF NoUpdate
    <3> QED
      BY <2>1, <2>2, <2>4, <3>1, <3>2 DEF Busy
  <2> QED
    BY <2>3, <2>5, <2>6
<1>7. ASSUME ~late', TakeReceived
      PROVE  Idle' \/ (~SrvIsNotUpdating' /\ Busy')
  <2>1. Idle /\ pipe' = pipe /\ events # <<>> /\ events' = Tail(events)
    BY <1>7 DEF TakeReceived, Takes, Locked
  <2>2. NoSent'
    BY <1>4, <2>1 DEF Idle
  <2> QED
    BY <1>0, <2>1, <2>2 DEF Idle, NoUpdate
<1>8. ASSUME ~late', TakeSent
      PROVE  Idle' \/ (~SrvIsNotUpdating' /\ Busy')
  <2>1. /\ ~late /\ events # <<>> /\ events' = Tail(events) /\ Head(events).type = "sent"
        /\ \E p \in {pipe, Append(pipe, Close)} : pipe' \in {p, Append(p, Open(asked + 1))}
    <3>1. \A p, q : Ask(p, q) => pipe' \in {p, Append(p, q)}
      BY DEF Ask, Written
    <3>2. Written(pipe, Close) \subseteq {pipe, Append(pipe, Close)}
      BY DEF Written
    <3>3. IF isOpen THEN \E p \in Written(pipe, Close) : Ask(p, Open(asked + 1))
                    ELSE pipe' \in Written(pipe, Close)
      BY <1>8 DEF TakeSent, SendDone
    <3> QED
      BY <1>8, <3>1, <3>2, <3>3 DEF TakeSent, Takes
  <2>2. ~NoSent
    BY <2>1, Taken DEF NoSent, Is
  <2>3. NoUpdate /\ ~sending /\ \A i, j \in DOMAIN events : Is(i, "sent") /\ Is(j, "sent") => i = j
    BY <2>1, <2>2 DEF Locked, Idle, Busy
  <2>4. NoSent'
    BY <1>4, <2>1, <2>3
  <2>5. NoUpdate'
    BY <1>3, <2>1, <2>3
  <2> QED
    BY <1>0, <2>3, <2>4, <2>5 DEF Idle
<1>9. ASSUME ~late', TakeDisconnect
      PROVE  Idle' \/ (~SrvIsNotUpdating' /\ Busy')
  <2>1. events # <<>> /\ events' = Tail(events) /\ Head(events).type = "disconnect" /\ pipe' = pipe
    BY <1>9 DEF TakeDisconnect, Takes
  <2>2. ~loggedin /\ 1 = Len(events)
    BY <2>1, Taken DEF Gone, Is
  <2>3. events' = <<>> /\ pipe' = <<>> /\ ~sending'
    BY <1>0, <2>1, <2>2, Taken DEF Gone
  <2> QED
    BY <2>3 DEF Idle, NoUpdate, NoSent
<1> QED
  BY <1>1, <1>2, <1>5, <1>6, <1>7, <1>8, <1>9 DEF Locked, TakeEvent

\* What the network thread reads while an update goes on was not asked for
\* by a form that was locked in time.
LEMMA NetLocked ==
  ASSUME SPTypeOK, Gone, Single, Writes, Locked, Thread \/ Authorise \/ Logout \/ Login
  PROVE  Locked'
<1>0. /\ UNCHANGED <<sensitive, SrvIsNotUpdating, late>> /\ pipe \in Seq(Requests)
  <2>1. UNCHANGED guiVars
    BY Queues DEF Logout, Login
  <2> QED
    BY <2>1 DEF guiVars, flagVars, formVars, SPTypeOK
<1>1. ASSUME events' = events \/ \E e : events' = Append(events, e) /\ e.type # "sent"
      PROVE  /\ NoSent => NoSent'
             /\ (\A i, j \in DOMAIN events : Is(i, "sent") /\ Is(j, "sent") => i = j)
                  => \A i, j \in DOMAIN events' : Is(i, "sent")' /\ Is(j, "sent")' => i = j
  <2>1. CASE events' = events
    BY <2>1 DEF NoSent, Is
  <2>2. ASSUME NEW e, events' = Append(events, e), e.type # "sent"
        PROVE  \A i \in DOMAIN events' : Is(i, "sent")' => i \in DOMAIN events /\ Is(i, "sent")
    <3>1. /\ DOMAIN events = 1..Len(events) /\ DOMAIN events' = 1..(Len(events) + 1)
          /\ events'[Len(events) + 1] = e /\ Len(events) \in Nat
          /\ \A i \in DOMAIN events : events'[i] = events[i]
      BY <2>2, Queued
    <3> QED
      BY <2>2, <3>1 DEF Is
  <2> QED
    BY <1>1, <2>1, <2>2 DEF NoSent
<1>2. ASSUME pipe # <<>>, pipe' = Tail(pipe)
      PROVE  /\ NoUpdate => NoUpdate' /\ Head(pipe).type # "update"
             /\ \/ ~(pipe[Len(pipe)].type = "update" /\ \A i \in 1..(Len(pipe) - 1) : pipe[i].type # "update")
                \/ Head(pipe).type = "update" /\ pipe' = <<>>
                \/ /\ pipe' # <<>> /\ pipe'[Len(pipe')].type = "update"
                   /\ \A i \in 1..(Len(pipe') - 1) : pipe'[i].type # "update"
                   /\ Head(pipe).type # "update"
  <2>1. /\ Head(pipe) = pipe[1] /\ 1 \in DOMAIN pipe /\ Len(pipe) \in Nat \ {0}
        /\ DOMAIN pipe' = 1..(Len(pipe) - 1) /\ DOMAIN pipe = 1..Len(pipe)
        /\ Len(pipe') = Len(pipe) - 1
        /\ \A i \in DOMAIN pipe' : pipe'[i] = pipe[i + 1]
    BY <1>0, <1>2, Rest
  <2>2. NoUpdate => NoUpdate' /\ Head(pipe).type # "update"
    BY <2>1 DEF NoUpdate
  <2>3. pipe' = <<>> <=> Len(pipe) = 1
    <3>1. pipe' \in Seq(Requests)
      BY <1>0, <1>2, Rest
    <3> QED
      BY <2>1, <3>1, EmptySeq
  <2>4. ASSUME pipe[Len(pipe)].type = "update", \A i \in 1..(Len(pipe) - 1) : pipe[i].type # "update"
        PROVE  \/ Head(pipe).type = "update" /\ pipe' = <<>>
               \/ /\ pipe' # <<>> /\ pipe'[Len(pipe')].type = "update"
                  /\ \A i \in 1..(Len(pipe') - 1) : pipe'[i].type # "update"
                  /\ Head(pipe).type # "update"
    <3>1. CASE Len(pipe) = 1
      BY <2>1, <2>3, <2>4, <3>1
    <3>2. CASE Len(pipe) # 1
      <4>1. Len(pipe') \in DOMAIN pipe' /\ Len(pipe') + 1 = Len(pipe) /\ 1 \in 1..(Len(pipe) - 1)
        BY <2>1, <3>2
      <4>2. pipe'[Len(pipe')].type = "update" /\ Head(pipe).type # "update" /\ pipe' # <<>>
        BY <2>1, <2>3, <2>4, <3>2, <4>1
      <4>3. ASSUME NEW i \in 1..(Len(pipe') - 1) PROVE pipe'[i].type # "update"
        <5>1. i \in DOMAIN pipe' /\ i + 1 \in 1..(Len(pipe) - 1)
          BY <2>1
        <5> QED
          BY <2>1, <2>4, <5>1
      <4> QED
        BY <4>2, <4>3
    <3> QED
      BY <3>1, <3>2
  <2> QED
    BY <2>2, <2>4
<1>3. ASSUME ReadOpen \/ ReadClose \/ ReadUpdate, ~late
      PROVE  ~cut' /\ (Idle' \/ (~SrvIsNotUpdating' /\ Busy'))
  <2>1. /\ pipe # <<>> /\ pipe' = Tail(pipe) /\ Replaces /\ events' = events
        /\ sending' = ReadUpdate /\ (ReadUpdate <=> Head(pipe).type = "update")
    BY <1>3 DEF ReadOpen, ReadClose, ReadUpdate
  <2>2. ~cut /\ (Idle \/ (~SrvIsNotUpdating /\ Busy))
    BY <1>3 DEF Locked
  <2>3. ~sending
    BY <2>1, <2>2 DEF Idle, Busy
  <2>4. ~cut'
    BY <2>1, <2>2, <2>3 DEF Replaces
  <2>5. NoSent => NoSent'
    BY <2>1 DEF NoSent, Is
  <2>6. CASE Idle \/ (NoUpdate /\ ~SrvIsNotUpdating /\ \A i, j \in DOMAIN events : Is(i, "sent") /\ Is(j, "sent") => i = j)
    <3>1. NoUpdate' /\ ~sending'
      BY <1>2, <2>1, <2>6 DEF Idle
    <3> QED
      BY <1>0, <1>1, <2>1, <2>4, <2>6, <3>1 DEF Idle, Busy
  <2>7. CASE /\ ~SrvIsNotUpdating /\ pipe[Len(pipe)].type = "update" /\ NoSent
             /\ \A i \in 1..(Len(pipe) - 1) : pipe[i].type # "update"
    <3>1. CASE Head(pipe).type = "update"
      BY <1>0, <1>2, <2>1, <2>4, <2>5, <2>7, <3>1 DEF Busy
    <3>2. CASE Head(pipe).type # "update"
      BY <1>0, <1>2, <2>1, <2>4, <2>5, <2>7, <3>2 DEF Busy
    <3> QED
      BY <3>1, <3>2
  <2> QED
    BY <2>1, <2>2, <2>3, <2>6, <2>7 DEF Busy
<1>4. ASSUME ProcessMessage, ~late
      PROVE  ~cut' /\ (Idle' \/ (~SrvIsNotUpdating' /\ Busy'))
  <2>1. PICK m : m = Head(wire) /\ (Ignore(m) \/ Received(m) \/ Acknowledged(m))
    BY <1>4 DEF ProcessMessage
  <2>2. ~cut' /\ pipe' = pipe /\ (Idle \/ (~SrvIsNotUpdating /\ Busy))
    BY <1>4, <2>1 DEF Locked, Ignore, Received, Acknowledged, Answer
  <2>3. CASE sending' = sending /\ (events' = events \/ \E e : events' = Append(events, e) /\ e.type # "sent")
    BY <1>0, <1>1, <2>2, <2>3 DEF Idle, Busy, NoUpdate
  <2>4. CASE Acknowledged(m) /\ ~(AfterSend(m.property) <= Finish)
    <3>1. sending
      <4>1. m = wire[1] /\ 1 \in DOMAIN wire
        BY <2>1, <2>4, Rest DEF SPTypeOK, Acknowledged, Answer
      <4> QED
        BY <2>4, <4>1 DEF Acknowledged, Current, Writes, Now
    <3>2. pipe = <<>> /\ NoSent /\ ~SrvIsNotUpdating
      BY <2>2, <3>1 DEF Idle, Busy
    <3>3. PICK e : ~sending' /\ events' = Append(events, e)
      BY <2>4 DEF Acknowledged, Queue
    <3>4. /\ DOMAIN events = 1..Len(events) /\ DOMAIN events' = 1..(Len(events) + 1)
          /\ Len(events) \in Nat /\ \A i \in DOMAIN events : events'[i] = events[i]
      BY <3>3, Queued
    <3>5. \A i \in DOMAIN events' : Is(i, "sent")' => i = Len(events) + 1
      BY <3>2, <3>4 DEF NoSent, Is
    <3> QED
      BY <1>0, <2>2, <3>2, <3>3, <3>5 DEF Busy, NoUpdate
  <2>5. ASSUME NEW type, type # "sent", Queue(type, m.tid)
        PROVE  \E e : events' = Append(events, e) /\ e.type # "sent"
    BY <2>5 DEF Queue
  <2> QED
    BY <2>1, <2>3, <2>4, <2>5 DEF Ignore, Received, Acknowledged
<1>5. CASE Authorise
  <2>1. UNCHANGED <<cut, sending, pipe>> /\ \E e : events' = Append(events, e) /\ e.type # "sent"
    BY <1>5 DEF Authorise, netVars
  <2> QED
    BY <1>0, <1>1, <2>1 DEF Locked, Idle, Busy, NoUpdate
<1>6. CASE Logout
  <2>1. /\ cut' = cut /\ ~sending' /\ pipe' = <<>>
        /\ \E e : events' = Append(events, e) /\ e.type # "sent"
    BY <1>6 DEF Logout
  <2>2. NoUpdate'
    BY <2>1 DEF NoUpdate
  <2> QED
    BY <1>0, <1>1, <2>1, <2>2 DEF Locked, Idle, Busy
<1>7. CASE Login
  BY <1>0, <1>7 DEF Login, netVars, Locked, Idle, Busy, NoUpdate, NoSent, Is
<1> QED
  BY <1>0, <1>3, <1>4, <1>5, <1>6, <1>7 DEF Thread, Locked
-----------------------------------------------------------------------------
(* The open form: what it shows, or what will come, is the latest.         *)

\* A step of the GUI asks for new settings where it has to.
LEMMA GuiFollows ==
  ASSUME SPTypeOK, Gone, Follows, ShowWindow \/ HideWindow \/ ServerUpdate \/ TakeEvent
  PROVE  Follows'
<1>0. /\ UNCHANGED <<wire, tid, done, loggedin>> /\ pipe \in Seq(Requests) /\ asked \in Nat
      /\ asked' = asked \/ asked' = asked + 1
  BY Asked DEF netVars, SPTypeOK, Asks
<1>1. ASSUME loggedin, ~dropped', NEW p \in Seq(Requests),
             NEW q \in {Open(asked + 1), Update(asked + 1)}, Ask(p, q)
      PROVE  pipe' # <<>> /\ pipe'[Len(pipe')].type # "close"
  <2>1. q \in Requests /\ q.type # "close"
    BY <1>0, Records
  <2>2. pipe' = Append(p, q)
    BY <1>1 DEF Ask, Written
  <2> QED
    BY <2>1, <2>2
<1>2. ASSUME events # <<>>, events' = Tail(events), Head(events).type # "sent"
      PROVE  Coming => Coming'
  <2>1. /\ DOMAIN events = 1..Len(events) /\ DOMAIN events' = 1..(Len(events) - 1)
        /\ Head(events) = events[1] /\ Len(events) \in Nat \ {0}
        /\ \A i \in DOMAIN events' : i + 1 \in DOMAIN events /\ events'[i] = events[i + 1]
    BY <1>2, Taken
  <2>2. ASSUME NEW i \in DOMAIN events, Is(i, "sent") PROVE Coming'
    <3>1. i - 1 \in DOMAIN events' /\ events'[i - 1] = events[i]
      BY <1>2, <2>1, <2>2 DEF Is
    <3> QED
      BY <2>2, <3>1 DEF Coming, Is
  <2>3. (\E i \in DOMAIN wire : Now(i)) => Coming'
    BY <1>0 DEF Coming, Now
  <2> QED
    BY <2>2, <2>3 DEF Coming
<1>3. ASSUME events # <<>>, events' = Tail(events),
             \/ Head(events).type # "received" /\ shown' = shown
             \/ Head(events).type = "received" /\ shown' = Head(events).of,
             NEW v, Latest(v)
      PROVE  Latest(v)'
  <2>1. /\ DOMAIN events = 1..Len(events) /\ DOMAIN events' = 1..(Len(events) - 1)
        /\ Head(events) = events[1] /\ Len(events) \in Nat \ {0}
        /\ Len(events') = Len(events) - 1
        /\ \A i \in DOMAIN events' : i + 1 \in DOMAIN events /\ events'[i] = events[i + 1]
    BY <1>3, Taken
  <2>2. CASE v = shown /\ \A i \in DOMAIN events : ~Is(i, "received")
    BY <1>3, <2>1, <2>2 DEF Latest, Is
  <2>3. ASSUME NEW i \in DOMAIN events, Is(i, "received"), v = events[i].of,
               \A j \in (i + 1)..Len(events) : ~Is(j, "received")
        PROVE  Latest(v)'
    <3>1. CASE i = 1
      <4>1. \A j \in DOMAIN events' : ~Is(j, "received")'
        BY <2>1, <2>3, <3>1 DEF Is
      <4>2. shown' = v
        BY <1>3, <2>1, <2>3, <3>1 DEF Is
      <4> QED
        BY <4>1, <4>2 DEF Latest
    <3>2. CASE i # 1
      <4>1. i - 1 \in DOMAIN events' /\ events'[i - 1] = events[i]
        BY <2>1, <3>2
      <4>2. \A j \in ((i - 1) + 1)..Len(events') : ~Is(j, "received")'
        <5>1. ASSUME NEW j \in ((i - 1) + 1)..Len(events') PROVE ~Is(j, "received")'
          <6>1. j \in DOMAIN events' /\ j + 1 \in (i + 1)..Len(events)
            BY <2>1
          <6> QED
            BY <2>1, <2>3, <6>1 DEF Is
        <5> QED
          BY <5>1
      <4> QED
        BY <2>3, <4>1, <4>2 DEF Latest, Is
    <3> QED
      BY <3>1, <3>2
  <2> QED
    BY <1>3, <2>2, <2>3 DEF Latest
<1>4. ASSUME loggedin, SrvEditorOpen, pipe' = pipe, asked' = asked, dropped' = dropped,
             \/ events' = events /\ shown' = shown
             \/ /\ events # <<>> /\ events' = Tail(events) /\ Head(events).type # "sent"
                /\ \/ Head(events).type # "received" /\ shown' = shown
                   \/ Head(events).type = "received" /\ shown' = Head(events).of
      PROVE  Follows'
  <2>1. Coming => Coming'
    <3>1. CASE events' = events
      BY <1>0, <3>1 DEF Coming, Now, Is
    <3> QED
      BY <1>2, <1>4, <3>1
  <2>2. \A v : Latest(v) => Latest(v)'
    <3>1. CASE events' = events /\ shown' = shown
      BY <3>1 DEF Latest, Is
    <3> QED
      BY <1>3, <1>4, <3>1
  <2> QED
    BY <1>0, <1>4, <2>1, <2>2 DEF Follows
<1>5. ASSUME NEW admin, Show(admin), UNCHANGED shown,
             \/ events' = events
             \/ /\ events # <<>> /\ events' = Tail(events) /\ Head(events).type = "auth"
      PROVE  Follows'
  <2>1. CASE loggedin /\ Ask(pipe, Open(asked + 1))
    BY <1>0, <1>1, <2>1 DEF Follows
  <2>2. CASE ~loggedin
    BY <1>0, <2>2 DEF Follows
  <2>3. CASE SrvEditorOpen' = SrvEditorOpen /\ UNCHANGED <<asked, pipe, dropped>>
    BY <1>0, <1>4, <1>5, <2>3 DEF Follows
  <2> QED
    BY <1>5, <2>1, <2>2, <2>3 DEF Show
<1>6. CASE ShowWindow
  BY <1>5, <1>6 DEF ShowWindow, formVars
<1>7. CASE HideWindow
  <2>1. CASE loggedin /\ SrvEditorOpen'
    <3>1. SrvEditorOpen /\ UNCHANGED <<pipe, asked, dropped, events, shown>>
      BY <1>7, <2>1 DEF HideWindow, Hide
    <3> QED
      BY <1>4, <2>1, <3>1
  <2>2. CASE ~(loggedin /\ SrvEditorOpen')
    BY <1>0, <2>2 DEF Follows
  <2> QED
    BY <2>1, <2>2
<1>8. CASE ServerUpdate
  <2>1. Ask(pipe, Update(asked + 1))
    BY <1>8 DEF ServerUpdate
  <2> QED
    BY <1>0, <1>1, <2>1 DEF Follows
<1>9. CASE TakeReceived
  <2>1. /\ UNCHANGED <<SrvEditorOpen, pipe, asked, dropped>>
        /\ events # <<>> /\ events' = Tail(events) /\ Head(events).type = "received"
        /\ shown' = Head(events).of
    BY <1>9 DEF TakeReceived, Takes
  <2> QED
    BY <1>0, <1>4, <2>1 DEF Follows
<1>10. CASE TakeSent
  <2>1. CASE isOpen
    <3>1. PICK p \in Written(pipe, Close) : Ask(p, Open(asked + 1))
      BY <1>10, <2>1 DEF TakeSent, SendDone
    <3>2. p \in Seq(Requests)
      <4>1. p \in {pipe, Append(pipe, Close)}
        BY <3>1 DEF Written
      <4> QED
        BY <1>0, <4>1, Records
    <3> QED
      BY <1>0, <1>1, <3>1, <3>2 DEF Follows
  <2>2. CASE ~isOpen
    BY <1>10, <2>2 DEF TakeSent, SendDone, Follows
  <2> QED
    BY <2>1, <2>2
<1>11. CASE TakeAuth
  <2>1. /\ events # <<>> /\ events' = Tail(events) /\ Head(events).type = "auth" /\ shown' = shown
    BY <1>11 DEF TakeAuth, Takes, formVars
  <2>2. CASE Show(TRUE)
    BY <1>5, <2>1, <2>2
  <2>3. CASE UNCHANGED <<isOpen, SrvEditorOpen, asked, pipe, dropped>>
    BY <1>0, <1>4, <2>1, <2>3 DEF Follows
  <2> QED
    BY <1>11, <2>2, <2>3 DEF TakeAuth
<1>12. CASE TakeDisconnect
  BY <1>12 DEF TakeDisconnect, Follows
<1> QED
  BY <1>6, <1>7, <1>8, <1>9, <1>10, <1>11, <1>12 DEF TakeEvent

\* A transaction goes on, or ends with an event the GUI is given.
LEMMA NetFollows ==
  ASSUME SPTypeOK, Ordered, Single, Reads, Writes, Gone, Follows,
         Thread \/ Authorise \/ Logout \/ Login
  PROVE  Follows'
<1>1. ASSUME loggedin, SrvEditorOpen, ~dropped, pipe # <<>>, pipe' = Tail(pipe)
      PROVE  /\ pipe' # <<>> => pipe'[Len(pipe')].type # "close"
             /\ Head(pipe).type = "close" => pipe' # <<>>
  <2>1. /\ pipe \in Seq(Requests) /\ pipe[Len(pipe)].type # "close"
    BY <1>1 DEF SPTypeOK, Follows
  <2>2. /\ Head(pipe) = pipe[1] /\ Len(pipe) \in Nat \ {0} /\ Len(pipe') = Len(pipe) - 1
        /\ \A i \in 1..(Len(pipe) - 1) : pipe'[i] = pipe[i + 1]
        /\ pipe' \in Seq(Requests)
    BY <1>1, <2>1, Rest
  <2>3. pipe' = <<>> <=> Len(pipe') = 0
    BY <2>2, EmptySeq
  <2>4. CASE Len(pipe) = 1
    BY <2>1, <2>2, <2>3, <2>4
  <2>5. CASE Len(pipe) # 1
    <3>1. Len(pipe') \in 1..(Len(pipe) - 1) /\ Len(pipe') + 1 = Len(pipe)
      BY <2>2, <2>5
    <3> QED
      BY <2>1, <2>2, <2>3, <3>1
  <2> QED
    BY <2>4, <2>5
<1>2. ASSUME NEW s \in Seq(Messages), NEW m \in Messages, wire' = Append(s, m), m.tid = tid'
      PROVE  Coming'
  <2>1. Len(s) + 1 \in DOMAIN wire' /\ wire'[Len(s) + 1] = m
    BY <1>2, Appended
  <2> QED
    BY <1>2, <2>1 DEF Coming, Now
<1>3. CASE ReadOpen \/ ReadClose \/ ReadUpdate
  <2>1. /\ pipe # <<>> /\ pipe' = Tail(pipe) /\ UNCHANGED <<loggedin, SrvEditorOpen, dropped>>
    BY <1>3 DEF ReadOpen, ReadClose, ReadUpdate, guiVars, flagVars
  <2>2. ASSUME ReadOpen \/ ReadUpdate PROVE Coming'
    <3>1. wire \in Seq(Messages) /\ tid' \in Nat
      <4>1. pipe \in Seq(Requests)
        BY DEF SPTypeOK
      <4>2. Head(pipe) \in Requests
        BY <2>1, <4>1, Rest
      <4>3. Head(pipe).n \in Nat
        BY <4>2 DEF Requests
      <4> QED
        BY <2>2, <4>3 DEF SPTypeOK, ReadOpen, ReadUpdate
    <3>2. \E sub \in {"recv", "send"}, p \in 0..Finish : wire' = Append(wire, Message(sub, p, tid'))
      BY <2>2, ServerPropsAssumption DEF ReadOpen, ReadUpdate, CHAT_FILTER
    <3>3. \A sub \in {"recv", "send"}, p \in 0..Finish :
            Message(sub, p, tid') \in Messages /\ Message(sub, p, tid').tid = tid'
      BY <3>1 DEF Message, Messages
    <3> QED
      BY <1>2, <3>1, <3>2, <3>3
  <2>3. ASSUME ReadClose PROVE Head(pipe).type = "close"
    BY <2>3 DEF ReadClose
  <2>4. ASSUME loggedin, SrvEditorOpen, ~dropped
        PROVE  IF pipe' = <<>> THEN Coming' ELSE pipe'[Len(pipe')].type # "close"
    BY <1>1, <1>3, <2>1, <2>2, <2>3, <2>4
  <2> QED
    BY <2>1, <2>4 DEF Follows
<1>4. ASSUME events' = events \/ \E e : events' = Append(events, e) /\ e.type # "received",
             shown' = shown, NEW v, Latest(v)
      PROVE  Latest(v)'
  <2>1. CASE events' = events
    BY <1>4, <2>1 DEF Latest, Is
  <2>2. ASSUME NEW e, events' = Append(events, e), e.type # "received" PROVE Latest(v)'
    <3>1. /\ DOMAIN events = 1..Len(events) /\ DOMAIN events' = 1..(Len(events) + 1)
          /\ Len(events) \in Nat /\ events'[Len(events) + 1] = e
          /\ Len(events') = Len(events) + 1
          /\ \A i \in DOMAIN events : events'[i] = events[i]
      BY <2>2, Queued
    <3>2. CASE v = shown /\ \A i \in DOMAIN events : ~Is(i, "received")
      <4>1. ASSUME NEW i \in DOMAIN events' PROVE ~Is(i, "received")'
        <5>1. i = Len(events) + 1 \/ i \in DOMAIN events
          BY <3>1
        <5> QED
          BY <2>2, <3>1, <3>2, <5>1 DEF Is
      <4> QED
        BY <1>4, <3>2, <4>1 DEF Latest
    <3>3. ASSUME NEW i \in DOMAIN events, Is(i, "received"), v = events[i].of,
                 \A j \in (i + 1)..Len(events) : ~Is(j, "received")
          PROVE  Latest(v)'
      <4>1. ASSUME NEW j \in (i + 1)..Len(events') PROVE ~Is(j, "received")'
        <5>1. j = Len(events) + 1 \/ (j \in DOMAIN events /\ j \in (i + 1)..Len(events))
          BY <3>1
        <5> QED
          BY <2>2, <3>1, <3>3, <5>1 DEF Is
      <4>2. i \in DOMAIN events' /\ events'[i] = events[i]
        BY <3>1
      <4> QED
        BY <3>3, <4>1, <4>2 DEF Latest, Is
    <3> QED
      BY <1>4, <3>2, <3>3 DEF Latest
  <2> QED
    BY <1>4, <2>1, <2>2
<1>5. ASSUME events' = events \/ \E e : events' = Append(events, e), \E i \in DOMAIN events : Is(i, "sent")
      PROVE  \E i \in DOMAIN events' : Is(i, "sent")'
  <2>1. PICK i \in DOMAIN events : Is(i, "sent")
    BY <1>5
  <2>2. i \in DOMAIN events' /\ events'[i] = events[i]
    <3>1. CASE events' = events
      BY <3>1
    <3>2. ASSUME NEW e, events' = Append(events, e) PROVE i \in DOMAIN events' /\ events'[i] = events[i]
      BY <3>2, Queued
    <3> QED
      BY <1>5, <3>1, <3>2
  <2> QED
    BY <2>1, <2>2 DEF Is
<1>6. CASE ProcessMessage
  <2>1. PICK m : m = Head(wire) /\ (Ignore(m) \/ Received(m) \/ Acknowledged(m))
    BY <1>6 DEF ProcessMessage
  <2>2. /\ UNCHANGED <<loggedin, SrvEditorOpen, dropped, shown, asked, pipe>> /\ wire # <<>> /\ Answer(m)
    BY <2>1 DEF Ignore, Received, Acknowledged, Answer, guiVars, flagVars, formVars
  <2>3. /\ wire \in Seq(Messages) /\ m = wire[1] /\ 1 \in DOMAIN wire /\ m \in Messages
        /\ tid' = tid /\ tid \in Nat /\ Tail(wire) \in Seq(Messages)
    BY <2>2, Answered, Rest
  <2>4. m.property \in Nat
    <3>1. \A x \in Messages : x.property \in Nat
      BY ServerPropsAssumption DEF Messages
    <3> QED
      BY <2>3, <3>1
  <2>5. \A sub \in {"recv", "send"}, p \in Nat : p <= Finish =>
          Message(sub, p, tid) \in Messages /\ Message(sub, p, tid).tid = tid
    BY <2>3, ServerPropsAssumption DEF Message, Messages
  <2>6. CASE Ignore(m)
    <3>1. ~Now(1) /\ wire' = Tail(wire) /\ UNCHANGED <<done, events>>
      BY <2>3, <2>6 DEF Ignore, Current, Now
    <3>2. (\E i \in DOMAIN wire : Now(i)) => \E i \in DOMAIN wire' : Now(i)'
      <4>1. ASSUME NEW i \in DOMAIN wire, Now(i) PROVE i - 1 \in DOMAIN wire' /\ Now(i - 1)'
        <5>1. /\ Len(wire) \in Nat \ {0} /\ DOMAIN wire = 1..Len(wire) /\ DOMAIN wire' = 1..(Len(wire) - 1)
              /\ \A j \in 1..(Len(wire) - 1) : wire'[j] = wire[j + 1]
          BY <2>2, <2>3, <3>1, Rest
        <5>2. i # 1 /\ i \in 1..Len(wire)
          BY <3>1, <4>1, <5>1
        <5>3. i - 1 \in 1..(Len(wire) - 1) /\ (i - 1) + 1 = i
          BY <5>1, <5>2
        <5>4. wire'[i - 1] = wire[i]
          BY <5>1, <5>3
        <5> QED
          BY <2>3, <4>1, <5>1, <5>3, <5>4 DEF Now
      <4> QED
        BY <4>1
    <3>3. Coming => Coming'
      BY <1>5, <3>1, <3>2 DEF Coming
    <3>4. \A v : Latest(v) => Latest(v)'
      BY <1>4, <2>2, <3>1
    <3> QED
      BY <2>2, <3>1, <3>3, <3>4 DEF Follows
  <2>7. CASE Received(m)
    <3>1. m.tid = tid /\ m.sub = "recv" /\ done' = done
      BY <2>7 DEF Received, Current
    <3>2. AfterRecv(m.property) \in Nat
      BY <2>4, NextProperty
    <3>3. CASE AfterRecv(m.property) <= Finish
      <4>1. wire' = Append(Tail(wire), Message("recv", AfterRecv(m.property), tid))
        BY <2>7, <3>1, <3>3 DEF Received
      <4>2. Coming'
        BY <1>2, <2>3, <2>5, <3>2, <3>3, <4>1
      <4> QED
        BY <2>2, <4>2 DEF Follows
    <3>4. CASE ~(AfterRecv(m.property) <= Finish)
      <4>1. PICK e : events' = Append(events, e) /\ e.type = "received" /\ e.of = tid
        BY <2>7, <3>1, <3>4 DEF Received, Queue
      <4>2. /\ DOMAIN events' = 1..(Len(events) + 1) /\ Len(events) \in Nat
            /\ events'[Len(events) + 1] = e /\ Len(events') = Len(events) + 1
        BY <4>1, Queued
      <4>3. PICK v \in 0..asked' : v = tid
        BY <2>2, <2>3 DEF Ordered, Fresh, SPTypeOK
      <4>4. Latest(v)'
        BY <2>3, <4>1, <4>2, <4>3 DEF Latest, Is
      <4>5. \A n \in done' : n < v
        BY <2>3, <3>1, <4>3 DEF Reads, Now
      <4> QED
        BY <2>2, <4>3, <4>4, <4>5 DEF Follows
    <3> QED
      BY <3>3, <3>4
  <2>8. CASE Acknowledged(m)
    <3>1. m.tid = tid
      BY <2>8 DEF Acknowledged, Current
    <3>2. AfterSend(m.property) \in Nat
      BY <2>4, NextProperty
    <3>3. CASE AfterSend(m.property) <= Finish
      <4>1. wire' = Append(Tail(wire), Message("send", AfterSend(m.property), tid))
        BY <2>8, <3>1, <3>3 DEF Acknowledged
      <4>2. Coming'
        BY <1>2, <2>3, <2>5, <3>2, <3>3, <4>1
      <4> QED
        BY <2>2, <4>2 DEF Follows
    <3>4. CASE ~(AfterSend(m.property) <= Finish)
      <4>1. PICK e : events' = Append(events, e) /\ e.type = "sent"
        BY <2>8, <3>4 DEF Acknowledged, Queue
      <4>2. Len(events) + 1 \in DOMAIN events' /\ events'[Len(events) + 1] = e
        BY <4>1, Queued
      <4>3. Coming'
        BY <4>1, <4>2 DEF Coming, Is
      <4> QED
        BY <2>2, <4>3 DEF Follows
    <3> QED
      BY <3>3, <3>4
  <2> QED
    BY <2>1, <2>6, <2>7, <2>8
<1>7. CASE Authorise
  <2>1. /\ UNCHANGED <<loggedin, SrvEditorOpen, dropped, shown, asked, pipe, wire, tid, done>>
        /\ \E e : events' = Append(events, e) /\ e.type # "received"
    BY <1>7 DEF Authorise, guiVars, flagVars, formVars, netVars
  <2>2. Coming => Coming'
    BY <1>5, <2>1 DEF Coming, Now
  <2>3. \A v : Latest(v) => Latest(v)'
    BY <1>4, <2>1
  <2> QED
    BY <2>1, <2>2, <2>3 DEF Follows
<1>8. CASE Logout
  BY <1>8 DEF Logout, Follows
<1>9. CASE Login
  BY <1>9 DEF Login, Gone, Follows, guiVars, flagVars
<1> QED
  BY <1>3, <1>6, <1>7, <1>8, <1>9 DEF Thread
-----------------------------------------------------------------------------
(* The inductive invariant, and what it says.                              *)

\* It holds at the start ...
LEMMA SPBegins == SPInit => SPInv
<1> SUFFICES ASSUME SPInit PROVE SPInv
  OBVIOUS
<1> USE DEF SPInit
<1>1. DOMAIN pipe = {} /\ DOMAIN wire = {} /\ DOMAIN events = {}
  OBVIOUS
<1>2. SPTypeOK
  <2>1. <<>> \in Seq(Requests) /\ <<>> \in Seq(Messages) /\ <<>> \in Seq(Events)
    OBVIOUS
  <2>2. prop \in [Settings -> Nat] /\ sessions \in 0..MaxSessions
    BY ServerPropsAssumption
  <2>3. {isOpen, SrvEditorOpen, SrvIsNotUpdating, isAdmin, tab, sensitive, loggedin,
         sending, cut, late, dropped} \subseteq BOOLEAN
    OBVIOUS
  <2>4. pipe \in Seq(Requests) /\ wire \in Seq(Messages) /\ events \in Seq(Events)
    BY <2>1
  <2>5. {tid, shown, asked} \subseteq Nat /\ sent \subseteq Nat \X Settings \X Nat /\ done \subseteq Nat
    OBVIOUS
  <2> QED
    BY <2>2, <2>3, <2>4, <2>5, Zenon DEF SPTypeOK
<1>3. Fresh(0) /\ Ordered
  BY <1>1 DEF Ordered, Fresh, Rising
<1>4. Single /\ Reads /\ Writes /\ TransfersAreWhole
  BY <1>1 DEF Single, Reads, Writes, TransfersAreWhole
<1>5. Gone /\ Locked /\ Follows
  BY <1>1 DEF Gone, Locked, Idle, NoUpdate, NoSent, Follows
<1> QED
  BY <1>2, <1>3, <1>4, <1>5 DEF SPInv

\* ... every step keeps it ...
LEMMA SPStep == SPInv /\ [SPNext]_SPvars => SPInv'
<1> SUFFICES ASSUME SPInv, [SPNext]_SPvars PROVE SPInv'
  OBVIOUS
<1>1. /\ SPTypeOK /\ Ordered /\ Single /\ Reads /\ Writes /\ Gone /\ Locked /\ Follows
      /\ TransfersAreWhole
  BY DEF SPInv
<1>2. CASE ShowWindow \/ HideWindow \/ ServerUpdate \/ TakeEvent
  <2>1. Asks /\ UNCHANGED netVars /\ (events' = events \/ (events # <<>> /\ events' = Tail(events)))
    BY <1>1, <1>2, Asked
  <2>2. SPTypeOK' /\ Ordered' /\ Gone' /\ Locked' /\ Follows'
    BY <1>1, <1>2, <2>1, GuiTyped, GuiOrders, GuiGone, GuiLocked, GuiFollows
  <2>3. Single' /\ Reads' /\ Writes' /\ TransfersAreWhole'
    BY <1>1, <2>1, GuiTransfers
  <2> QED
    BY <2>2, <2>3 DEF SPInv
<1>3. CASE Thread \/ Authorise \/ Logout \/ Login
  <2>1. SPTypeOK' /\ Gone' /\ Locked' /\ Follows'
    BY <1>1, <1>3, NetTyped, NetGone, NetLocked, NetFollows
  <2>2. Ordered' /\ Single' /\ Reads' /\ Writes' /\ TransfersAreWhole'
    <3>1. CASE ReadOpen \/ ReadClose \/ ReadUpdate
      BY <1>1, <3>1, BeginOrders, BeginTransfers
    <3>2. CASE ProcessMessage
      BY <1>1, <3>2, AnswerOrders, AnswerTransfers
    <3>3. CASE Authorise \/ Logout \/ Login
      BY <1>1, <3>3, SessionTransfers
    <3> QED
      BY <1>3, <3>1, <3>2, <3>3 DEF Thread
  <2> QED
    BY <2>1, <2>2 DEF SPInv
<1>4. CASE UNCHANGED SPvars
  <2>0. UNCHANGED <<isOpen, SrvEditorOpen, SrvIsNotUpdating, isAdmin, tab, sensitive, shown,
                    asked, late, dropped, wire, tid, prop, sending, cut, sent, done,
                    loggedin, pipe, events, sessions>>
    BY <1>4 DEF SPvars, guiVars, netVars, flagVars, formVars
  <2>1. SPTypeOK' /\ Ordered'
    BY <1>1, <2>0 DEF SPTypeOK, Ordered, Fresh, Rising
  <2>2. Single' /\ Reads' /\ Writes' /\ TransfersAreWhole'
    BY <1>1, <2>0 DEF Single, Reads, Writes, Now, SentBy, TransfersAreWhole
  <2>3. Gone'
    BY <1>1, <2>0 DEF Gone, Is
  <2>4. Locked'
    BY <1>1, <2>0 DEF Locked, Idle, Busy, NoUpdate, NoSent, Is
  <2>5. Follows'
    BY <1>1, <2>0 DEF Follows, Coming, Latest, Now, Is
  <2> QED
    BY <2>1, <2>2, <2>3, <2>4, <2>5 DEF SPInv
<1> QED
  BY <1>2, <1>3, <1>4 DEF SPNext

\* ... and so it always holds.
LEMMA SPHolds == SPSpec => []SPInv
  BY SPBegins, SPStep, PTL DEF SPSpec

\* The variables have their types: no message asks for what is no property
\* (libventrilo3.c:4334-4525).
THEOREM ServerPropsTyped == SPSpec => []SPTypeOK
<1>1. SPInv => SPTypeOK
  BY DEF SPInv
<1> QED
  BY <1>1, SPHolds, PTL

\* Whatever properties there are, and however requests, answers and sessions
\* overlap, settings are read and forms written as a whole (the id at
\* libventrilo3.c:4330).
THEOREM TransfersWhole == SPSpec => []TransfersAreWhole
<1>1. SPInv => TransfersAreWhole
  BY DEF SPInv
<1> QED
  BY <1>1, SPHolds, PTL

\* An update is cut short only after settings came late (mangleradmin.cpp:711).
THEOREM OnlyLateCuts == SPSpec => []CutOnlyLate
<1>1. SPInv => CutOnlyLate
  BY DEF SPInv, Locked, CutOnlyLate
<1> QED
  BY <1>1, SPHolds, PTL

\* When nothing is under way the open form shows what was read after the last
\* update that was sent, unless the pipe was full for the last OPEN or UPDATE
\* (mangleradmin.cpp:715-724, libventrilo3.c:5513-5520).
THEOREM FormCurrent == SPSpec => []FormIsCurrent
<1>1. SPInv => FormIsCurrent
  <2> SUFFICES ASSUME SPInv, pipe = <<>>, wire = <<>>, events = <<>>, loggedin,
                      SrvEditorOpen, ~dropped
               PROVE  \A n \in done : n < shown
    BY DEF FormIsCurrent
  <2>1. ~Coming
    BY DEF Coming
  <2>2. \E v \in 0..asked : Latest(v) /\ \A n \in done : n < v
    BY <2>1 DEF SPInv, Follows
  <2> QED
    BY <2>2 DEF Latest
<1> QED
  BY <1>1, SPHolds, PTL
=============================================================================
