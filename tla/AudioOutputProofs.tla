--------------------------- MODULE AudioOutputProofs ---------------------------
(***************************************************************************)
(* Theorems about AudioOutput: what a stream plays, and which streams the  *)
(* GUI points to, for any number of users, streams, pieces and sessions.   *)
(***************************************************************************)
EXTENDS AudioOutput, TLAPS

\* Of n pieces, o were played, p are collected and q wait: together they are
\* 1..n in order; what waits behind the last is 0.
Line(o, p, q, n) ==
  /\ \A i \in 1..Len(o) : o[i] = i
  /\ \A i \in 1..Len(p) : p[i] = Len(o) + i
  /\ \A i \in 1..Len(q) : q[i] = IF Len(o) + Len(p) + i <= n THEN Len(o) + Len(p) + i ELSE 0
  /\ Len(o) + Len(p) <= n /\ n <= Len(o) + Len(p) + Len(q)
InLine(s) == Line(out[s], queuedpcm[s], queue[s], queued[s])

\* No 0 waits: the stream has not been finished.
Unfinished(s) == queued[s] = Len(out[s]) + Len(queuedpcm[s]) + Len(queue[s])

Held(s) == \E u \in Users : held[u] = s

StreamInv(s) ==
  /\ \A i \in 1..Len(out[s]) : out[s][i] = i
  /\ pc[s] \notin {"drain", "gone"} => InLine(s)
  /\ pc[s] = "take" => queuedpcm[s] = <<>>
  /\ pc[s] = "none" => ~Held(s) /\ Unfinished(s) /\ s \notin byItself
  /\ Held(s) /\ pc[s] \notin {"drain", "gone"} => Unfinished(s)
  /\ pc[s] \in Gone /\ s \notin byItself => ~Held(s) /\ Len(out[s]) = queued[s]

\* Each stream has one user; the GUI holds none between DISCONNECT and login.
HeldInv ==
  /\ \A u, v \in Users : held[u] # None /\ held[u] = held[v] => u = v
  /\ session \in {"down", "noticed"} => \A u \in Users : held[u] = None
  /\ \A u \in Users : session \in {"up", "ending"} /\ held[u] \in byItself => fails > 0

AudioInv == TypeOK /\ HeldInv /\ \A s \in Streams : StreamInv(s)
-----------------------------------------------------------------------------
(* Types.                                                                  *)

LEMMA Typed == Init => TypeOK
<1> SUFFICES ASSUME Init PROVE TypeOK
  OBVIOUS
<1>1. <<>> \in Seq(Nat) /\ Prefill \in 0..Prefill /\ 0 \in Nat
  BY AudioAssumption
<1>2. /\ [s \in Streams |-> <<>>] \in [Streams -> Seq(Nat)]
      /\ [s \in Streams |-> Prefill] \in [Streams -> 0..Prefill]
      /\ [s \in Streams |-> 0] \in [Streams -> Nat]
  BY <1>1
<1> QED BY <1>1, <1>2 DEF Init, TypeOK, SessionStates, PCs

LEMMA QueueTyped ==
  ASSUME NEW q \in Seq(Nat), q # <<>>
  PROVE  /\ Tail(q) \in Seq(Nat) /\ Head(q) \in Nat /\ Head(q) = q[1]
         /\ Len(q) \in Nat \ {0} /\ Len(Tail(q)) = Len(q) - 1
         /\ \A i \in 1..(Len(q) - 1) : Tail(q)[i] = q[i + 1]
  OBVIOUS

LEMMA AppendTyped ==
  ASSUME NEW q \in Seq(Nat), NEW n \in Nat
  PROVE  /\ Append(q, n) \in Seq(Nat) /\ Len(Append(q, n)) = Len(q) + 1 /\ Len(q) \in Nat
         /\ \A i \in 1..Len(q) : Append(q, n)[i] = q[i]
         /\ Append(q, n)[Len(q) + 1] = n
  OBVIOUS

LEMMA OutputTyped ==
  ASSUME TypeOK, NEW s \in Streams, Output(s)
  PROVE  TypeOK'
<1>1. CASE Top(s)
  <2>1. buffer[s] > 0 => buffer[s] - 1 \in 0..Prefill
    BY AudioAssumption DEF TypeOK
  <2>2. buffer' \in [Streams -> 0..Prefill]
    BY <1>1, <2>1 DEF Top, TypeOK
  <2>3. pc' \in [Streams -> PCs]
    BY <1>1 DEF Top, Goto, TypeOK, PCs
  <2> QED BY <1>1, <2>2, <2>3 DEF Top, TypeOK, sessionVars, guiVars
<1>2. CASE TopLoggedOut(s)
  BY <1>2 DEF TopLoggedOut, Goto, TypeOK, PCs, sessionVars, guiVars
<1>3. CASE PrefillPiece(s)
  <2>1. Tail(queue[s]) \in Seq(Nat) /\ Append(queuedpcm[s], Head(queue[s])) \in Seq(Nat)
    BY <1>3, QueueTyped, AppendTyped DEF PrefillPiece, TypeOK
  <2> QED BY <1>3, <2>1 DEF PrefillPiece, Goto, TypeOK, PCs, sessionVars, guiVars
<1>4. CASE PrefillEnd(s)
  <2>1. Append(Tail(queue[s]), 0) \in Seq(Nat)
    BY <1>4, QueueTyped, AppendTyped DEF PrefillEnd, TypeOK
  <2>2. buffer' \in [Streams -> 0..Prefill] /\ pc' \in [Streams -> PCs]
    <3>1. 0 \in 0..Prefill
      BY AudioAssumption
    <3> QED BY <1>4, <3>1 DEF PrefillEnd, Goto, TypeOK, PCs
  <2>3. queue' \in [Streams -> Seq(Nat)]
    BY <1>4, <2>1 DEF PrefillEnd, TypeOK
  <2> QED BY <1>4, <2>2, <2>3 DEF PrefillEnd, TypeOK, sessionVars, guiVars
<1>5. CASE Take(s)
  <2>1. Head(queue[s]) \in Nat /\ Tail(queue[s]) \in Seq(Nat)
    BY <1>5, QueueTyped DEF Take, TypeOK
  <2>2. <<Head(queue[s])>> \in Seq(Nat)
    BY <2>1
  <2>3. queuedpcm' \in [Streams -> Seq(Nat)]
    BY <1>5, <2>2 DEF Take, TypeOK
  <2>4. pc' \in [Streams -> PCs]
    BY <1>5 DEF Take, Goto, TypeOK, PCs
  <2> QED BY <1>5, <2>1, <2>3, <2>4 DEF Take, TypeOK, sessionVars, guiVars
<1>6. CASE Write(s)
  <2>1. out[s] \o queuedpcm[s] \in Seq(Nat)
    BY DEF TypeOK
  <2> QED BY <1>6, <2>1 DEF Write, Goto, TypeOK, PCs, sessionVars, guiVars
<1>7. CASE WriteFails(s)
  BY <1>7 DEF WriteFails, Goto, TypeOK, PCs, sessionVars, guiVars
<1>8. CASE StreamClosed(s)
  BY <1>8 DEF StreamClosed, Goto, TypeOK, PCs, sessionVars, guiVars
<1>9. CASE DeleteThis(s)
  BY <1>9 DEF DeleteThis, Goto, TypeOK, PCs, sessionVars, guiVars
<1> QED BY <1>1, <1>2, <1>3, <1>4, <1>5, <1>6, <1>7, <1>8, <1>9 DEF Output

LEMMA GuiTyped ==
  ASSUME TypeOK, NEW u \in Users, Gui(u)
  PROVE  TypeOK'
<1>1. ASSUME FinishHeld(u)
      PROVE  /\ held' \in [Users -> Streams \cup {None}] /\ finished' \subseteq Streams
             /\ queue' \in [Streams -> Seq(Nat)]
  <2>1. held[u] \in Streams /\ queue[held[u]] \in Seq(Nat)
    BY <1>1 DEF FinishHeld, TypeOK
  <2>2. Append(queue[held[u]], 0) \in Seq(Nat)
    BY <2>1, AppendTyped
  <2> QED BY <1>1, <2>1, <2>2 DEF FinishHeld, TypeOK
<1>2. ASSUME NEW s \in Streams, Queue(s)
      PROVE  queue' \in [Streams -> Seq(Nat)] /\ queued' \in [Streams -> Nat]
  <2>1. queued[s] + 1 \in Nat /\ queue[s] \in Seq(Nat)
    BY DEF TypeOK
  <2>2. Append(queue[s], queued[s] + 1) \in Seq(Nat)
    BY <2>1, AppendTyped
  <2> QED BY <1>2, <2>1, <2>2 DEF Queue, TypeOK
<1>3. CASE TalkEnd(u)
  BY <1>1, <1>3 DEF TalkEnd, TypeOK, sessionVars
<1>4. CASE MovedOrMuted(u)
  BY <1>1, <1>4 DEF MovedOrMuted, TypeOK, sessionVars
<1>5. CASE PlayHeld(u)
  <2>1. held[u] \in Streams
    BY <1>5 DEF PlayHeld, TypeOK
  <2>2. queue' \in [Streams -> Seq(Nat)] /\ queued' \in [Streams -> Nat]
    <3>1. Queue(held[u]) \/ UNCHANGED <<queue, queued>>
      BY <1>5 DEF PlayHeld
    <3> QED BY <1>2, <2>1, <3>1 DEF TypeOK
  <2> QED BY <1>5, <2>2 DEF PlayHeld, TypeOK, sessionVars
<1>6. CASE PlayNew(u)
  <2>1. PICK s \in Streams : held' = [held EXCEPT ![u] = s] /\ Goto(s, "top") /\ Queue(s)
    BY <1>6 DEF PlayNew
  <2>2. queue' \in [Streams -> Seq(Nat)] /\ queued' \in [Streams -> Nat]
    BY <1>2, <2>1
  <2> QED BY <1>6, <2>1, <2>2 DEF PlayNew, Goto, TypeOK, PCs, sessionVars
<1>7. CASE PlaySilent(u)
  BY <1>7 DEF PlaySilent, Goto, TypeOK, PCs, sessionVars
<1> QED BY <1>3, <1>4, <1>5, <1>6, <1>7 DEF Gui

LEMMA TypeStep == TypeOK /\ [Next]_vars => TypeOK'
<1> SUFFICES ASSUME TypeOK, [Next]_vars PROVE TypeOK'
  OBVIOUS
<1>1. CASE \E s \in Streams : Output(s)
  BY <1>1, OutputTyped
<1>2. CASE \E u \in Users : Gui(u)
  BY <1>2, GuiTyped
<1>3. CASE ToggleMute
  BY <1>3 DEF ToggleMute, TypeOK, sessionVars, threadVars
<1>4. CASE Session
  BY <1>4 DEF Session, Login, LogoutQueue, LogoutClose, Disconnect, TypeOK, SessionStates,
              guiVars, threadVars
<1>5. CASE UNCHANGED vars
  BY <1>5 DEF vars, sessionVars, guiVars, threadVars, TypeOK
<1> QED BY <1>1, <1>2, <1>3, <1>4, <1>5 DEF Next
-----------------------------------------------------------------------------
(* Sequences.                                                              *)

\* A piece is collected.
LEMMA LineCollect ==
  ASSUME NEW o \in Seq(Nat), NEW p \in Seq(Nat), NEW q \in Seq(Nat), NEW n \in Nat,
         Line(o, p, q, n), q # <<>>, Head(q) # 0
  PROVE  /\ Line(o, Append(p, Head(q)), Tail(q), n)
         /\ Len(Append(p, Head(q))) + Len(Tail(q)) = Len(p) + Len(q)
<1> DEFINE a == Append(p, Head(q))
           t == Tail(q)
<1>1. /\ Head(q) \in Nat /\ Head(q) = q[1] /\ Len(q) \in Nat \ {0} /\ Len(t) = Len(q) - 1
      /\ \A i \in 1..(Len(q) - 1) : t[i] = q[i + 1]
  BY QueueTyped
<1>2. /\ Len(a) = Len(p) + 1 /\ Len(p) \in Nat /\ Len(o) \in Nat
      /\ \A i \in 1..Len(p) : a[i] = p[i]
      /\ a[Len(p) + 1] = Head(q)
  BY <1>1, AppendTyped
<1> HIDE DEF a, t
<1>3. q[1] = Len(o) + Len(p) + 1 /\ Len(o) + Len(p) + 1 <= n
  <2>1. q[1] = IF Len(o) + Len(p) + 1 <= n THEN Len(o) + Len(p) + 1 ELSE 0
    BY <1>1 DEF Line
  <2> QED BY <1>1, <2>1
<1>4. ASSUME NEW i \in 1..Len(a) PROVE a[i] = Len(o) + i
  <2>1. CASE i = Len(p) + 1
    BY <1>1, <1>2, <1>3, <2>1
  <2>2. CASE i # Len(p) + 1
    <3>1. i \in 1..Len(p)
      BY <1>2, <2>2
    <3> QED BY <1>2, <3>1 DEF Line
  <2> QED BY <2>1, <2>2
<1>5. ASSUME NEW i \in 1..Len(t)
      PROVE  t[i] = IF Len(o) + Len(a) + i <= n THEN Len(o) + Len(a) + i ELSE 0
  <2>1. i + 1 \in 1..Len(q) /\ t[i] = q[i + 1]
    BY <1>1
  <2>2. q[i + 1] = IF Len(o) + Len(p) + (i + 1) <= n THEN Len(o) + Len(p) + (i + 1) ELSE 0
    BY <2>1 DEF Line
  <2>3. Len(o) + Len(a) + i = Len(o) + Len(p) + (i + 1)
    BY <1>2
  <2> QED BY <2>1, <2>2, <2>3
<1>6. Len(o) + Len(a) <= n /\ n <= Len(o) + Len(a) + Len(t) /\ Len(a) + Len(t) = Len(p) + Len(q)
  BY <1>1, <1>2, <1>3 DEF Line
<1>7. Line(o, a, t, n)
  BY <1>4, <1>5, <1>6 DEF Line
<1> QED BY <1>6, <1>7 DEF a, t

Collected(o, p, q, n) == n = Len(o) + Len(p) /\ n # Len(o) + Len(p) + Len(q)

\* A 0 at the head: every piece was collected, and it may be queued again.
LEMMA LineEnd ==
  ASSUME NEW o \in Seq(Nat), NEW p \in Seq(Nat), NEW q \in Seq(Nat), NEW n \in Nat,
         Line(o, p, q, n), q # <<>>, Head(q) = 0
  PROVE  /\ Collected(o, p, q, n)
         /\ Line(o, p, Tail(q), n) /\ Line(o, p, Append(Tail(q), 0), n)
<1> DEFINE t == Tail(q)
           a == Append(t, 0)
<1>1. /\ Head(q) = q[1] /\ Len(q) \in Nat \ {0} /\ Len(t) = Len(q) - 1
      /\ t \in Seq(Nat) /\ Len(o) \in Nat /\ Len(p) \in Nat
      /\ \A i \in 1..(Len(q) - 1) : t[i] = q[i + 1]
  BY QueueTyped
<1>2. /\ Len(a) = Len(t) + 1
      /\ \A i \in 1..Len(t) : a[i] = t[i]
      /\ a[Len(t) + 1] = 0
  BY <1>1, AppendTyped
<1> HIDE DEF a, t
<1>3. n = Len(o) + Len(p)
  <2>1. q[1] = IF Len(o) + Len(p) + 1 <= n THEN Len(o) + Len(p) + 1 ELSE 0
    BY <1>1 DEF Line
  <2>2. ~(Len(o) + Len(p) + 1 <= n)
    BY <1>1, <2>1
  <2> DEFINE b == Len(o) + Len(p)
  <2>3. b \in Nat /\ b <= n /\ ~(b + 1 <= n)
    BY <1>1, <2>2 DEF Line
  <2> HIDE DEF b
  <2>4. n = b
    BY <2>3
  <2> QED BY <2>4 DEF b
<1>4. ASSUME NEW i \in 1..Len(t) PROVE t[i] = 0 /\ ~(Len(o) + Len(p) + i <= n)
  <2>1. i + 1 \in 1..Len(q) /\ t[i] = q[i + 1]
    BY <1>1
  <2>2. q[i + 1] = IF Len(o) + Len(p) + (i + 1) <= n THEN Len(o) + Len(p) + (i + 1) ELSE 0
    BY <2>1 DEF Line
  <2>3. i \in Nat /\ 0 < i
    BY <1>1
  <2>4. ~(Len(o) + Len(p) + (i + 1) <= n) /\ ~(Len(o) + Len(p) + i <= n)
    BY <1>1, <1>3, <2>3
  <2> QED BY <2>1, <2>2, <2>4
<1>5. ASSUME NEW i \in 1..Len(a) PROVE a[i] = 0 /\ ~(Len(o) + Len(p) + i <= n)
  <2>1. i = Len(t) + 1 \/ i \in 1..Len(t)
    BY <1>1, <1>2
  <2>2. a[i] = 0
    BY <1>2, <1>4, <2>1
  <2> QED BY <1>1, <1>3, <2>2
<1>6. Line(o, p, t, n)
  <2>1. Len(o) + Len(p) <= n /\ n <= Len(o) + Len(p) + Len(t)
    BY <1>1, <1>3
  <2> QED BY <1>4, <2>1 DEF Line
<1>7. Line(o, p, a, n)
  <2>1. Len(o) + Len(p) <= n /\ n <= Len(o) + Len(p) + Len(a)
    BY <1>1, <1>2, <1>3
  <2> QED BY <1>5, <2>1 DEF Line
<1>8. Collected(o, p, q, n)
  BY <1>1, <1>3 DEF Collected
<1> QED BY <1>6, <1>7, <1>8 DEF a, t

\* What was collected is played.
LEMMA LineWrite ==
  ASSUME NEW o \in Seq(Nat), NEW p \in Seq(Nat), NEW q \in Seq(Nat), NEW n \in Nat,
         Line(o, p, q, n)
  PROVE  Line(o \o p, <<>>, q, n) /\ Len(o \o p) + Len(<<>>) = Len(o) + Len(p)
<1> DEFINE w == o \o p
<1>1. /\ Len(w) = Len(o) + Len(p) /\ Len(o) \in Nat /\ Len(p) \in Nat /\ Len(<<>>) = 0
      /\ \A i \in 1..Len(o) : w[i] = o[i]
      /\ \A i \in 1..Len(p) : w[Len(o) + i] = p[i]
  OBVIOUS
<1> HIDE DEF w
<1>2. ASSUME NEW i \in 1..Len(w) PROVE w[i] = i
  <2>1. CASE i <= Len(o)
    BY <1>1, <2>1 DEF Line
  <2>2. CASE ~(i <= Len(o))
    <3>1. i - Len(o) \in 1..Len(p) /\ Len(o) + (i - Len(o)) = i
      BY <1>1, <2>2
    <3> QED BY <1>1, <3>1 DEF Line
  <2> QED BY <2>1, <2>2
<1>3. Len(w) + Len(<<>>) = Len(o) + Len(p)
  BY <1>1
<1>4. \A i \in 1..Len(q) : q[i] = IF Len(w) + Len(<<>>) + i <= n THEN Len(w) + Len(<<>>) + i ELSE 0
  BY <1>3 DEF Line
<1>5. Line(w, <<>>, q, n)
  <2>1. \A i \in 1..Len(<<>>) : <<>>[i] = Len(w) + i
    BY <1>1
  <2>2. Len(w) + Len(<<>>) <= n /\ n <= Len(w) + Len(<<>>) + Len(q)
    BY <1>3 DEF Line
  <2> QED BY <1>2, <1>4, <2>1, <2>2 DEF Line
<1> QED BY <1>3, <1>5 DEF w

\* A piece is queued on a stream that was not finished.
LEMMA LineQueue ==
  ASSUME NEW o \in Seq(Nat), NEW p \in Seq(Nat), NEW q \in Seq(Nat), NEW n \in Nat,
         Line(o, p, q, n), n = Len(o) + Len(p) + Len(q)
  PROVE  /\ Line(o, p, Append(q, n + 1), n + 1)
         /\ n + 1 = Len(o) + Len(p) + Len(Append(q, n + 1))
<1> DEFINE a == Append(q, n + 1)
<1>1. /\ Len(a) = Len(q) + 1 /\ Len(q) \in Nat /\ Len(o) \in Nat /\ Len(p) \in Nat
      /\ \A i \in 1..Len(q) : a[i] = q[i]
      /\ a[Len(q) + 1] = n + 1
  BY AppendTyped
<1> HIDE DEF a
<1>2. ASSUME NEW i \in 1..Len(a)
      PROVE  a[i] = Len(o) + Len(p) + i /\ Len(o) + Len(p) + i <= n + 1
  <2>1. CASE i = Len(q) + 1
    BY <1>1, <2>1
  <2>2. CASE i # Len(q) + 1
    <3>1. i \in 1..Len(q)
      BY <1>1, <2>2
    <3>2. a[i] = q[i]
      BY <1>1, <3>1
    <3>3. q[i] = IF Len(o) + Len(p) + i <= n THEN Len(o) + Len(p) + i ELSE 0
      BY <3>1 DEF Line
    <3>4. Len(o) + Len(p) + i <= n
      BY <1>1, <3>1
    <3> QED BY <3>1, <3>2, <3>3, <3>4, <1>1
  <2> QED BY <2>1, <2>2
<1>3. Len(o) + Len(p) <= n + 1 /\ n + 1 = Len(o) + Len(p) + Len(a) /\ n + 1 <= Len(o) + Len(p) + Len(a)
  BY <1>1
<1>4. Line(o, p, a, n + 1)
  BY <1>2, <1>3 DEF Line
<1> QED BY <1>3, <1>4 DEF a

\* A stream is finished.
LEMMA LineFinish ==
  ASSUME NEW o \in Seq(Nat), NEW p \in Seq(Nat), NEW q \in Seq(Nat), NEW n \in Nat,
         Line(o, p, q, n)
  PROVE  Line(o, p, Append(q, 0), n)
<1> DEFINE a == Append(q, 0)
<1>1. /\ Len(a) = Len(q) + 1 /\ Len(q) \in Nat /\ Len(o) \in Nat /\ Len(p) \in Nat
      /\ \A i \in 1..Len(q) : a[i] = q[i]
      /\ a[Len(q) + 1] = 0
  BY AppendTyped
<1> HIDE DEF a
<1>2. ASSUME NEW i \in 1..Len(a)
      PROVE  a[i] = IF Len(o) + Len(p) + i <= n THEN Len(o) + Len(p) + i ELSE 0
  <2>1. CASE i = Len(q) + 1
    <3>1. ~(Len(o) + Len(p) + i <= n)
      BY <1>1, <2>1 DEF Line
    <3> QED BY <1>1, <2>1, <3>1
  <2>2. CASE i # Len(q) + 1
    <3>1. i \in 1..Len(q) /\ a[i] = q[i]
      BY <1>1, <2>2
    <3> QED BY <3>1 DEF Line
  <2> QED BY <2>1, <2>2
<1>3. Len(o) + Len(p) <= n /\ n <= Len(o) + Len(p) + Len(a)
  BY <1>1 DEF Line
<1>4. Line(o, p, a, n)
  BY <1>2, <1>3 DEF Line
<1> QED BY <1>4 DEF a
-----------------------------------------------------------------------------
(* The streams.                                                            *)

\* Nothing of stream s changes, and nobody comes to hold it.
Same(s) ==
  /\ pc'[s] = pc[s] /\ queue'[s] = queue[s] /\ queuedpcm'[s] = queuedpcm[s]
  /\ out'[s] = out[s] /\ queued'[s] = queued[s]
  /\ s \in byItself <=> s \in byItself'
  /\ \A u \in Users : held'[u] = s => held[u] = s

LEMMA SameKeeps ==
  ASSUME NEW s \in Streams, StreamInv(s), Same(s)
  PROVE  StreamInv(s)'
  BY DEF StreamInv, InLine, Unfinished, Held, Same, Gone

\* A step of the thread of s leaves the other streams alone.
LEMMA OutputOthers ==
  ASSUME TypeOK, NEW s \in Streams, Output(s), NEW t \in Streams \ {s}
  PROVE  Same(t)
  BY DEF Output, Top, TopLoggedOut, PrefillPiece, PrefillEnd, Take, Write, WriteFails,
         StreamClosed, DeleteThis, Goto, Same, TypeOK, guiVars

\* What a step of the thread of s does to s, in terms of s alone.
LEMMA OutputOwn ==
  ASSUME TypeOK, NEW s \in Streams, Output(s)
  PROVE  /\ held' = held /\ queued'[s] = queued[s]
         /\ \A t \in Streams : t \in byItself => t \in byItself'
  BY DEF Output, Top, TopLoggedOut, PrefillPiece, PrefillEnd, Take, Write, WriteFails,
         StreamClosed, DeleteThis, TypeOK, guiVars

LEMMA TopKeeps ==
  ASSUME TypeOK, NEW s \in Streams, StreamInv(s), Top(s) \/ TopLoggedOut(s) \/ WriteFails(s) \/ StreamClosed(s)
  PROVE  StreamInv(s)'
<1>1. /\ queue'[s] = queue[s] /\ queuedpcm'[s] = queuedpcm[s] /\ out'[s] = out[s]
      /\ queued'[s] = queued[s] /\ held' = held
  BY DEF Top, TopLoggedOut, WriteFails, StreamClosed, guiVars
<1>2. InLine(s) => InLine(s)'
  BY <1>1 DEF InLine
<1>3. pc[s] \in {"top", "write", "end"}
  BY DEF Top, TopLoggedOut, WriteFails, StreamClosed
<1>4. CASE Top(s)
  <2>1. pc'[s] \in {"prefill", "take", "write"} /\ (pc'[s] = "take" => queuedpcm[s] = <<>>)
    BY <1>4 DEF Top, Goto, TypeOK
  <2> QED BY <1>1, <1>2, <1>3, <2>1 DEF StreamInv, Unfinished, Held, Gone
<1>5. CASE TopLoggedOut(s) \/ WriteFails(s)
  <2>1. pc'[s] = "end" /\ s \in byItself'
    BY <1>5 DEF TopLoggedOut, WriteFails, Goto, TypeOK
  <2> QED BY <1>1, <1>2, <1>3, <2>1 DEF StreamInv, Unfinished, Held, Gone
<1>6. CASE StreamClosed(s)
  <2>1. pc[s] = "end" /\ pc'[s] = "drain" /\ byItself' = byItself
    BY <1>6 DEF StreamClosed, Goto, TypeOK
  <2> QED BY <1>1, <2>1 DEF StreamInv, Held, Gone
<1> QED BY <1>4, <1>5, <1>6

LEMMA DeleteKeeps ==
  ASSUME TypeOK, NEW s \in Streams, StreamInv(s), DeleteThis(s)
  PROVE  StreamInv(s)'
<1>1. /\ out'[s] = out[s] /\ queued'[s] = queued[s] /\ held' = held /\ byItself' = byItself
      /\ pc[s] = "drain" /\ pc'[s] = "gone"
  BY DEF DeleteThis, Goto, TypeOK, guiVars
<1> QED BY <1>1 DEF StreamInv, Held, Gone

LEMMA InLinePrime ==
  ASSUME NEW s \in Streams, Line(out'[s], queuedpcm'[s], queue'[s], queued'[s])
  PROVE  InLine(s)'
  BY DEF InLine, Line

\* Lengths are numbers.
LEMMA Lengths ==
  ASSUME TypeOK, NEW s \in Streams
  PROVE  Len(out[s]) \in Nat /\ Len(queuedpcm[s]) \in Nat /\ Len(queue[s]) \in Nat
  BY DEF TypeOK

\* The stream is not finished by a step that only moves a piece on.
LEMMA UnfinishedKept ==
  ASSUME TypeOK, TypeOK', NEW s \in Streams, out'[s] = out[s], queued'[s] = queued[s],
         Len(queuedpcm'[s]) + Len(queue'[s]) = Len(queuedpcm[s]) + Len(queue[s])
  PROVE  Unfinished(s) => Unfinished(s)'
<1> DEFINE o == Len(out[s])
           p == Len(queuedpcm[s])
           q == Len(queue[s])
           a == Len(queuedpcm'[s])
           b == Len(queue'[s])
<1>1. o \in Nat /\ p \in Nat /\ q \in Nat /\ a \in Nat /\ b \in Nat /\ a + b = p + q
  BY DEF TypeOK
<1> HIDE DEF o, p, q, a, b
<1>2. o + p + q = o + a + b
  BY <1>1
<1> QED BY <1>2 DEF Unfinished, o, p, q, a, b

LEMMA PrefillPieceKeeps ==
  ASSUME TypeOK, NEW s \in Streams, StreamInv(s), PrefillPiece(s)
  PROVE  StreamInv(s)'
<1>1. /\ queue[s] \in Seq(Nat) /\ queuedpcm[s] \in Seq(Nat) /\ out[s] \in Seq(Nat)
      /\ queued[s] \in Nat
  BY DEF TypeOK
<1>2. /\ pc[s] = "prefill" /\ pc'[s] = "top" /\ queue[s] # <<>> /\ Head(queue[s]) # 0
      /\ queue'[s] = Tail(queue[s]) /\ queuedpcm'[s] = Append(queuedpcm[s], Head(queue[s]))
      /\ out'[s] = out[s] /\ queued'[s] = queued[s] /\ held' = held
  BY DEF PrefillPiece, Goto, TypeOK, guiVars
<1>3. Line(out[s], queuedpcm[s], queue[s], queued[s])
  BY <1>2 DEF StreamInv, InLine
<1>4. /\ Line(out'[s], queuedpcm'[s], queue'[s], queued'[s])
      /\ Len(queuedpcm'[s]) + Len(queue'[s]) = Len(queuedpcm[s]) + Len(queue[s])
  <2>1. queue[s] # <<>> /\ Head(queue[s]) # 0
    BY <1>2
  <2>2. /\ Line(out[s], Append(queuedpcm[s], Head(queue[s])), Tail(queue[s]), queued[s])
        /\ Len(Append(queuedpcm[s], Head(queue[s]))) + Len(Tail(queue[s]))
             = Len(queuedpcm[s]) + Len(queue[s])
    BY <1>1, <1>3, <2>1, LineCollect, Zenon
  <2> QED BY <1>2, <2>2, Zenon
<1>5. InLine(s)' /\ (Unfinished(s) => Unfinished(s)')
  BY <1>2, <1>4, InLinePrime, OutputTyped, UnfinishedKept DEF Output
<1> QED BY <1>2, <1>5 DEF StreamInv, Held, Gone

LEMMA PrefillEndKeeps ==
  ASSUME TypeOK, NEW s \in Streams, StreamInv(s), PrefillEnd(s)
  PROVE  StreamInv(s)'
<1>1. /\ queue[s] \in Seq(Nat) /\ queuedpcm[s] \in Seq(Nat) /\ out[s] \in Seq(Nat)
      /\ queued[s] \in Nat
  BY DEF TypeOK
<1>2. /\ pc[s] = "prefill" /\ queue[s] # <<>> /\ Head(queue[s]) = 0
      /\ pc'[s] = (IF queuedpcm[s] = <<>> THEN "take" ELSE "write")
      /\ queue'[s] = Append(Tail(queue[s]), 0) /\ queuedpcm'[s] = queuedpcm[s]
      /\ out'[s] = out[s] /\ queued'[s] = queued[s] /\ held' = held
  BY DEF PrefillEnd, Goto, TypeOK, guiVars
<1>3. Line(out[s], queuedpcm[s], queue[s], queued[s])
  BY <1>2 DEF StreamInv, InLine
<1>4. /\ Line(out'[s], queuedpcm'[s], queue'[s], queued'[s])
      /\ queued[s] # Len(out[s]) + Len(queuedpcm[s]) + Len(queue[s])
  <2>1. queue[s] # <<>> /\ Head(queue[s]) = 0
    BY <1>2
  <2>2. /\ Line(out[s], queuedpcm[s], Append(Tail(queue[s]), 0), queued[s])
        /\ Collected(out[s], queuedpcm[s], queue[s], queued[s])
    BY <1>1, <1>3, <2>1, LineEnd
  <2> QED BY <1>2, <2>2 DEF Collected
<1>5. InLine(s)' /\ ~Unfinished(s)
  BY <1>4, InLinePrime DEF Unfinished
<1> QED BY <1>2, <1>5 DEF StreamInv, Held, Gone

LEMMA TakeKeeps ==
  ASSUME TypeOK, NEW s \in Streams, StreamInv(s), Take(s)
  PROVE  StreamInv(s)'
<1>1. /\ queue[s] \in Seq(Nat) /\ queuedpcm[s] \in Seq(Nat) /\ out[s] \in Seq(Nat)
      /\ queued[s] \in Nat
  BY DEF TypeOK
<1>2. /\ pc[s] = "take" /\ queue[s] # <<>> /\ queuedpcm[s] = <<>>
      /\ queue'[s] = Tail(queue[s])
      /\ out'[s] = out[s] /\ queued'[s] = queued[s] /\ held' = held
  BY DEF Take, TypeOK, guiVars, StreamInv
<1>3. Line(out[s], queuedpcm[s], queue[s], queued[s])
  BY <1>2 DEF StreamInv, InLine
<1>4. CASE Head(queue[s]) = 0
  <2>1. pc'[s] = "end" /\ queuedpcm'[s] = queuedpcm[s]
    BY <1>4 DEF Take, Goto, TypeOK
  <2>2. /\ Line(out'[s], queuedpcm'[s], queue'[s], queued'[s])
        /\ queued[s] # Len(out[s]) + Len(queuedpcm[s]) + Len(queue[s])
        /\ queued[s] = Len(out[s]) + Len(queuedpcm[s])
    <3>1. queue[s] # <<>>
      BY <1>2
    <3>2. /\ Line(out[s], queuedpcm[s], Tail(queue[s]), queued[s])
          /\ Collected(out[s], queuedpcm[s], queue[s], queued[s])
      BY <1>1, <1>3, <1>4, <3>1, LineEnd
    <3> QED BY <1>2, <2>1, <3>2 DEF Collected
  <2>3. queued[s] = Len(out[s])
    BY <1>1, <1>2, <2>2
  <2>4. InLine(s)' /\ ~Unfinished(s)
    BY <2>2, InLinePrime DEF Unfinished
  <2> QED BY <1>2, <2>1, <2>3, <2>4 DEF StreamInv, Held, Gone
<1>5. CASE Head(queue[s]) # 0
  <2>1. pc'[s] = "write" /\ queuedpcm'[s] = <<Head(queue[s])>>
    BY <1>5 DEF Take, Goto, TypeOK
  <2>2. queuedpcm'[s] = Append(queuedpcm[s], Head(queue[s]))
    BY <1>2, <2>1
  <2>3. /\ Line(out'[s], queuedpcm'[s], queue'[s], queued'[s])
        /\ Len(queuedpcm'[s]) + Len(queue'[s]) = Len(queuedpcm[s]) + Len(queue[s])
    <3>1. queue[s] # <<>> /\ Head(queue[s]) # 0
      BY <1>2, <1>5
    <3>2. /\ Line(out[s], Append(queuedpcm[s], Head(queue[s])), Tail(queue[s]), queued[s])
          /\ Len(Append(queuedpcm[s], Head(queue[s]))) + Len(Tail(queue[s]))
               = Len(queuedpcm[s]) + Len(queue[s])
      BY <1>1, <1>3, <3>1, LineCollect, Zenon
    <3> QED BY <1>2, <2>2, <3>2, Zenon
  <2>4. InLine(s)' /\ (Unfinished(s) => Unfinished(s)')
    BY <1>2, <2>3, InLinePrime, OutputTyped, UnfinishedKept DEF Output
  <2> QED BY <1>2, <2>1, <2>4 DEF StreamInv, Held, Gone
<1> QED BY <1>4, <1>5

LEMMA WriteKept ==
  ASSUME TypeOK, NEW s \in Streams, StreamInv(s), Write(s)
  PROVE  StreamInv(s)'
<1>1. /\ queue[s] \in Seq(Nat) /\ queuedpcm[s] \in Seq(Nat) /\ out[s] \in Seq(Nat)
      /\ queued[s] \in Nat
  BY DEF TypeOK
<1>2. /\ pc[s] = "write" /\ pc'[s] = "top" /\ queue'[s] = queue[s]
      /\ queuedpcm'[s] = <<>> /\ out'[s] = out[s] \o queuedpcm[s]
      /\ queued'[s] = queued[s] /\ held' = held
  BY DEF Write, Goto, TypeOK, guiVars
<1>3. Line(out[s], queuedpcm[s], queue[s], queued[s])
  BY <1>2 DEF StreamInv, InLine
<1>4. /\ Line(out'[s], queuedpcm'[s], queue'[s], queued'[s])
      /\ Len(out'[s]) + Len(queuedpcm'[s]) = Len(out[s]) + Len(queuedpcm[s])
  BY <1>1, <1>2, <1>3, LineWrite
<1>5. InLine(s)' /\ (Unfinished(s) => Unfinished(s)')
  BY <1>2, <1>4, InLinePrime DEF Unfinished
<1>6. \A i \in 1..Len(out'[s]) : out'[s][i] = i
  BY <1>4 DEF Line
<1> QED BY <1>2, <1>5, <1>6 DEF StreamInv, Held, Gone

LEMMA OutputKeeps ==
  ASSUME AudioInv, NEW s \in Streams, Output(s)
  PROVE  \A t \in Streams : StreamInv(t)'
<1>1. TypeOK /\ \A t \in Streams : StreamInv(t)
  BY DEF AudioInv
<1>2. StreamInv(s)'
  BY <1>1, TopKeeps, DeleteKeeps, PrefillPieceKeeps, PrefillEndKeeps, TakeKeeps, WriteKept
     DEF Output
<1>3. \A t \in Streams \ {s} : StreamInv(t)'
  BY <1>1, OutputOthers, SameKeeps
<1> QED BY <1>2, <1>3

\* finish() on the stream of a user, and what becomes of the others.
LEMMA FinishKeeps ==
  ASSUME AudioInv, NEW u \in Users, FinishHeld(u),
         UNCHANGED <<pc, queuedpcm, out, queued, byItself>>
  PROVE  \A t \in Streams : StreamInv(t)'
<1>0. held[u] \in Streams
  BY DEF AudioInv, TypeOK, FinishHeld
<1> PICK s \in Streams : s = held[u]
  BY <1>0
<1>1. TypeOK /\ s = held[u] /\ held' = [held EXCEPT ![u] = None]
  BY DEF AudioInv, TypeOK, FinishHeld
<1>2. \A v \in Users : held'[v] \in Streams => held'[v] = held[v] /\ v # u
  BY <1>1, AudioAssumption DEF TypeOK
<1>3. \A v \in Users : held'[v] # s
  BY <1>1, <1>2 DEF AudioInv, HeldInv, FinishHeld
<1>4. queue' = queue \/ queue' = [queue EXCEPT ![s] = Append(@, 0)]
  BY <1>1 DEF FinishHeld
<1>5. ASSUME NEW t \in Streams, t # s
      PROVE  StreamInv(t)'
  <2>1. Same(t)
    BY <1>1, <1>2, <1>4, <1>5 DEF Same, TypeOK
  <2> QED BY <2>1, SameKeeps DEF AudioInv
<1>6. StreamInv(s)'
  <2>1. StreamInv(s)
    BY <1>1 DEF AudioInv
  <2>2. CASE queue' = queue
    <3>1. Same(s)
      BY <1>1, <1>2, <2>2 DEF Same, TypeOK
    <3> QED BY <1>1, <2>1, <3>1, SameKeeps
  <2>3. CASE queue' = [queue EXCEPT ![s] = Append(@, 0)]
    <3>1. queue'[s] = Append(queue[s], 0)
      BY <1>1, <2>3 DEF TypeOK
    <3>2. /\ queue[s] \in Seq(Nat) /\ queuedpcm[s] \in Seq(Nat) /\ out[s] \in Seq(Nat)
          /\ queued[s] \in Nat
      BY <1>1 DEF TypeOK
    <3>3. InLine(s) => InLine(s)'
      <4> SUFFICES ASSUME Line(out[s], queuedpcm[s], queue[s], queued[s])
                   PROVE  InLine(s)'
        BY DEF InLine
      <4>1. Line(out'[s], queuedpcm'[s], queue'[s], queued'[s])
        BY <3>1, <3>2, LineFinish
      <4> QED BY <1>1, <4>1, InLinePrime
    <3>4. pc[s] # "none"
      <4>1. Held(s)
        BY <1>1 DEF Held
      <4> QED BY <2>1, <4>1 DEF StreamInv
    <3>5. ~Held(s)'
      BY <1>3 DEF Held
    <3> QED BY <2>1, <3>3, <3>4, <3>5 DEF StreamInv, Gone
  <2> QED BY <1>4, <2>2, <2>3
<1> QED BY <1>5, <1>6

\* queue() on a stream that nobody has finished.
LEMMA QueueKeeps ==
  ASSUME AudioInv, NEW s \in Streams, NEW u \in Users, Queue(s),
         UNCHANGED <<queuedpcm, out, byItself>>,
         \/ held[u] = s /\ Open(s) /\ held' = held /\ pc' = pc
         \/ pc[s] = "none" /\ held' = [held EXCEPT ![u] = s] /\ Goto(s, "top")
  PROVE  \A t \in Streams : StreamInv(t)'
<1>1. TypeOK /\ StreamInv(s)
  BY DEF AudioInv
<1>2. ASSUME NEW t \in Streams, t # s
      PROVE  StreamInv(t)'
  <2>1. Same(t)
    BY <1>1, <1>2 DEF Same, TypeOK, Queue, Goto
  <2> QED BY <2>1, SameKeeps DEF AudioInv
<1>3. /\ pc[s] \in {"none", "top", "prefill", "take", "write", "end"}
      /\ pc'[s] = pc[s] \/ (pc'[s] = "top" /\ pc[s] = "none")
      /\ pc'[s] # "none"
  BY <1>1 DEF Open, Goto, TypeOK
<1>4. Unfinished(s) /\ InLine(s) /\ (pc[s] = "none" \/ Held(s))
  BY <1>1, <1>3 DEF StreamInv, Held, Open
<1>5. /\ queue[s] \in Seq(Nat) /\ queuedpcm[s] \in Seq(Nat) /\ out[s] \in Seq(Nat)
      /\ queued[s] \in Nat
      /\ queue'[s] = Append(queue[s], queued[s] + 1) /\ queued'[s] = queued[s] + 1
      /\ queuedpcm'[s] = queuedpcm[s] /\ out'[s] = out[s]
  BY <1>1 DEF Queue, TypeOK
<1>6. InLine(s)' /\ Unfinished(s)'
  <2>1. /\ Line(out[s], queuedpcm[s], queue[s], queued[s])
        /\ queued[s] = Len(out[s]) + Len(queuedpcm[s]) + Len(queue[s])
    BY <1>4 DEF InLine, Unfinished
  <2>2. /\ Line(out[s], queuedpcm[s], Append(queue[s], queued[s] + 1), queued[s] + 1)
        /\ queued[s] + 1 = Len(out[s]) + Len(queuedpcm[s]) + Len(Append(queue[s], queued[s] + 1))
    BY <1>5, <2>1, LineQueue, Zenon
  <2>3. /\ Line(out'[s], queuedpcm'[s], queue'[s], queued'[s])
        /\ queued'[s] = Len(out'[s]) + Len(queuedpcm'[s]) + Len(queue'[s])
    BY <1>5, <2>2
  <2> QED BY <2>3, InLinePrime DEF Unfinished
<1>7. pc[s] \in Gone => s \in byItself
  BY <1>1, <1>3, <1>4 DEF StreamInv, Gone
<1>8. StreamInv(s)'
  BY <1>1, <1>3, <1>5, <1>6, <1>7 DEF StreamInv, Gone
<1> QED BY <1>2, <1>8

LEMMA GuiKeeps ==
  ASSUME AudioInv, NEW u \in Users, Gui(u)
  PROVE  \A t \in Streams : StreamInv(t)'
<1>1. CASE TalkEnd(u)
  BY <1>1, FinishKeeps DEF TalkEnd
<1>2. CASE MovedOrMuted(u)
  BY <1>2, FinishKeeps DEF MovedOrMuted
<1>3. CASE PlayHeld(u)
  <2>1. held[u] \in Streams
    BY <1>3 DEF PlayHeld, AudioInv, TypeOK
  <2>2. CASE Open(held[u])
    BY <1>3, <2>1, <2>2, QueueKeeps DEF PlayHeld
  <2>3. CASE ~Open(held[u])
    <3>1. \A t \in Streams : Same(t)
      BY <1>3, <2>3 DEF PlayHeld, Same
    <3> QED BY <3>1, SameKeeps DEF AudioInv
  <2> QED BY <2>2, <2>3
<1>4. CASE PlayNew(u)
  BY <1>4, QueueKeeps DEF PlayNew
<1>5. CASE PlaySilent(u)
  <2>1. PICK s \in Streams : pc[s] = "none" /\ held' = [held EXCEPT ![u] = s] /\ Goto(s, "silent")
    BY <1>5 DEF PlaySilent
  <2>2. /\ queue' = queue /\ queuedpcm' = queuedpcm /\ out' = out /\ queued' = queued
        /\ byItself' = byItself
    BY <1>5 DEF PlaySilent
  <2>3. ASSUME NEW t \in Streams, t # s
        PROVE  StreamInv(t)'
    <3>1. Same(t)
      BY <2>1, <2>2, <2>3 DEF Same, AudioInv, TypeOK, Goto
    <3> QED BY <3>1, SameKeeps DEF AudioInv
  <2>4. StreamInv(s)'
    <3>1. StreamInv(s) /\ pc'[s] = "silent"
      BY <2>1 DEF AudioInv, TypeOK, Goto
    <3>2. (InLine(s) => InLine(s)') /\ (Unfinished(s) => Unfinished(s)')
      BY <2>2 DEF InLine, Unfinished
    <3> QED BY <2>1, <2>2, <3>1, <3>2 DEF StreamInv, Gone
  <2> QED BY <2>3, <2>4
<1> QED BY <1>1, <1>2, <1>3, <1>4, <1>5 DEF Gui
-----------------------------------------------------------------------------
(* Who holds which stream, and the invariant as a whole.                   *)

\* A thread that leaves by itself was logged out or had a failure.
LEMMA OutputHeld ==
  ASSUME AudioInv, NEW s \in Streams, Output(s)
  PROVE  HeldInv'
<1>1. TypeOK /\ HeldInv
  BY DEF AudioInv
<1>2. held' = held /\ session' = session
  BY DEF Output, Top, TopLoggedOut, PrefillPiece, PrefillEnd, Take, Write, WriteFails,
         StreamClosed, DeleteThis, guiVars, sessionVars
<1>3. \/ byItself' = byItself /\ fails' = fails
      \/ byItself' = byItself \cup {s} /\ fails' = fails /\ session \in {"down", "closed"}
      \/ fails' = fails + 1
  BY <1>1 DEF Output, Top, TopLoggedOut, PrefillPiece, PrefillEnd, Take, Write, WriteFails,
         StreamClosed, DeleteThis, TypeOK, loggedin, SessionStates
<1>4. fails \in Nat
  BY <1>1 DEF TypeOK
<1>5. /\ \A u, v \in Users : held'[u] # None /\ held'[u] = held'[v] => u = v
      /\ session' \in {"down", "noticed"} => \A u \in Users : held'[u] = None
  BY <1>1, <1>2 DEF HeldInv
<1>6. \A u \in Users : session' \in {"up", "ending"} /\ held'[u] \in byItself' => fails' > 0
  <2>1. CASE fails' = fails + 1
    BY <1>4, <2>1
  <2>2. CASE byItself' = byItself /\ fails' = fails
    BY <1>1, <1>2, <2>2 DEF HeldInv
  <2>3. CASE session \in {"down", "closed"}
    BY <1>2, <2>3
  <2> QED BY <1>3, <2>1, <2>2, <2>3
<1> QED BY <1>5, <1>6 DEF HeldInv

\* A new stream is held by nobody yet, and has not ended.
LEMMA GuiHeld ==
  ASSUME AudioInv, NEW u \in Users, Gui(u)
  PROVE  HeldInv'
<1>1. TypeOK /\ HeldInv /\ fails \in Nat
  BY DEF AudioInv, TypeOK
<1>2. session' = session /\ byItself' = byItself /\ (fails' = fails \/ fails' = fails + 1)
      /\ session \notin {"down", "noticed"}
  BY DEF Gui, TalkEnd, MovedOrMuted, PlayHeld, PlayNew, PlaySilent, sessionVars, InSession
<1>3. CASE \A v \in Users : held'[v] = held[v] \/ held'[v] = None
  <2>1. fails > 0 => fails' > 0
    BY <1>1, <1>2
  <2>2. None \notin byItself
    BY <1>1, AudioAssumption DEF TypeOK
  <2> QED BY <1>1, <1>2, <1>3, <2>1, <2>2 DEF HeldInv
<1>4. CASE \E s \in Streams : pc[s] = "none" /\ held' = [held EXCEPT ![u] = s]
  <2>1. PICK s \in Streams : pc[s] = "none" /\ held' = [held EXCEPT ![u] = s]
    BY <1>4
  <2>2. \A v \in Users : held[v] # s
    BY <2>1 DEF AudioInv, StreamInv, Held
  <2>3. \A v \in Users : held'[v] = IF v = u THEN s ELSE held[v]
    BY <1>1, <2>1 DEF TypeOK
  <2>4. s \notin byItself
    BY <2>1 DEF AudioInv, StreamInv
  <2> QED BY <1>1, <1>2, <2>2, <2>3, <2>4 DEF HeldInv
<1>5. held' = held \/ held' = [held EXCEPT ![u] = None]
      \/ \E s \in Streams : pc[s] = "none" /\ held' = [held EXCEPT ![u] = s]
  BY DEF Gui, TalkEnd, MovedOrMuted, PlayHeld, PlayNew, PlaySilent, FinishHeld
<1> QED BY <1>1, <1>3, <1>4, <1>5 DEF TypeOK

LEMMA SessionKeeps ==
  ASSUME AudioInv, Session \/ ToggleMute \/ UNCHANGED vars
  PROVE  HeldInv' /\ \A s \in Streams : StreamInv(s)'
<1>1. /\ pc' = pc /\ queue' = queue /\ queuedpcm' = queuedpcm /\ out' = out
      /\ queued' = queued /\ byItself' = byItself /\ fails' = fails
      /\ held' = held \/ held' = [u \in Users |-> None]
  BY DEF Session, Login, LogoutQueue, LogoutClose, Disconnect, ToggleMute, vars, sessionVars,
         guiVars, threadVars
<1>2. \A s \in Streams : Same(s)
  BY <1>1, AudioAssumption DEF Same
<1>3. HeldInv'
  <2>1. CASE held' = [u \in Users |-> None]
    <3>1. \A u \in Users : held'[u] = None
      BY <2>1
    <3>2. None \notin byItself
      BY AudioAssumption DEF AudioInv, TypeOK
    <3> QED BY <1>1, <3>1, <3>2 DEF HeldInv
  <2>2. CASE held' = held
    <3>1. HeldInv
      BY DEF AudioInv
    <3>2. CASE session' = session
      BY <1>1, <2>2, <3>1, <3>2 DEF HeldInv
    <3>3. CASE Login
      <4>1. \A u \in Users : held'[u] = None
        BY <2>2, <3>1, <3>3 DEF Login, HeldInv
      <4>2. None \notin byItself
        BY AudioAssumption DEF AudioInv, TypeOK
      <4> QED BY <1>1, <4>1, <4>2 DEF HeldInv
    <3>4. CASE LogoutQueue
      BY <1>1, <2>2, <3>1, <3>4 DEF LogoutQueue, HeldInv
    <3>5. CASE LogoutClose
      BY <1>1, <2>2, <3>1, <3>5 DEF LogoutClose, HeldInv
    <3>6. CASE Disconnect
      <4>1. held' = [u \in Users |-> None]
        BY <3>6 DEF Disconnect
      <4> QED BY <2>1, <4>1
    <3> QED BY <3>2, <3>3, <3>4, <3>5, <3>6 DEF Session, ToggleMute, vars, sessionVars
  <2> QED BY <1>1, <2>1, <2>2
<1> QED BY <1>2, <1>3, SameKeeps DEF AudioInv

LEMMA InvInit == Init => AudioInv
<1> SUFFICES ASSUME Init PROVE AudioInv
  OBVIOUS
<1>1. TypeOK
  BY Typed
<1>2. HeldInv
  BY DEF Init, HeldInv
<1>3. ASSUME NEW s \in Streams PROVE StreamInv(s)
  <2>1. /\ out[s] = <<>> /\ queuedpcm[s] = <<>> /\ queue[s] = <<>> /\ queued[s] = 0
        /\ pc[s] = "none" /\ byItself = {} /\ \A u \in Users : held[u] = None
    BY DEF Init
  <2>2. Line(<<>>, <<>>, <<>>, 0)
    BY DEF Line
  <2>3. InLine(s) /\ Unfinished(s)
    BY <2>1, <2>2 DEF InLine, Unfinished
  <2>4. ~Held(s)
    BY <2>1, AudioAssumption DEF Held
  <2>5. \A i \in 1..Len(out[s]) : out[s][i] = i
    BY <2>1
  <2> QED BY <2>1, <2>3, <2>4, <2>5 DEF StreamInv, Gone
<1> QED BY <1>1, <1>2, <1>3 DEF AudioInv

LEMMA InvStep == AudioInv /\ [Next]_vars => AudioInv'
<1> SUFFICES ASSUME AudioInv, [Next]_vars PROVE AudioInv'
  OBVIOUS
<1>1. TypeOK'
  BY TypeStep DEF AudioInv
<1>2. CASE \E s \in Streams : Output(s)
  BY <1>1, <1>2, OutputHeld, OutputKeeps DEF AudioInv
<1>3. CASE \E u \in Users : Gui(u)
  BY <1>1, <1>3, GuiHeld, GuiKeeps DEF AudioInv
<1>4. CASE ToggleMute \/ Session \/ UNCHANGED vars
  BY <1>1, <1>4, SessionKeeps DEF AudioInv
<1> QED BY <1>2, <1>3, <1>4 DEF Next
-----------------------------------------------------------------------------
\* Whatever the threads, the GUI and the session do, a stream plays what it
\* was given in order, and all of it if it ends by the 0 that finish() queues.
THEOREM PlaybackSafe == Spec => []PlayedInFull
<1>1. AudioInv => PlayedInFull
  <2> SUFFICES ASSUME AudioInv, NEW s \in Streams
               PROVE  /\ out[s] = [i \in 1..Len(out[s]) |-> i]
                      /\ pc[s] \in Gone /\ s \notin byItself => Len(out[s]) = queued[s]
    BY DEF PlayedInFull
  <2>1. StreamInv(s) /\ out[s] \in Seq(Nat)
    BY DEF AudioInv, TypeOK
  <2>2. out[s] = [i \in 1..Len(out[s]) |-> out[s][i]]
    BY <2>1
  <2>3. \A i \in 1..Len(out[s]) : out[s][i] = i
    BY <2>1 DEF StreamInv
  <2>4. out[s] = [i \in 1..Len(out[s]) |-> i]
    BY <2>2, <2>3
  <2> QED BY <2>1, <2>4 DEF StreamInv
<1> QED BY <1>1, InvInit, InvStep, PTL DEF Spec

\* In a session the GUI holds no pointer to a stream that has deleted itself,
\* but after a failure of the audio system.
THEOREM PointersSafe == Spec => []HeldIsAlive
<1>1. AudioInv => HeldIsAlive
  BY DEF AudioInv, HeldInv, StreamInv, Held, HeldIsAlive, TypeOK
<1> QED BY <1>1, InvInit, InvStep, PTL DEF Spec
=============================================================================
