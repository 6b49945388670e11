--------------------------- MODULE V3ChannelsProofs ---------------------------
(***************************************************************************)
(* For any number of channels and users: the move of a channel in the      *)
(* linked list, the tree of the GUI once it has taken every event, the row *)
(* that is there when a channel is rewritten, and the path of a channel.   *)
(***************************************************************************)
EXTENDS V3Channels, SequenceTheorems, FiniteSetTheorems, NaturalsInduction,
        WellFoundedInduction, TLAPS

Unique(s) == \A i, j \in DOMAIN s : s[i] = s[j] => i = j

LEMMA PositionFound ==
  ASSUME NEW C, NEW s \in Seq(C), Unique(s), NEW i \in 1..Len(s)
  PROVE  Position(s, s[i]) = i
<1>1. DOMAIN s = 1..Len(s)
  OBVIOUS
<1>2. \A j \in 1..(i - 1) : s[j] # s[i]
  BY <1>1 DEF Unique
<1>3. \A j \in DOMAIN s : s[j] = s[i] => j = i
  BY <1>1 DEF Unique
<1>4. i \in DOMAIN s /\ s[i] = s[i]
  BY <1>1
<1>5. \E j \in DOMAIN s : s[j] = s[i]
  BY <1>4
<1>6. (CHOOSE j \in DOMAIN s : s[j] = s[i] /\ \A n \in 1..(j - 1) : s[n] # s[i]) = i
  BY <1>2, <1>3, <1>4
<1> QED BY <1>5, <1>6 DEF Position

LEMMA PositionRange ==
  ASSUME NEW C, NEW s \in Seq(C), Unique(s), NEW c
  PROVE  /\ Position(s, c) \in 0..Len(s)
         /\ Position(s, c) # 0 => s[Position(s, c)] = c
<1>1. CASE \E i \in DOMAIN s : s[i] = c
  <2>1. PICK i \in DOMAIN s : s[i] = c
    BY <1>1
  <2>2. i \in 1..Len(s)
    BY <2>1
  <2> QED BY <2>1, <2>2, PositionFound
<1>2. CASE ~ \E i \in DOMAIN s : s[i] = c
  BY <1>2 DEF Position
<1> QED BY <1>1, <1>2

LEMMA RemoveAtElements ==
  ASSUME NEW C, NEW s \in Seq(C), NEW k \in 1..Len(s)
  PROVE  /\ RemoveAt(s, k) \in Seq(C)
         /\ Len(RemoveAt(s, k)) = Len(s) - 1
         /\ \A i \in 1..(Len(s) - 1) : RemoveAt(s, k)[i] = IF i < k THEN s[i] ELSE s[i + 1]
<1> DEFINE front == SubSeq(s, 1, k - 1)
           back  == SubSeq(s, k + 1, Len(s))
<1>1. front \in Seq(C) /\ Len(front) = k - 1 /\ \A i \in 1..(k - 1) : front[i] = s[i]
  OBVIOUS
<1>2. back \in Seq(C) /\ Len(back) = Len(s) - k /\ \A i \in 1..(Len(s) - k) : back[i] = s[i + k]
  OBVIOUS
<1> HIDE DEF front, back
<1>3. RemoveAt(s, k) = front \o back
  BY DEF RemoveAt, front, back
<1> DEFINE r == front \o back
<1>4. r \in Seq(C) /\ Len(r) = Len(s) - 1
  BY <1>1, <1>2
<1> HIDE DEF r
<1>5. ASSUME NEW i \in 1..(Len(s) - 1)
      PROVE  r[i] = IF i < k THEN s[i] ELSE s[i + 1]
  <2>1. CASE i < k
    BY <1>1, <1>2, <2>1 DEF r
  <2>2. CASE ~(i < k)
    <3>1. r[i] = back[i - (k - 1)]
      BY <1>1, <1>2, <2>2 DEF r
    <3>2. i - (k - 1) \in 1..(Len(s) - k) /\ (i - (k - 1)) + k = i + 1
      BY <2>2
    <3> QED BY <1>2, <3>1, <3>2, <2>2
  <2> QED BY <2>1, <2>2
<1> QED BY <1>3, <1>4, <1>5 DEF r

LEMMA InsertAtElements ==
  ASSUME NEW C, NEW s \in Seq(C), NEW e \in C, NEW k \in 1..(Len(s) + 1)
  PROVE  /\ InsertAt(s, k, e) \in Seq(C)
         /\ Len(InsertAt(s, k, e)) = Len(s) + 1
         /\ \A i \in 1..(Len(s) + 1) :
              InsertAt(s, k, e)[i] = IF i < k THEN s[i] ELSE IF i = k THEN e ELSE s[i - 1]
<1> DEFINE front == SubSeq(s, 1, k - 1)
           back  == SubSeq(s, k, Len(s))
<1>1. front \in Seq(C) /\ Len(front) = k - 1 /\ \A i \in 1..(k - 1) : front[i] = s[i]
  OBVIOUS
<1>2. /\ back \in Seq(C) /\ Len(back) = Len(s) - k + 1
      /\ \A i \in 1..(Len(s) - k + 1) : back[i] = s[i + k - 1]
  OBVIOUS
<1> HIDE DEF front, back
<1>3. <<e>> \in Seq(C) /\ Len(<<e>>) = 1 /\ <<e>>[1] = e
  OBVIOUS
<1> DEFINE start == front \o <<e>>
<1>4. /\ start \in Seq(C) /\ Len(start) = k
      /\ \A i \in 1..k : start[i] = IF i < k THEN s[i] ELSE e
  BY <1>1, <1>3
<1> HIDE DEF start
<1>5. InsertAt(s, k, e) = start \o back
  BY DEF InsertAt, front, back, start
<1> DEFINE r == start \o back
<1>6. r \in Seq(C) /\ Len(r) = Len(s) + 1
  <2>1. r \in Seq(C) /\ Len(r) = Len(start) + Len(back)
    <3>1. start \in Seq(C) /\ back \in Seq(C)
      BY <1>2, <1>4
    <3> QED BY <3>1, ConcatProperties
  <2> QED BY <1>2, <1>4, <2>1
<1> HIDE DEF r
<1>7. ASSUME NEW i \in 1..(Len(s) + 1)
      PROVE  r[i] = IF i < k THEN s[i] ELSE IF i = k THEN e ELSE s[i - 1]
  <2>1. CASE i <= k
    <3>1. r[i] = start[i]
      BY <1>2, <1>4, <2>1 DEF r
    <3> QED BY <1>4, <2>1, <3>1
  <2>2. CASE ~(i <= k)
    <3>1. r[i] = back[i - k]
      BY <1>2, <1>4, <2>2 DEF r
    <3>2. i - k \in 1..(Len(s) - k + 1) /\ (i - k) + k - 1 = i - 1
      BY <2>2
    <3> QED BY <1>2, <3>1, <3>2, <2>2
  <2> QED BY <2>1, <2>2
<1> QED BY <1>5, <1>6, <1>7 DEF r

LEMMA MoveFacts ==
  ASSUME NEW C, NEW s \in Seq(C), Unique(s), NEW id, NEW t
  PROVE  /\ MoveBefore(s, id, t) \in Seq(C)
         /\ Unique(MoveBefore(s, id, t))
         /\ Position(s, id) # 0 /\ Position(s, t) # 0 /\ id # t
              => /\ Others(MoveBefore(s, id, t), id) = Others(s, id)
                 /\ Len(MoveBefore(s, id, t)) = Len(s)
                 /\ Position(MoveBefore(s, id, t), id) + 1 = Position(MoveBefore(s, id, t), t)
<1> DEFINE k == Position(s, id)
           d == Position(s, t) - 1
           p == IF k < d THEN d ELSE d + 1
           w == RemoveAt(s, k)
           r == InsertAt(w, p, id)
<1>0. Position(s, t) \in 0..Len(s) /\ Position(s, id) \in 0..Len(s)
  BY PositionRange
<1>1. /\ k \in 0..Len(s) /\ (k # 0 => s[k] = id)
      /\ d + 1 \in 0..Len(s) /\ (d + 1 # 0 => s[d + 1] = t)
      /\ d \in -1..Len(s)
  BY PositionRange
<1>2. MoveBefore(s, id, t) = IF d < 0 \/ k = 0 \/ k = d THEN s ELSE r
  BY DEF MoveBefore
<1> HIDE DEF k, d, w, r
<1>3. CASE k = 0 \/ d < 0
  <2>1. k = 0 \/ d + 1 = 0
    BY <1>1, <1>3
  <2>2. Position(s, id) = 0 \/ Position(s, t) = 0
    BY <2>1, <1>0 DEF k, d
  <2> QED BY <1>2, <1>3, <2>2
<1>4. CASE k # 0 /\ d >= 0 /\ k = d
  <2>1. MoveBefore(s, id, t) = s
    BY <1>2, <1>4
  <2>2. Position(s, id) + 1 = Position(s, t)
    BY <1>4, <1>0 DEF k, d
  <2> QED BY <2>1, <2>2
<1>5. CASE k # 0 /\ d >= 0 /\ k # d
  <2>0. \A i, j \in 1..Len(s) : s[i] = s[j] => i = j
    BY DEF Unique
  <2>1. k \in 1..Len(s) /\ d \in 0..(Len(s) - 1) /\ s[k] = id /\ s[d + 1] = t
    BY <1>1, <1>5
  <2>2. id \in C /\ t \in C
    BY <2>1
  <2>3. /\ w \in Seq(C) /\ Len(w) = Len(s) - 1
        /\ \A i \in 1..(Len(s) - 1) : w[i] = IF i < k THEN s[i] ELSE s[i + 1]
    BY <2>1, RemoveAtElements DEF w
  <2>4. p \in 1..(Len(w) + 1)
    BY <2>1, <2>3, <1>5
  <2> HIDE DEF p
  <2>5. /\ r \in Seq(C) /\ Len(r) = Len(s)
        /\ \A i \in 1..Len(s) : r[i] = IF i < p THEN w[i] ELSE IF i = p THEN id ELSE w[i - 1]
    BY <2>2, <2>3, <2>4, InsertAtElements DEF r
  <2>6. MoveBefore(s, id, t) = r
    BY <1>1, <1>2, <1>5
  <2>7. \A i \in 1..(Len(s) - 1) : w[i] # id
    BY <2>0, <2>1, <2>3
  <2>8. \A i, j \in 1..(Len(s) - 1) : w[i] = w[j] => i = j
    <3> SUFFICES ASSUME NEW i \in 1..(Len(s) - 1), NEW j \in 1..(Len(s) - 1), w[i] = w[j]
                 PROVE  i = j
      OBVIOUS
    <3>1. (IF i < k THEN s[i] ELSE s[i + 1]) = (IF j < k THEN s[j] ELSE s[j + 1])
      BY <2>3
    <3> QED BY <2>0, <2>1, <3>1
  <2>9. Unique(r)
    <3>1. DOMAIN r = 1..Len(s)
      BY <2>5
    <3> SUFFICES ASSUME NEW i \in 1..Len(s), NEW j \in 1..Len(s), r[i] = r[j], i < j
                 PROVE  FALSE
      BY <3>1 DEF Unique
    <3>2. p \in 1..Len(s) /\ Len(s) \in Nat
      BY <2>3, <2>4
    <3>3. ASSUME NEW n \in 1..Len(s)
          PROVE  /\ n < p => r[n] = w[n] /\ n \in 1..(Len(s) - 1)
                 /\ n = p => r[n] = id
                 /\ p < n => r[n] = w[n - 1] /\ n - 1 \in 1..(Len(s) - 1)
      <4>1. r[n] = IF n < p THEN w[n] ELSE IF n = p THEN id ELSE w[n - 1]
        BY <2>5
      <4>2. p \in Int /\ n \in Int
        BY <3>2
      <4> HIDE DEF r
      <4>3. n < p => r[n] = w[n]
        BY <4>1
      <4>4. n = p => r[n] = id
        BY <4>1, <4>2
      <4>5. p < n => r[n] = w[n - 1]
        BY <4>1, <4>2
      <4>6. (n < p => n \in 1..(Len(s) - 1)) /\ (p < n => n - 1 \in 1..(Len(s) - 1))
        BY <3>2
      <4> QED BY <4>3, <4>4, <4>5, <4>6
    <3>9. i < p \/ i = p \/ p < i
      BY <3>2
    <3>4. CASE j < p
      <4>1. w[i] = w[j] /\ i \in 1..(Len(s) - 1) /\ j \in 1..(Len(s) - 1)
        BY <3>2, <3>3, <3>4
      <4> QED BY <4>1, <2>8
    <3>5. CASE j = p
      <4>1. w[i] = id /\ i \in 1..(Len(s) - 1)
        BY <3>2, <3>3, <3>5
      <4> QED BY <4>1, <2>7
    <3>6. CASE p < j /\ i < p
      <4>1. w[i] = w[j - 1] /\ i \in 1..(Len(s) - 1) /\ j - 1 \in 1..(Len(s) - 1) /\ i # j - 1
        BY <3>2, <3>3, <3>6
      <4> QED BY <4>1, <2>8
    <3>7. CASE p < j /\ i = p
      <4>1. w[j - 1] = id /\ j - 1 \in 1..(Len(s) - 1)
        BY <3>2, <3>3, <3>7
      <4> QED BY <4>1, <2>7
    <3>8. CASE p < j /\ p < i
      <4>1. /\ w[i - 1] = w[j - 1] /\ i - 1 \in 1..(Len(s) - 1) /\ j - 1 \in 1..(Len(s) - 1)
            /\ i - 1 # j - 1
        BY <3>2, <3>3, <3>8
      <4> QED BY <4>1, <2>8
    <3> QED BY <3>2, <3>4, <3>5, <3>6, <3>7, <3>8
  <2>10. p \in 1..Len(r) /\ r[p] = id
    BY <2>3, <2>4, <2>5
  <2>11. Position(r, id) = p
    BY <2>5, <2>9, <2>10, PositionFound
  <2>12. ASSUME id # t
         PROVE  Position(r, t) = p + 1
    <3>1. k # d + 1
      BY <2>1, <2>12
    <3>2. p \in 1..(Len(s) - 1) /\ w[p] = t
      <4>1. CASE k < d
        <5>1. p = d
          BY <4>1 DEF p
        <5>2. p \in 1..(Len(s) - 1) /\ ~(p < k)
          BY <2>1, <4>1, <5>1
        <5> QED BY <2>1, <2>3, <5>1, <5>2
      <4>2. CASE ~(k < d)
        <5>1. p = d + 1
          BY <4>2 DEF p
        <5>2. p \in 1..(Len(s) - 1) /\ p < k
          BY <2>1, <3>1, <4>2, <5>1, <1>5
        <5> QED BY <2>1, <2>3, <5>1, <5>2
      <4> QED BY <4>1, <4>2
    <3>3. p + 1 \in 1..Len(r) /\ r[p + 1] = w[p]
      BY <2>5, <3>2
    <3> QED BY <2>5, <2>9, <3>2, <3>3, PositionFound
  <2>13. RemoveAt(r, p) = w
    <3>1. /\ RemoveAt(r, p) \in Seq(C) /\ Len(RemoveAt(r, p)) = Len(w)
          /\ \A i \in 1..Len(w) : RemoveAt(r, p)[i] = IF i < p THEN r[i] ELSE r[i + 1]
      <4>1. Len(r) - 1 = Len(w)
        BY <2>3, <2>5
      <4> QED BY <4>1, <2>5, <2>10, RemoveAtElements
    <3>2. ASSUME NEW i \in 1..Len(w)
          PROVE  RemoveAt(r, p)[i] = w[i]
      <4>1. RemoveAt(r, p)[i] = IF i < p THEN r[i] ELSE r[i + 1]
        BY <3>1
      <4>2. i \in 1..Len(s) /\ i + 1 \in 1..Len(s) /\ i \in Int /\ p \in Int
        BY <2>3, <2>4
      <4>3. r[i] = IF i < p THEN w[i] ELSE IF i = p THEN id ELSE w[i - 1]
        BY <2>5, <4>2
      <4>4. r[i + 1] = IF i + 1 < p THEN w[i + 1] ELSE IF i + 1 = p THEN id ELSE w[i + 1 - 1]
        BY <2>5, <4>2
      <4> HIDE DEF r, w
      <4>5. CASE i < p
        BY <4>1, <4>3, <4>5
      <4>6. CASE ~(i < p)
        <5>1. ~(i + 1 < p) /\ i + 1 # p /\ i + 1 - 1 = i
          BY <4>2, <4>6
        <5> QED BY <4>1, <4>4, <4>6, <5>1
      <4> QED BY <4>5, <4>6
    <3> QED BY <2>3, <3>1, <3>2, SeqEqual
  <2>14. Others(r, id) = Others(s, id)
    BY <2>11, <2>13 DEF Others, w, k
  <2> QED BY <2>5, <2>6, <2>9, <2>11, <2>12, <2>14
<1> QED BY <1>1, <1>3, <1>4, <1>5
-----------------------------------------------------------------------------
\* The ids on the list differ; only MoveChannel queues a CHAN_MOVE.
ListInv ==
  /\ chans \in Seq(Channels) /\ Unique(chans)
  /\ eventq \in Seq(Events)
  /\ event \in Events /\ event.type # "CHAN_MOVE"
  /\ place \in [Users -> Places \cup {Away}]

EventRecord(type) == \A id \in Users \cup Places, c \in Places :
                       Event(type, id, c) \in Events /\ Event(type, id, c).type = type

LEMMA EventTyped ==
  ASSUME NEW type \in EventTypes
  PROVE  EventRecord(type)
  BY DEF EventRecord, Event, Events

LEMMA AppendUnique ==
  ASSUME NEW C, NEW s \in Seq(C), Unique(s), NEW c \in C, \A i \in DOMAIN s : s[i] # c
  PROVE  Append(s, c) \in Seq(C) /\ Unique(Append(s, c))
<1> DEFINE r == Append(s, c)
<1>1. r \in Seq(C) /\ Len(r) = Len(s) + 1 /\ r[Len(s) + 1] = c /\ \A i \in 1..Len(s) : r[i] = s[i]
  OBVIOUS
<1> HIDE DEF r
<1>2. DOMAIN r = 1..(Len(s) + 1) /\ DOMAIN s = 1..Len(s)
  BY <1>1
<1> QED BY <1>1, <1>2 DEF Unique, r

LEMMA RemoveUnique ==
  ASSUME NEW C, NEW s \in Seq(C), Unique(s), NEW k \in 1..Len(s)
  PROVE  RemoveAt(s, k) \in Seq(C) /\ Unique(RemoveAt(s, k))
<1> DEFINE r == RemoveAt(s, k)
<1>1. /\ r \in Seq(C) /\ Len(r) = Len(s) - 1
      /\ \A i \in 1..(Len(s) - 1) : r[i] = IF i < k THEN s[i] ELSE s[i + 1]
  BY RemoveAtElements
<1> HIDE DEF r
<1>2. DOMAIN r = 1..(Len(s) - 1) /\ DOMAIN s = 1..Len(s)
  BY <1>1
<1>3. ASSUME NEW i \in 1..(Len(s) - 1), NEW j \in 1..(Len(s) - 1), r[i] = r[j]
      PROVE  i = j
  <2>1. (IF i < k THEN s[i] ELSE s[i + 1]) = (IF j < k THEN s[j] ELSE s[j + 1])
    BY <1>1, <1>3
  <2> QED BY <1>2, <2>1 DEF Unique
<1> QED BY <1>1, <1>2, <1>3 DEF Unique, r

LEMMA AppendOnce ==
  ASSUME NEW C, NEW q \in Seq(C), NEW e \in C, NEW f \in C
  PROVE  /\ Append(q, e) = Append(q, f) => e = f
         /\ q # Append(q, e)
         /\ q # <<>> => Tail(q) # Append(q, e)
<1>1. Len(Append(q, e)) = Len(q) + 1 /\ Append(q, e)[Len(q) + 1] = e /\ Append(q, f)[Len(q) + 1] = f
  OBVIOUS
<1>2. q # <<>> => Len(Tail(q)) = Len(q) - 1
  OBVIOUS
<1> QED BY <1>1, <1>2

\* What a step does to the list and to the queue, by kinds of steps.
Quiet    == UNCHANGED eventq
Queues   == \E e \in Events : e.type # "CHAN_MOVE" /\ eventq' = Append(eventq, e)
Takes    == eventq # <<>> /\ eventq' = Tail(eventq)
Moves    == \E id, t \in Channels :
              /\ chans' = MoveBefore(chans, id, t)
              /\ \/ Quiet
                 \/ /\ {id, t} \subseteq Listed
                    /\ eventq' = Append(eventq, Event("CHAN_MOVE", id, t))
Edits    == \/ UNCHANGED chans
            \/ chans' = <<>>
            \/ \E c \in Channels \ Listed : chans' = Append(chans, c)
            \/ \E c \in Listed : chans' = Removed(c)
PlaceStays == place' \in [Users -> Places \cup {Away}]
EventStays == event' \in Events /\ event'.type # "CHAN_MOVE"

LEMMA PlaceTyped ==
  ASSUME ListInv, [Next]_vars
  PROVE  PlaceStays
<1>1. place \in [Users -> Places \cup {Away}]
  BY DEF ListInv
<1>2. CASE UNCHANGED place
  BY <1>1, <1>2 DEF PlaceStays
<1>3. CASE \E u \in Users, c \in Places \cup {Away} : place' = [place EXCEPT ![u] = c]
  BY <1>1, <1>3 DEF PlaceStays
<1>4. CASE place' = [u \in Users |-> Away]
  BY <1>4 DEF PlaceStays
<1> QED
  BY <1>2, <1>3, <1>4
     DEF Next, Network, Tell, AddChannel, ModifyChannel, RemoveChannel, MoveChannel, UserLogin,
         UserLogout, MoveUser, LoginComplete, Disconnect, DestroyLists, GuiEvent, vars, listVars

\* What v3_queue_event makes of an event.
LEMMA QueuedIs ==
  ASSUME NEW e \in Events
  PROVE  /\ Queued(e) \in Events /\ Queued(e).type = e.type
         /\ Queued(e).id = e.id \/ (e.type = "CHAN_REMOVE" /\ chans = <<>> /\ Queued(e).id = Lobby)
         /\ chans # <<>> \/ (e.channel = Lobby /\ e.type # "CHAN_REMOVE") => Queued(e) = e
<1>1. /\ e = [type |-> e.type, id |-> e.id, channel |-> e.channel]
      /\ e.type \in EventTypes /\ e.id \in Users \cup Places /\ e.channel \in Places /\ Lobby \in Places
  BY DEF Events, Places
<1>2. chans # <<>> => Queued(e) = e
  BY DEF Queued
<1> DEFINE id == IF e.type = "CHAN_REMOVE" THEN Lobby ELSE e.id
<1>3. chans = <<>> => Queued(e) = [type |-> e.type, id |-> id, channel |-> Lobby]
  BY <1>1 DEF Queued, Event
<1>4. [type |-> e.type, id |-> id, channel |-> Lobby] \in Events
  BY <1>1 DEF Events
<1> QED
  BY <1>1, <1>2, <1>3, <1>4

LEMMA StepKinds ==
  ASSUME ListInv, [Next]_vars
  PROVE  EventStays /\ (Moves \/ (Edits /\ (Quiet \/ Queues \/ Takes)))
<1>0. NoEvent \in Events /\ NoEvent.type # "CHAN_MOVE"
  BY DEF NoEvent, Events, EventTypes, Places
<1>1. event \in Events /\ event.type # "CHAN_MOVE" /\ Listed \subseteq Channels
  BY DEF ListInv, Listed
<1>2. Channels \subseteq Users \cup Places /\ Users \subseteq Users \cup Places
      /\ Channels \subseteq Places /\ Lobby \in Places
  BY DEF Places
<1> USE <1>0, <1>1, <1>2
<1>3. CASE Tell
  <2>1. Queued(event) \in Events /\ Queued(event).type # "CHAN_MOVE"
    BY QueuedIs
  <2> QED
    BY <1>3, <2>1 DEF Tell, listVars, EventStays, Edits, Queues
<1>4. CASE AddChannel
  BY <1>4, EventTyped DEF AddChannel, Then, EventStays, Edits, Quiet, EventRecord, EventTypes
<1>5. CASE ModifyChannel
  BY <1>5, EventTyped
     DEF ModifyChannel, Change, listVars, Then, EventStays, Edits, Quiet, EventRecord, EventTypes
<1>6. CASE RemoveChannel
  BY <1>6, EventTyped
     DEF RemoveChannel, Change, Then, EventStays, Edits, Quiet, EventRecord, EventTypes
<1>7. CASE MoveChannel
  <2>1. EventStays
    BY <1>7 DEF MoveChannel, netVars, EventStays
  <2>2. Moves
    BY <1>7 DEF MoveChannel, Moves, Quiet
  <2> QED BY <2>1, <2>2
<1>8. CASE UserLogin
  BY <1>8, EventTyped DEF UserLogin, Then, EventStays, Edits, Quiet, EventRecord, EventTypes
<1>9. CASE UserLogout
  <2>1. UNCHANGED chans /\ Quiet
    BY <1>9 DEF UserLogout, Change, Quiet
  <2>2. PICK u \in Users : place[u] # Away /\ event' = Event("USER_LOGOUT", u, place[u])
    BY <1>9 DEF UserLogout, Then
  <2>3. place[u] \in Places
    BY <2>2 DEF ListInv
  <2>4. Event("USER_LOGOUT", u, place[u]) \in Events
    BY <2>3, EventTyped DEF EventRecord, EventTypes
  <2>5. Event("USER_LOGOUT", u, place[u]).type = "USER_LOGOUT"
    BY DEF Event
  <2> QED BY <2>1, <2>2, <2>4, <2>5 DEF EventStays, Edits
<1>10. CASE MoveUser
  BY <1>10, EventTyped
     DEF MoveUser, Change, Then, EventStays, Edits, Quiet, EventRecord, EventTypes
<1>11. CASE LoginComplete
  <2>1. UNCHANGED chans /\ EventStays
    BY <1>11 DEF LoginComplete, listVars, EventStays
  <2>2. Queues
    BY <1>11, EventTyped DEF LoginComplete, Queues, EventRecord, EventTypes
  <2> QED BY <2>1, <2>2 DEF Edits
<1>12. CASE Disconnect
  BY <1>12 DEF Disconnect, listVars, EventStays, Edits, Queues
<1>13. CASE DestroyLists
  BY <1>13 DEF DestroyLists, EventStays, Edits, Quiet
<1>14. CASE GuiEvent
  BY <1>14 DEF GuiEvent, listVars, netVars, EventStays, Edits, Takes
<1>15. CASE UNCHANGED vars
  BY <1>15 DEF vars, listVars, netVars, EventStays, Edits, Quiet
<1> QED
  BY <1>3, <1>4, <1>5, <1>6, <1>7, <1>8, <1>9, <1>10, <1>11, <1>12, <1>13, <1>14, <1>15
     DEF Next, Network

LEMMA ListKept ==
  ASSUME ListInv, [Next]_vars
  PROVE  ListInv'
<1> DEFINE s == chans
           q == eventq
<1>1. chans \in Seq(Channels) /\ Unique(chans) /\ eventq \in Seq(Events)
  BY DEF ListInv
<1>2. EventStays /\ PlaceStays /\ (Moves \/ (Edits /\ (Quiet \/ Queues \/ Takes)))
  BY StepKinds, PlaceTyped
<1>3. Moves \/ Edits => chans' \in Seq(Channels) /\ Unique(chans')
  <2>1. ASSUME NEW id \in Channels, NEW t \in Channels, chans' = MoveBefore(chans, id, t)
        PROVE  chans' \in Seq(Channels) /\ Unique(chans')
    BY <1>1, <2>1, MoveFacts
  <2>2. ASSUME NEW c \in Channels \ Listed, chans' = Append(chans, c)
        PROVE  chans' \in Seq(Channels) /\ Unique(chans')
    BY <1>1, <2>2, AppendUnique DEF Listed
  <2>3. ASSUME NEW c \in Listed, chans' = Removed(c)
        PROVE  chans' \in Seq(Channels) /\ Unique(chans')
    <3>1. PICK k \in DOMAIN chans : chans[k] = c
      BY DEF Listed
    <3>2. k \in 1..Len(chans) /\ Position(chans, c) = k
      BY <1>1, <3>1, PositionFound
    <3> QED BY <1>1, <2>3, <3>2, RemoveUnique DEF Removed
  <2>4. ASSUME chans' = <<>>
        PROVE  chans' \in Seq(Channels) /\ Unique(chans')
    BY <2>4 DEF Unique
  <2>5. ASSUME UNCHANGED chans
        PROVE  chans' \in Seq(Channels) /\ Unique(chans')
    BY <1>1, <2>5
  <2> QED BY <2>1, <2>2, <2>3, <2>4, <2>5 DEF Moves, Edits
<1>4. Moves \/ Quiet \/ Queues \/ Takes => eventq' \in Seq(Events)
  <2>1. ASSUME NEW e \in Events, eventq' = Append(eventq, e)
        PROVE  eventq' \in Seq(Events)
    BY <1>1, <2>1
  <2>2. CASE Moves
    <3>1. \A id, t \in Channels : Event("CHAN_MOVE", id, t) \in Events
      BY EventTyped DEF EventRecord, EventTypes, Places
    <3> QED BY <1>1, <2>1, <2>2, <3>1 DEF Moves, Quiet
  <2>3. CASE Takes
    BY <1>1, <2>3 DEF Takes
  <2> QED BY <1>1, <2>1, <2>2, <2>3 DEF Quiet, Queues
<1> QED BY <1>2, <1>3, <1>4 DEF ListInv, EventStays, PlaceStays

LEMMA MoveIsRight ==
  ASSUME ListInv, [Next]_vars, NEW c \in Channels, NEW t \in Channels, c # t,
         eventq' = Append(eventq, Event("CHAN_MOVE", c, t))
  PROVE  /\ Others(chans', c) = Others(chans, c)
         /\ Len(chans') = Len(chans)
         /\ Position(chans', c) + 1 = Position(chans', t)
<1> DEFINE e == Event("CHAN_MOVE", c, t)
<1>1. chans \in Seq(Channels) /\ Unique(chans) /\ eventq \in Seq(Events)
  BY DEF ListInv
<1>2. \A id, d \in Channels : Event("CHAN_MOVE", id, d) \in Events
  BY EventTyped DEF EventRecord, EventTypes, Places
<1>3. e \in Events /\ e.type = "CHAN_MOVE"
  BY <1>2 DEF Event
<1>4. ~Quiet /\ ~Takes /\ ~Queues
  BY <1>1, <1>3, AppendOnce DEF Quiet, Takes, Queues
<1>5. Moves
  BY <1>4, StepKinds
<1>6. PICK id \in Channels, d \in Channels :
        /\ chans' = MoveBefore(chans, id, d)
        /\ {id, d} \subseteq Listed
        /\ eventq' = Append(eventq, Event("CHAN_MOVE", id, d))
  BY <1>4, <1>5 DEF Moves
<1>7. Event("CHAN_MOVE", id, d) = e
  BY <1>1, <1>2, <1>3, <1>6, AppendOnce
<1>8. id = c /\ d = t
  BY <1>7 DEF Event
<1>9. Position(chans, c) # 0 /\ Position(chans, t) # 0
  <2>1. ASSUME NEW x \in Listed
        PROVE  Position(chans, x) # 0
    <3>1. PICK k \in DOMAIN chans : chans[k] = x
      BY DEF Listed
    <3> QED BY <1>1, <3>1, PositionFound
  <2> QED BY <1>6, <1>8, <2>1
<1> QED BY <1>1, <1>6, <1>8, <1>9, MoveFacts

\* However long the list, the surgery on it for a 0x3b moves that channel, and
\* that one only, to where the packet says.
THEOREM MoveSafe == Spec => MovedBefore
<1>1. Init => ListInv
  <2> SUFFICES ASSUME Init PROVE ListInv
    OBVIOUS
  <2>1. NoEvent \in Events /\ NoEvent.type # "CHAN_MOVE"
    BY DEF NoEvent, Events, EventTypes, Places
  <2>2. chans = <<>> /\ eventq = <<>> /\ event = NoEvent /\ place = [u \in Users |-> Away]
    BY DEF Init
  <2>3. chans \in Seq(Channels) /\ Unique(chans) /\ eventq \in Seq(Events)
    BY <2>2 DEF Unique
  <2> QED BY <2>1, <2>2, <2>3 DEF ListInv
<1>2. ListInv /\ [Next]_vars => ListInv'
  BY ListKept
<1>3. ListInv /\ [Next]_vars
        => [\A c, t \in Channels :
              eventq' = Append(eventq, Event("CHAN_MOVE", c, t)) /\ c # t
                => /\ Others(chans', c) = Others(chans, c)
                   /\ Len(chans') = Len(chans)
                   /\ Position(chans', c) + 1 = Position(chans', t)]_<<eventq, chans>>
  BY MoveIsRight
<1> QED BY <1>1, <1>2, <1>3, PTL DEF Spec, MovedBefore
-----------------------------------------------------------------------------
(* The events the GUI has not taken yet, and the types of all variables.   *)

\* The events the GUI has not taken yet, the one about to be queued included.
Pending == IF at = "tell" THEN Append(eventq, Queued(event)) ELSE eventq

EventIds ==
  \A j \in DOMAIN Pending :
    /\ Pending[j].type \in {"CHAN_ADD", "CHAN_MODIFY"} => Pending[j].id \in Channels
    /\ Pending[j].type = "CHAN_REMOVE" => Pending[j].id \in Places
    /\ Pending[j].type \in {"USER_LOGIN", "USER_LOGOUT", "USER_CHAN_MOVE"} => Pending[j].id \in Users
    /\ Pending[j].type \in {"USER_LOGOUT", "CHAN_REMOVE", "CHAN_MODIFY"} => loggedin \/ at = "offline"
    /\ Pending[j].type = "DISCONNECT" => at \in {"close", "offline"} /\ j = Len(Pending)

TypeInv == ListInv /\ TypeOK /\ EventIds

\* What a step of the network thread puts behind the pending events.
Grows(e) == e \in Events /\ Pending' = Append(Pending, e)
\* What the GUI takes.
Taken == /\ eventq # <<>> /\ Pending # <<>> /\ Head(Pending) = Head(eventq)
         /\ Pending' = Tail(Pending) /\ at' = at

LEMMA PendingTyped ==
  ASSUME ListInv
  PROVE  Pending \in Seq(Events) /\ Len(Pending) \in Nat /\ DOMAIN Pending = 1..Len(Pending)
<1>1. eventq \in Seq(Events) /\ event \in Events
  BY DEF ListInv
<1>2. Queued(event) \in Events
  BY <1>1, QueuedIs
<1>3. Pending \in Seq(Events)
  BY <1>1, <1>2 DEF Pending
<1> QED
  BY <1>3

LEMMA GuiTakes ==
  ASSUME ListInv, GuiEvent
  PROVE  Taken
<1>1. eventq \in Seq(Events) /\ event \in Events
  BY DEF ListInv
<1>2. /\ eventq # <<>> /\ eventq' = Tail(eventq) /\ at' = at
      /\ Queued(event) \in Events /\ Queued(event)' = Queued(event)
  BY <1>1, QueuedIs DEF GuiEvent, netVars, listVars, Queued
<1>3. CASE at # "tell"
  BY <1>2, <1>3 DEF Taken, Pending
<1>4. CASE at = "tell"
  <2>1. PICK q \in Seq(Events), e \in Events : q = eventq /\ e = Queued(event)
    BY <1>1, <1>2
  <2>2. /\ Append(q, e) # <<>> /\ Head(Append(q, e)) = Head(q)
        /\ Tail(Append(q, e)) = Append(Tail(q), e)
    <3>1. q # <<>>
      BY <1>2, <2>1
    <3>2. /\ Append(q, e) \in Seq(Events) /\ Len(Append(q, e)) = Len(q) + 1
          /\ \A j \in 1..Len(q) : Append(q, e)[j] = q[j]
          /\ Append(q, e)[Len(q) + 1] = e
      OBVIOUS
    <3>3. Len(q) \in Nat /\ Len(q) >= 1 /\ 1 \in 1..Len(q)
      BY <3>1
    <3>4. Head(Append(q, e)) = Head(q)
      BY <3>2, <3>3
    <3>5. Tail(q) \in Seq(Events) /\ Len(Tail(q)) = Len(q) - 1 /\ \A j \in 1..(Len(q) - 1) : Tail(q)[j] = q[j + 1]
      BY <3>1, <3>3
    <3>6. PICK t \in Seq(Events) : t = Tail(q)
      BY <3>5
    <3>7. PICK a \in Seq(Events) : a = Append(q, e)
      BY <3>2
    <3>8. /\ Tail(a) \in Seq(Events) /\ Len(Tail(a)) = Len(q)
          /\ \A j \in 1..Len(q) : Tail(a)[j] = a[j + 1]
      BY <3>2, <3>3, <3>7
    <3>9. /\ Append(t, e) \in Seq(Events) /\ Len(Append(t, e)) = Len(q)
          /\ \A j \in 1..(Len(q) - 1) : Append(t, e)[j] = t[j]
          /\ Append(t, e)[Len(q)] = e
      BY <3>3, <3>5, <3>6
    <3>10. ASSUME NEW j \in 1..Len(q) PROVE Tail(a)[j] = Append(t, e)[j]
      <4>1. CASE j = Len(q)
        BY <3>2, <3>7, <3>8, <3>9, <4>1
      <4>2. CASE j \in 1..(Len(q) - 1)
        <5>1. j + 1 \in 1..Len(q)
          BY <3>3, <4>2
        <5> QED
          BY <3>2, <3>5, <3>6, <3>7, <3>8, <3>9, <4>2, <5>1
      <4>3. j = Len(q) \/ j \in 1..(Len(q) - 1)
        BY <3>3
      <4> QED
        BY <4>1, <4>2, <4>3
    <3>11. Tail(a) = Append(t, e)
      BY <3>8, <3>9, <3>10, SeqEqual
    <3>12. a # <<>>
      <4>1. Len(a) # 0
        BY <3>2, <3>3, <3>7
      <4> QED
        BY <3>7, <4>1
    <3> QED
      BY <3>4, <3>6, <3>7, <3>11, <3>12, Zenon
  <2> QED
    BY <1>2, <1>4, <2>1, <2>2 DEF Taken, Pending
<1> QED
  BY <1>3, <1>4

LEMMA TakenFacts ==
  ASSUME ListInv, Taken
  PROVE  /\ Len(Pending) >= 1 /\ Len(Pending)' = Len(Pending) - 1
         /\ Head(eventq) = Pending[1] /\ 1 \in DOMAIN Pending
         /\ DOMAIN Pending' = 1..(Len(Pending) - 1)
         /\ \A j \in 1..(Len(Pending) - 1) : Pending'[j] = Pending[j + 1]
<1>1. PICK q \in Seq(Events) : q = Pending
  BY PendingTyped
<1>2. q # <<>> /\ Head(q) = Head(eventq) /\ Pending' = Tail(q)
  BY <1>1 DEF Taken
<1>3. Len(q) \in Nat /\ Len(q) >= 1 /\ Head(q) = q[1] /\ DOMAIN q = 1..Len(q)
  BY <1>2
<1>4. PICK t \in Seq(Events) : t = Tail(q)
  BY <1>2
<1>5. Len(t) = Len(q) - 1 /\ DOMAIN t = 1..(Len(q) - 1) /\ \A j \in 1..(Len(q) - 1) : t[j] = q[j + 1]
  BY <1>2, <1>3, <1>4
<1> QED
  BY <1>1, <1>2, <1>3, <1>4, <1>5

LEMMA GrowsFacts ==
  ASSUME ListInv, NEW e, Grows(e)
  PROVE  /\ Len(Pending)' = Len(Pending) + 1
         /\ DOMAIN Pending' = 1..(Len(Pending) + 1)
         /\ \A j \in 1..Len(Pending) : Pending'[j] = Pending[j]
         /\ Pending'[Len(Pending) + 1] = e
<1>1. PICK q \in Seq(Events) : q = Pending
  BY PendingTyped
<1>2. e \in Events /\ Pending' = Append(q, e)
  BY <1>1 DEF Grows
<1> QED
  BY <1>1, <1>2

\* What each step does to the pending events.
LEMMA TellGrows ==
  ASSUME Tell PROVE Pending' = Pending
  BY DEF Tell, Pending
LEMMA PacketGrows ==
  ASSUME ListInv, at = "idle", NEW e \in Events, Then(e), eventq' = eventq,
         NEW f \in Events, Queued(e)' = f
  PROVE  Grows(f)
<1>1. Queued(event)' = Queued(e)'
  BY DEF Then, Queued
<1> QED
  BY <1>1 DEF Then, Grows, Pending
LEMMA QueuedPlain ==
  ASSUME NEW e \in Events, chans' # <<>> \/ (e.channel = Lobby /\ e.type # "CHAN_REMOVE")
  PROVE  Queued(e)' = e
<1>1. e = [type |-> e.type, id |-> e.id, channel |-> e.channel]
  BY DEF Events
<1> QED
  BY <1>1 DEF Queued, Event
LEMMA QueuedNext ==
  ASSUME NEW e \in Events
  PROVE  /\ Queued(e)' \in Events /\ Queued(e)'.type = e.type
         /\ e.type # "CHAN_REMOVE" => Queued(e)'.id = e.id
         /\ e.type = "CHAN_REMOVE" /\ chans' = <<>> => Queued(e)'.id = Lobby
<1>1. /\ e = [type |-> e.type, id |-> e.id, channel |-> e.channel]
      /\ e.type \in EventTypes /\ e.id \in Users \cup Places /\ e.channel \in Places /\ Lobby \in Places
  BY DEF Events, Places
<1>2. chans' # <<>> => Queued(e)' = e
  BY DEF Queued
<1> DEFINE id == IF e.type = "CHAN_REMOVE" THEN Lobby ELSE e.id
<1>3. chans' = <<>> => Queued(e)' = [type |-> e.type, id |-> id, channel |-> Lobby]
  BY <1>1 DEF Queued, Event
<1>4. [type |-> e.type, id |-> id, channel |-> Lobby] \in Events
  BY <1>1 DEF Events
<1> QED
  BY <1>1, <1>2, <1>3, <1>4
LEMMA ListedSome ==
  ASSUME NEW c \in Places, InTree(c), c # Lobby
  PROVE  chans # <<>>
<1>1. PICK up \in SUBSET Listed : c \in up
  BY DEF InTree
<1> QED
  BY <1>1 DEF Listed
LEMMA QueueGrows ==
  ASSUME ListInv, at = "idle", at' # "tell", NEW e \in Events, eventq' = Append(eventq, e) PROVE Grows(e)
  BY DEF Grows, Pending
LEMMA EventIn ==
  ASSUME NEW type \in EventTypes, NEW id \in Users \cup Places, NEW c \in Places
  PROVE  /\ Event(type, id, c) \in Events /\ Event(type, id, c).type = type
         /\ Event(type, id, c).id = id /\ Event(type, id, c).channel = c
  BY DEF Event, Events

About(types, e, ids) == e.type \in types => e.id \in ids
GoodIds(e) == /\ About({"CHAN_ADD", "CHAN_MODIFY"}, e, Channels)
              /\ About({"CHAN_REMOVE"}, e, Places)
              /\ About({"USER_LOGIN", "USER_LOGOUT", "USER_CHAN_MOVE"}, e, Users)
ChangeTypes == {"USER_LOGOUT", "CHAN_REMOVE", "CHAN_MODIFY"}

LEMMA IdsGrow ==
  ASSUME ListInv, EventIds, NEW e, Grows(e), GoodIds(e), at \notin {"close", "offline"},
         e.type \in ChangeTypes => loggedin, loggedin => loggedin',
         e.type = "DISCONNECT" => at' = "close"
  PROVE  EventIds'
<1>1. /\ Len(Pending)' = Len(Pending) + 1 /\ Len(Pending) \in Nat
      /\ DOMAIN Pending' = 1..(Len(Pending) + 1) /\ DOMAIN Pending = 1..Len(Pending)
      /\ \A j \in 1..Len(Pending) : Pending'[j] = Pending[j]
      /\ Pending'[Len(Pending) + 1] = e
  BY GrowsFacts, PendingTyped
<1>2. ASSUME NEW j \in DOMAIN Pending'
      PROVE  /\ Pending'[j].type \in {"CHAN_ADD", "CHAN_MODIFY"} => Pending'[j].id \in Channels
             /\ Pending'[j].type = "CHAN_REMOVE" => Pending'[j].id \in Places
             /\ Pending'[j].type \in {"USER_LOGIN", "USER_LOGOUT", "USER_CHAN_MOVE"} => Pending'[j].id \in Users
             /\ Pending'[j].type \in {"USER_LOGOUT", "CHAN_REMOVE", "CHAN_MODIFY"} => loggedin' \/ at' = "offline"
             /\ Pending'[j].type = "DISCONNECT" => at' \in {"close", "offline"} /\ j = Len(Pending)'
  <2>1. CASE j \in 1..Len(Pending)
    <3>1. j \in DOMAIN Pending /\ Pending'[j] = Pending[j]
      BY <1>1, <2>1
    <3> QED
      BY <3>1 DEF EventIds
  <2>2. CASE j = Len(Pending) + 1
    BY <1>1, <2>2 DEF GoodIds, About, ChangeTypes
  <2> QED
    BY <1>1, <2>1, <2>2
<1> QED
  BY <1>2 DEF EventIds

LEMMA IdsSame ==
  ASSUME EventIds, Pending' = Pending, loggedin => loggedin', at \notin {"close", "offline"}
  PROVE  EventIds'
  BY DEF EventIds

LEMMA IdsTaken ==
  ASSUME ListInv, EventIds, Taken, loggedin' = loggedin
  PROVE  EventIds'
<1>1. /\ Len(Pending) >= 1 /\ Len(Pending)' = Len(Pending) - 1 /\ Len(Pending) \in Nat
      /\ DOMAIN Pending' = 1..(Len(Pending) - 1) /\ DOMAIN Pending = 1..Len(Pending)
      /\ \A j \in 1..(Len(Pending) - 1) : Pending'[j] = Pending[j + 1]
  BY TakenFacts, PendingTyped
<1>2. ASSUME NEW j \in DOMAIN Pending'
      PROVE  /\ Pending'[j].type \in {"CHAN_ADD", "CHAN_MODIFY"} => Pending'[j].id \in Channels
             /\ Pending'[j].type = "CHAN_REMOVE" => Pending'[j].id \in Places
             /\ Pending'[j].type \in {"USER_LOGIN", "USER_LOGOUT", "USER_CHAN_MOVE"} => Pending'[j].id \in Users
             /\ Pending'[j].type \in {"USER_LOGOUT", "CHAN_REMOVE", "CHAN_MODIFY"} => loggedin' \/ at' = "offline"
             /\ Pending'[j].type = "DISCONNECT" => at' \in {"close", "offline"} /\ j = Len(Pending)'
  <2>1. j + 1 \in DOMAIN Pending /\ Pending'[j] = Pending[j + 1] /\ j \in Nat
    BY <1>1
  <2>2. at' = at
    BY DEF Taken
  <2> QED
    BY <1>1, <2>1, <2>2 DEF EventIds
<1> QED
  BY <1>2 DEF EventIds

\* What a step of the network thread does to the flag and to its place, and
\* which event it queues.
LEMMA NetworkIds ==
  ASSUME TypeInv, Network
  PROVE  EventIds'
<1>1. ListInv /\ EventIds /\ TypeOK
  BY DEF TypeInv
<1>2. /\ Channels \subseteq Users \cup Places /\ Users \subseteq Users \cup Places
      /\ Channels \subseteq Places /\ Lobby \in Places /\ Lobby \in Users \cup Places
      /\ Listed \subseteq Channels
  BY <1>1 DEF Places, Listed, TypeOK
<1>3. CASE Tell
  BY <1>1, <1>3, TellGrows, IdsSame DEF Tell
<1>4. CASE AddChannel
  <2>1. PICK c \in Channels : Then(Event("CHAN_ADD", c, c))
    BY <1>4 DEF AddChannel
  <2>2. PICK e \in Events : e = Event("CHAN_ADD", c, c) /\ e.type = "CHAN_ADD" /\ e.id = c
    BY <1>2, EventIn DEF EventTypes
  <2>3. Grows(e)
    <3>1. chans' # <<>>
      BY <1>1, <1>4 DEF AddChannel, ListInv
    <3>2. Queued(e)' = e
      BY <2>2, <3>1, QueuedPlain
    <3> QED
      BY <1>1, <1>4, <2>1, <2>2, <3>2, PacketGrows DEF AddChannel, Packet
  <2> QED
    BY <1>1, <1>4, <2>2, <2>3, IdsGrow DEF AddChannel, Packet, GoodIds, About, ChangeTypes
<1>5. CASE ModifyChannel
  <2>1. PICK c \in Listed : Then(Event("CHAN_MODIFY", c, c))
    BY <1>5 DEF ModifyChannel
  <2>2. PICK e \in Events : e = Event("CHAN_MODIFY", c, c) /\ e.type = "CHAN_MODIFY" /\ e.id = c
    BY <1>2, EventIn DEF EventTypes
  <2>3. Grows(e)
    <3>1. chans' # <<>>
      BY <1>5, <2>1 DEF ModifyChannel, listVars, Listed
    <3>2. Queued(e)' = e
      BY <2>2, <3>1, QueuedPlain
    <3> QED
      BY <1>1, <1>5, <2>1, <2>2, <3>2, PacketGrows DEF ModifyChannel, Change, Packet
  <2> QED
    BY <1>1, <1>2, <1>5, <2>2, <2>3, IdsGrow DEF ModifyChannel, Change, Packet, GoodIds, About, ChangeTypes
<1>6. CASE RemoveChannel
  <2>1. PICK c \in Listed : Then(Event("CHAN_REMOVE", c, c))
    BY <1>6 DEF RemoveChannel
  <2>2. PICK e \in Events : e = Event("CHAN_REMOVE", c, c) /\ e.type = "CHAN_REMOVE" /\ e.id = c
    BY <1>2, EventIn DEF EventTypes
  <2>3. PICK f \in Events : f = Queued(e)' /\ f.type = "CHAN_REMOVE" /\ (f = e \/ f.id = Lobby)
    BY <2>2, QueuedNext, QueuedPlain
  <2>4. Grows(f)
    BY <1>1, <1>6, <2>1, <2>2, <2>3, PacketGrows DEF RemoveChannel, Change, Packet
  <2> QED
    BY <1>1, <1>2, <1>6, <2>2, <2>3, <2>4, IdsGrow DEF RemoveChannel, Change, Packet, GoodIds, About, ChangeTypes
<1>7. CASE MoveChannel
  <2>1. PICK c \in Channels, t \in Channels :
          eventq' = eventq \/ eventq' = Append(eventq, Event("CHAN_MOVE", c, t))
    BY <1>7 DEF MoveChannel
  <2>2. PICK e \in Events : e = Event("CHAN_MOVE", c, t) /\ e.type = "CHAN_MOVE"
    BY <1>2, EventIn DEF EventTypes
  <2>3. at = "idle" /\ at' = at /\ loggedin' = loggedin
    BY <1>7 DEF MoveChannel, Packet, netVars
  <2>4. CASE eventq' = eventq
    <3>1. Pending' = Pending
      BY <2>3, <2>4 DEF Pending
    <3> QED
      BY <1>1, <2>3, <3>1, IdsSame
  <2>5. CASE eventq' = Append(eventq, e)
    <3>1. Grows(e)
      BY <1>1, <2>2, <2>3, <2>5, QueueGrows
    <3> QED
      BY <1>1, <2>2, <2>3, <3>1, IdsGrow DEF GoodIds, About, ChangeTypes
  <2> QED
    BY <2>1, <2>2, <2>4, <2>5
<1>8. CASE UserLogin
  <2>1. PICK u \in Users, c \in Places : Then(Event("USER_LOGIN", u, c))
    BY <1>8 DEF UserLogin
  <2>2. PICK e \in Events : e = Event("USER_LOGIN", u, c) /\ e.type = "USER_LOGIN" /\ e.id = u
    BY <1>2, EventIn DEF EventTypes
  <2>3. Grows(Queued(e)')
    BY <1>1, <1>8, <2>1, <2>2, QueuedNext, PacketGrows DEF UserLogin, Packet
  <2>4. Queued(e)' \in Events /\ Queued(e)'.type = "USER_LOGIN" /\ Queued(e)'.id = u
    BY <2>2, QueuedNext
  <2> QED
    BY <1>1, <1>8, <2>3, <2>4, IdsGrow DEF UserLogin, Packet, GoodIds, About, ChangeTypes
<1>9. CASE UserLogout
  <2>1. PICK u \in Users : place[u] # Away /\ Then(Event("USER_LOGOUT", u, place[u]))
    BY <1>9 DEF UserLogout
  <2>2. PICK c \in Places : c = place[u]
    BY <1>1, <2>1 DEF TypeOK
  <2>3. PICK e \in Events : e = Event("USER_LOGOUT", u, c) /\ e.type = "USER_LOGOUT" /\ e.id = u
    BY <1>2, EventIn DEF EventTypes
  <2>4. Grows(Queued(e)')
    BY <1>1, <1>9, <2>1, <2>2, <2>3, QueuedNext, PacketGrows DEF UserLogout, Change, Packet
  <2>5. Queued(e)' \in Events /\ Queued(e)'.type = "USER_LOGOUT" /\ Queued(e)'.id = u
    BY <2>3, QueuedNext
  <2> QED
    BY <1>1, <1>9, <2>4, <2>5, IdsGrow DEF UserLogout, Change, Packet, GoodIds, About, ChangeTypes
<1>10. CASE MoveUser
  <2>1. PICK u \in Users, c \in Places : Then(Event("USER_CHAN_MOVE", u, c))
    BY <1>10 DEF MoveUser
  <2>2. PICK e \in Events : e = Event("USER_CHAN_MOVE", u, c) /\ e.type = "USER_CHAN_MOVE" /\ e.id = u
    BY <1>2, EventIn DEF EventTypes
  <2>3. Grows(Queued(e)')
    BY <1>1, <1>10, <2>1, <2>2, QueuedNext, PacketGrows DEF MoveUser, Change, Packet
  <2>4. Queued(e)' \in Events /\ Queued(e)'.type = "USER_CHAN_MOVE" /\ Queued(e)'.id = u
    BY <2>2, QueuedNext
  <2> QED
    BY <1>1, <1>10, <2>3, <2>4, IdsGrow DEF MoveUser, Change, Packet, GoodIds, About, ChangeTypes
<1>11. CASE LoginComplete
  <2>1. PICK e \in Events : e = Event("LOGIN_COMPLETE", Lobby, Lobby) /\ e.type = "LOGIN_COMPLETE"
    BY <1>2, EventIn DEF EventTypes
  <2>2. Grows(e)
    BY <1>1, <1>11, <2>1, QueueGrows DEF LoginComplete, Packet
  <2> QED
    BY <1>1, <1>11, <2>1, <2>2, IdsGrow DEF LoginComplete, Packet, GoodIds, About, ChangeTypes
<1>12. CASE Disconnect
  <2>1. NoEvent \in Events /\ NoEvent.type = "DISCONNECT"
    BY <1>2 DEF NoEvent, Events, EventTypes
  <2>2. Grows(NoEvent)
    BY <1>1, <1>12, <2>1, QueueGrows DEF Disconnect
  <2> QED
    BY <1>1, <1>12, <2>1, <2>2, IdsGrow DEF Disconnect, GoodIds, About, ChangeTypes
<1>13. CASE DestroyLists
  <2>1. Pending' = Pending /\ at' = "offline"
    BY <1>13 DEF DestroyLists, Pending
  <2> QED
    BY <1>1, <2>1 DEF EventIds
<1> QED
  BY <1>3, <1>4, <1>5, <1>6, <1>7, <1>8, <1>9, <1>10, <1>11, <1>12, <1>13 DEF Network

LEMMA ShownTyped ==
  ASSUME TypeOK, NEW e \in Events, GoodIds(e)
  PROVE  Shown(e) \subseteq Rows /\ Missed(e) \subseteq Channels
<1>1. rows \subseteq Rows /\ Listed \subseteq Channels
  BY DEF TypeOK, Listed
<1>2. \A x \in Users \cup Channels, p \in Places \cup {Away} : [id |-> x, under |-> p] \in Rows
  BY DEF Rows
<1>3. e.channel \in Places /\ e.id \in Users \cup Places
  BY DEF Events
<1>4. \A u : WithoutUser(u) \subseteq Rows
  BY <1>1 DEF WithoutUser
<1>5. \A rest \in SUBSET Rows, u \in Users, c \in Places : UserAdded(rest, u, c) \subseteq Rows
  BY <1>2 DEF UserAdded
<1>6. \A c \in Listed : ChannelAdded(c) \subseteq Rows
  <2>1. ASSUME NEW c \in Listed PROVE ChannelAdded(c) \subseteq Rows
    <3>1. c \in Channels /\ parent[c] \in Places \cup {Away}
      BY <1>1 DEF TypeOK
    <3>2. (IF HasRow(parent[c]) THEN parent[c] ELSE Away) \in Places \cup {Away}
      BY <3>1
    <3> QED
      BY <1>1, <1>2, <3>1, <3>2 DEF ChannelAdded
  <2> QED
    BY <2>1
<1>7. Erased(e.id) \subseteq Rows
  BY <1>1 DEF Erased
<1>8. e.type \in {"USER_LOGIN", "USER_CHAN_MOVE"} => e.id \in Users
  BY DEF GoodIds, About
<1>9. e.type = "USER_CHAN_MOVE" => UserMoved(e.id, e.channel) \subseteq Rows
  BY <1>3, <1>4, <1>5, <1>8 DEF UserMoved
<1>10. Shown(e) \subseteq Rows
  BY <1>1, <1>3, <1>4, <1>5, <1>6, <1>7, <1>8, <1>9 DEF Shown
<1> QED
  BY <1>1, <1>10 DEF Missed

LEMMA TypeKept ==
  ASSUME TypeInv, [Next]_vars
  PROVE  TypeInv'
<1>1. ListInv /\ EventIds /\ TypeOK
  BY DEF TypeInv
<1>2. ListInv'
  BY <1>1, ListKept
<1>3. CASE UNCHANGED vars
  <2>1. Pending' = Pending
    BY <1>3 DEF vars, netVars, listVars, Pending, Queued
  <2>2. EventIds'
    BY <1>1, <1>3, <2>1 DEF EventIds, vars, netVars
  <2>3. TypeOK'
    BY <1>1, <1>3 DEF TypeOK, vars, listVars, netVars, guiVars
  <2> QED
    BY <1>2, <2>2, <2>3 DEF TypeInv
<1>4. CASE Network
  <2>1. /\ loggedin' \in BOOLEAN /\ at' \in {"idle", "tell", "close", "offline"}
        /\ rows' = rows /\ unfound' = unfound /\ lobby' = lobby
    BY <1>1, <1>4
       DEF Network, Tell, AddChannel, ModifyChannel, RemoveChannel, MoveChannel, UserLogin,
           UserLogout, MoveUser, LoginComplete, Disconnect, DestroyLists, Change, Then, netVars,
           guiVars, TypeOK
  <2>2. adds' \in Nat /\ steps' \in Nat
    BY <1>1, <1>4
       DEF Network, Tell, AddChannel, ModifyChannel, RemoveChannel, MoveChannel, UserLogin,
           UserLogout, MoveUser, LoginComplete, Disconnect, DestroyLists, Change, TypeOK
  <2>3. past' \in SUBSET Channels
    BY <1>1, <1>4
       DEF Network, Tell, AddChannel, ModifyChannel, RemoveChannel, MoveChannel, UserLogin,
           UserLogout, MoveUser, LoginComplete, Disconnect, DestroyLists, TypeOK, Listed
  <2>4. parent' \in [Channels -> Places \cup {Away}]
    <3>1. CASE UNCHANGED parent
      BY <1>1, <3>1 DEF TypeOK
    <3>2. CASE \E c \in Channels, p \in Places \cup {Away} : parent' = [parent EXCEPT ![c] = p]
      BY <1>1, <3>2 DEF TypeOK
    <3>3. CASE parent' = [c \in Channels |-> Away]
      BY <3>3
    <3>4. Listed \subseteq Channels
      BY <1>1 DEF TypeOK, Listed
    <3> QED
      BY <1>4, <3>1, <3>2, <3>3, <3>4
         DEF Network, Tell, AddChannel, ModifyChannel, RemoveChannel, MoveChannel, UserLogin,
             UserLogout, MoveUser, LoginComplete, Disconnect, DestroyLists, listVars
  <2>5. TypeOK'
    BY <1>1, <1>2, <2>1, <2>2, <2>3, <2>4 DEF TypeOK, ListInv
  <2>6. EventIds'
    BY <1>4, NetworkIds
  <2> QED
    BY <1>2, <2>5, <2>6 DEF TypeInv
<1>5. CASE GuiEvent
  <2>1. Taken /\ loggedin' = loggedin
    BY <1>1, <1>5, GuiTakes DEF GuiEvent, netVars
  <2>2. EventIds'
    BY <1>1, <2>1, IdsTaken
  <2>3. PICK e \in Events : e = Head(eventq)
    BY <1>1, <1>5 DEF ListInv, GuiEvent
  <2>4. GoodIds(e)
    <3>1. e = Pending[1] /\ 1 \in DOMAIN Pending
      BY <1>1, <2>1, <2>3, TakenFacts
    <3> QED
      BY <1>1, <3>1 DEF EventIds, GoodIds, About
  <2>5. rows' = Shown(e) /\ unfound' = unfound \cup Missed(e)
    BY <1>5, <2>3 DEF GuiEvent
  <2>6. rows' \subseteq Rows /\ unfound' \subseteq Channels
    BY <1>1, <2>4, <2>5, ShownTyped DEF TypeOK
  <2>7. lobby' \in BOOLEAN
    BY <1>1, <1>5 DEF GuiEvent, TypeOK
  <2>8. TypeOK'
    BY <1>1, <1>2, <1>5, <2>6, <2>7 DEF TypeOK, ListInv, GuiEvent, listVars, netVars
  <2> QED
    BY <1>2, <2>2, <2>8 DEF TypeInv
<1> QED
  BY <1>3, <1>4, <1>5 DEF Next

LEMMA InitTyped ==
  ASSUME Init PROVE TypeInv
<1>1. NoEvent \in Events /\ NoEvent.type # "CHAN_MOVE"
  BY DEF NoEvent, Events, EventTypes, Places
<1>2. /\ chans = <<>> /\ eventq = <<>> /\ event = NoEvent /\ place = [u \in Users |-> Away]
      /\ at = "idle"
  BY DEF Init
<1>3. ListInv
  BY <1>1, <1>2 DEF ListInv, Unique
<1>4. TypeOK
  <2>1. /\ parent = [c \in Channels |-> Away] /\ loggedin = FALSE /\ rows = {} /\ lobby = TRUE
        /\ adds = 0 /\ steps = 0 /\ past = {} /\ unfound = {}
    BY DEF Init
  <2>2. parent \in [Channels -> Places \cup {Away}]
    BY <2>1
  <2>3. chans \in Seq(Channels) /\ eventq \in Seq(Events) /\ event \in Events
    BY <1>3 DEF ListInv
  <2>4. place \in [Users -> Places \cup {Away}]
    BY <1>3 DEF ListInv
  <2> QED
    BY <1>2, <2>1, <2>2, <2>3, <2>4 DEF TypeOK
<1>5. Pending = <<>>
  BY <1>2 DEF Pending
<1>6. EventIds
  BY <1>5 DEF EventIds
<1> QED
  BY <1>3, <1>4, <1>6 DEF TypeInv
-----------------------------------------------------------------------------
(* What the pending events say about each channel and each user, and what  *)
(* the rows of the GUI show of it: the invariant of the tree.              *)

\* Where the events of these types about x are among the pending ones.
Where(types, x) == {j \in DOMAIN Pending : Pending[j].type \in types /\ Pending[j].id = x}
Adds(c)     == Where({"CHAN_ADD"}, c)
Removes(c)  == Where({"CHAN_REMOVE"}, c)
Logins(u)   == Where({"USER_LOGIN"}, u)
Comes(u)    == Where({"USER_LOGIN", "USER_CHAN_MOVE"}, u)
Goes(u)     == Where({"USER_LOGOUT"}, u)
End         == Len(Pending) + 1

\* What comes and goes by these events has no row before the k-th one; has says
\* whether it has one now.
Clear(coming, going, k, has) ==
  \/ \E j \in going : j < k /\ \A i \in coming : ~(j < i /\ i < k)
  \/ (\A i \in coming : ~(i < k)) /\ ~has

\* After every event in s there is one in t.
Overtaken(s, t) == \A j \in s : \E k \in t : j < k

Drawn(x) == \E r \in rows : r.id = x
Hangs(x, p) == Drawn(x) /\ \A r \in rows : r.id = x => r.under = p

\* A channel: when it comes back its row has gone; its last event, if it is on
\* the list, is the one that adds it, and comes after the one that adds its
\* parent; without such an event its row is where it should be.
ChannelStory(c) ==
  /\ c \notin Listed => Clear(Adds(c), Removes(c), End, Drawn(c))
  /\ \A k \in Adds(c) : Clear(Adds(c), Removes(c), k, Drawn(c))
  /\ c \in Listed => Overtaken(Removes(c), Adds(c))
  /\ \A p \in Channels : c \in Listed /\ parent[c] = p => Overtaken(Adds(p), Adds(c))
  /\ \A p \in Places : c \in Listed /\ InTree(c) /\ Adds(c) = {} /\ parent[c] = p => Hangs(c, p)

\* A user, likewise; the last of the events that bring him somewhere names the
\* channel he is in.
UserStory(u) ==
  /\ place[u] = Away => Clear(Comes(u), Goes(u), End, Drawn(u))
  /\ \A k \in Logins(u) : Clear(Comes(u), Goes(u), k, Drawn(u))
  /\ place[u] # Away =>
       /\ Overtaken(Goes(u), Comes(u))
       /\ \A k \in Comes(u) : (\A j \in Comes(u) : ~(k < j)) => Pending[k].channel = place[u]
  /\ \A p \in Channels : place[u] = p => Overtaken(Adds(p), Comes(u))
  /\ \A p \in Places : place[u] = p /\ InTree(p) /\ Comes(u) = {} => Hangs(u, p)

Story == (\A c \in Channels : ChannelStory(c)) /\ (\A u \in Users : UserStory(u))

LEMMA WhereRange ==
  ASSUME ListInv, NEW types, NEW x, NEW j \in Where(types, x)
  PROVE  j \in 1..Len(Pending) /\ j \in Nat
  BY PendingTyped DEF Where

LEMMA WhereGrows ==
  ASSUME ListInv, NEW e, Grows(e), NEW types, NEW x
  PROVE  \A j : j \in Where(types, x)' <=>
                 (j \in Where(types, x) \/ (j = End /\ e.type \in types /\ e.id = x))
<1>1. /\ DOMAIN Pending' = 1..(Len(Pending) + 1) /\ Len(Pending) \in Nat
      /\ DOMAIN Pending = 1..Len(Pending)
      /\ \A j \in 1..Len(Pending) : Pending'[j] = Pending[j]
      /\ Pending'[Len(Pending) + 1] = e
  BY GrowsFacts, PendingTyped
<1>2. ASSUME NEW j \in 1..Len(Pending) PROVE j \in DOMAIN Pending' /\ j \in DOMAIN Pending /\ j # End
  BY <1>1 DEF End
<1>3. \A j : j \in DOMAIN Pending' <=> j \in 1..Len(Pending) \/ j = End
  BY <1>1 DEF End
<1>4. Pending'[End] = e /\ End \notin 1..Len(Pending)
  BY <1>1 DEF End
<1>5. ASSUME NEW j
      PROVE  j \in Where(types, x)' <=>
               (j \in Where(types, x) \/ (j = End /\ e.type \in types /\ e.id = x))
  <2>1. j \in Where(types, x)' <=> j \in DOMAIN Pending' /\ Pending'[j].type \in types /\ Pending'[j].id = x
    BY DEF Where
  <2>2. j \in Where(types, x) <=> j \in 1..Len(Pending) /\ Pending[j].type \in types /\ Pending[j].id = x
    BY <1>1 DEF Where
  <2>3. CASE j \in 1..Len(Pending)
    BY <1>1, <1>2, <2>1, <2>2, <2>3
  <2>4. CASE j = End
    BY <1>3, <1>4, <2>1, <2>2, <2>4
  <2>5. CASE j \notin 1..Len(Pending) /\ j # End
    BY <1>3, <2>1, <2>2, <2>5
  <2> QED
    BY <2>3, <2>4, <2>5
<1> QED
  BY <1>5

LEMMA WhereTaken ==
  ASSUME ListInv, Taken, NEW types, NEW x
  PROVE  \A j : j \in Where(types, x)' <=> j \in Nat /\ j >= 1 /\ j + 1 \in Where(types, x)
<1>1. /\ DOMAIN Pending' = 1..(Len(Pending) - 1) /\ Len(Pending) \in Nat
      /\ DOMAIN Pending = 1..Len(Pending)
      /\ \A j \in 1..(Len(Pending) - 1) : Pending'[j] = Pending[j + 1]
  BY TakenFacts, PendingTyped
<1>2. \A j \in Nat : j >= 1 => (j \in 1..(Len(Pending) - 1) <=> j + 1 \in 1..Len(Pending))
  BY <1>1
<1>3. \A j \in 1..(Len(Pending) - 1) : j \in Nat /\ j >= 1
  BY <1>1
<1> QED
  BY <1>1, <1>2, <1>3 DEF Where

LEMMA ClearStays ==
  ASSUME NEW A \in SUBSET Nat, NEW R \in SUBSET Nat, NEW A1 \in SUBSET Nat, NEW R1 \in SUBSET Nat,
         NEW n \in Nat, \A i \in A : i < n, R \subseteq R1, \A i \in A1 : i \in A \/ i = n,
         NEW k \in Nat, k <= n, NEW has, Clear(A, R, k, has)
  PROVE  Clear(A1, R1, k, has)
<1>1. \A i \in A1 : i < k => i \in A
  OBVIOUS
<1> QED
  BY <1>1 DEF Clear

LEMMA ClearLonger ==
  ASSUME NEW A \in SUBSET Nat, NEW R \in SUBSET Nat,
         NEW n \in Nat, \A i \in A : i < n, NEW has, Clear(A, R, n, has)
  PROVE  Clear(A, R, n + 1, has)
  BY DEF Clear

LEMMA ClearTaken ==
  ASSUME NEW A \in SUBSET Nat, NEW R \in SUBSET Nat, NEW A1 \in SUBSET Nat, NEW R1 \in SUBSET Nat,
         \A i \in A : i >= 1, \A i \in R : i >= 1,
         \A i : i \in A1 <=> i \in Nat /\ i >= 1 /\ i + 1 \in A,
         \A i : i \in R1 <=> i \in Nat /\ i >= 1 /\ i + 1 \in R,
         NEW k \in Nat, k >= 1, NEW has, NEW has1, Clear(A, R, k + 1, has),
         1 \in R => ~has1, 1 \notin A /\ 1 \notin R /\ has1 => has
  PROVE  Clear(A1, R1, k, has1)
<1>1. CASE \E j \in R : j < k + 1 /\ \A i \in A : ~(j < i /\ i < k + 1)
  <2>1. PICK j \in R : j < k + 1 /\ \A i \in A : ~(j < i /\ i < k + 1)
    BY <1>1
  <2>2. CASE j = 1
    <3>1. \A i \in A1 : ~(i < k)
      BY <2>1, <2>2
    <3> QED
      BY <2>2, <3>1 DEF Clear
  <2>3. CASE j # 1
    <3>1. PICK m \in Nat : j = m + 1 /\ m >= 1
      <4>1. j - 1 \in Nat /\ j = (j - 1) + 1 /\ j - 1 >= 1
        BY <2>1, <2>3
      <4> QED
        BY <4>1
    <3>2. m \in R1 /\ m < k
      BY <2>1, <3>1
    <3>3. \A i \in A1 : ~(m < i /\ i < k)
      BY <2>1, <3>1
    <3> QED
      BY <3>2, <3>3 DEF Clear
  <2> QED
    BY <2>2, <2>3
<1>2. CASE (\A i \in A : ~(i < k + 1)) /\ ~has
  <2>1. 1 \notin A /\ \A i \in A1 : ~(i < k)
    BY <1>2
  <2> QED
    BY <1>2, <2>1 DEF Clear
<1> QED
  BY <1>1, <1>2 DEF Clear

LEMMA OvertakenTaken ==
  ASSUME NEW s \in SUBSET Nat, NEW t \in SUBSET Nat, NEW s1 \in SUBSET Nat, NEW t1 \in SUBSET Nat,
         \A i : i \in s1 <=> i \in Nat /\ i >= 1 /\ i + 1 \in s,
         \A i : i \in t1 <=> i \in Nat /\ i >= 1 /\ i + 1 \in t,
         Overtaken(s, t)
  PROVE  Overtaken(s1, t1)
<1>1. ASSUME NEW j \in s1 PROVE \E k \in t1 : j < k
  <2>1. PICK k \in t : j + 1 < k
    BY DEF Overtaken
  <2>2. k - 1 \in t1 /\ j < k - 1
    <3>1. k - 1 \in Nat /\ k - 1 >= 1 /\ (k - 1) + 1 = k /\ j < k - 1
      BY <2>1
    <3> QED
      BY <3>1
  <2> QED
    BY <2>2
<1> QED
  BY <1>1 DEF Overtaken

\* The channel a channel of the tree hangs under is in the tree.
LEMMA ParentInTree ==
  ASSUME NEW c, c # Lobby, InTree(c)
  PROVE  c \in Listed /\ (parent[c] = Lobby \/ (parent[c] \in Listed /\ InTree(parent[c])))
         /\ InTree(parent[c])
<1>1. PICK up \in SUBSET Listed : c \in up /\ \A d \in up : parent[d] \in up \cup {Lobby}
  BY DEF InTree
<1>2. CASE parent[c] = Lobby
  BY <1>1, <1>2 DEF InTree
<1>3. CASE parent[c] \in up
  BY <1>1, <1>3 DEF InTree
<1> QED
  BY <1>1, <1>2, <1>3

Sets(c) == /\ Adds(c) \in SUBSET Nat /\ Removes(c) \in SUBSET Nat
           /\ \A i \in Adds(c) \cup Removes(c) : i < End /\ i >= 1
USets(u) == /\ Comes(u) \in SUBSET Nat /\ Goes(u) \in SUBSET Nat /\ Logins(u) \subseteq Comes(u)
            /\ \A i \in Comes(u) \cup Goes(u) : i < End /\ i >= 1

LEMMA SetsTyped ==
  ASSUME ListInv
  PROVE  End \in Nat /\ (\A c : Sets(c)) /\ (\A u : USets(u))
<1>1. Len(Pending) \in Nat
  BY PendingTyped
<1>2. \A c : Sets(c)
  BY <1>1, WhereRange DEF Sets, Adds, Removes, End
<1>3. \A u : USets(u)
  <2>1. ASSUME NEW u PROVE Logins(u) \subseteq Comes(u)
    BY DEF Logins, Comes, Where
  <2> QED
    BY <1>1, <2>1, WhereRange DEF USets, Comes, Goes, End
<1> QED
  BY <1>1, <1>2, <1>3 DEF End

\* Of a channel no event in the step is about.
LEMMA CalmChannel ==
  ASSUME TypeInv, ListInv', NEW c \in Channels, ChannelStory(c), rows' = rows,
         c \in Listed' <=> c \in Listed, c \in Listed => parent'[c] = parent[c],
         InTree(c)' => InTree(c),
         Adds(c)' = Adds(c), Removes(c)' = Removes(c),
         \A p \in Channels : c \in Listed /\ parent[c] = p => Adds(p)' = Adds(p),
         End' = End \/ End' = End + 1
  PROVE  ChannelStory(c)'
<1>1. ListInv /\ Sets(c) /\ End \in Nat /\ Drawn(c)' = Drawn(c)
  BY SetsTyped DEF TypeInv, Drawn
<1>2. c \notin Listed' => Clear(Adds(c)', Removes(c)', End', Drawn(c)')
  <2>1. c \notin Listed' => Clear(Adds(c), Removes(c), End, Drawn(c))
    BY DEF ChannelStory
  <2>2. c \notin Listed' => Clear(Adds(c), Removes(c), End + 1, Drawn(c))
    BY <1>1, <2>1, ClearLonger DEF Sets
  <2> QED
    BY <1>1, <2>1, <2>2
<1>3. \A k \in Adds(c)' : Clear(Adds(c)', Removes(c)', k, Drawn(c)')
  BY <1>1 DEF ChannelStory
<1>4. c \in Listed' => Overtaken(Removes(c)', Adds(c)')
  BY DEF ChannelStory
<1>5. \A p \in Channels : c \in Listed' /\ parent'[c] = p => Overtaken(Adds(p)', Adds(c)')
  BY DEF ChannelStory
<1>6. \A p \in Places : c \in Listed' /\ InTree(c)' /\ Adds(c)' = {} /\ parent'[c] = p => Hangs(c, p)'
  BY DEF ChannelStory, Hangs, Drawn
<1> QED
  BY <1>2, <1>3, <1>4, <1>5, <1>6 DEF ChannelStory

LEMMA CalmUser ==
  ASSUME TypeInv, ListInv', NEW u \in Users, UserStory(u), rows' = rows,
         place'[u] = place[u], \A p \in Places : place[u] = p /\ InTree(p)' => InTree(p),
         Comes(u)' = Comes(u), Goes(u)' = Goes(u), Logins(u)' = Logins(u),
         \A k \in Comes(u) : Pending'[k] = Pending[k],
         \A p \in Channels : place[u] = p => Adds(p)' = Adds(p),
         End' = End \/ End' = End + 1
  PROVE  UserStory(u)'
<1>1. ListInv /\ USets(u) /\ End \in Nat /\ Drawn(u)' = Drawn(u)
  BY SetsTyped DEF TypeInv, Drawn
<1>2. place'[u] = Away => Clear(Comes(u)', Goes(u)', End', Drawn(u)')
  <2>1. place'[u] = Away => Clear(Comes(u), Goes(u), End, Drawn(u))
    BY DEF UserStory
  <2>2. place'[u] = Away => Clear(Comes(u), Goes(u), End + 1, Drawn(u))
    BY <1>1, <2>1, ClearLonger DEF USets
  <2> QED
    BY <1>1, <2>1, <2>2
<1>3. \A k \in Logins(u)' : Clear(Comes(u)', Goes(u)', k, Drawn(u)')
  BY <1>1 DEF UserStory
<1>4. place'[u] # Away =>
        /\ Overtaken(Goes(u)', Comes(u)')
        /\ \A k \in Comes(u)' : (\A j \in Comes(u)' : ~(k < j)) => Pending'[k].channel = place'[u]
  BY DEF UserStory
<1>5. \A p \in Channels : place'[u] = p => Overtaken(Adds(p)', Comes(u)')
  BY DEF UserStory
<1>6. \A p \in Places : place'[u] = p /\ InTree(p)' /\ Comes(u)' = {} => Hangs(u, p)'
  BY DEF UserStory, Hangs, Drawn
<1> QED
  BY <1>2, <1>3, <1>4, <1>5, <1>6 DEF UserStory
-----------------------------------------------------------------------------
(* The channels on the list after a step of the network thread.            *)

Elements(s) == {s[i] : i \in DOMAIN s}

LEMMA RemoveElements ==
  ASSUME NEW C, NEW s \in Seq(C), NEW k \in 1..Len(s)
  PROVE  Elements(s) = Elements(RemoveAt(s, k)) \cup {s[k]}
<1>1. PICK w \in Seq(C) :
        /\ w = RemoveAt(s, k) /\ Len(w) = Len(s) - 1
        /\ \A i \in 1..(Len(s) - 1) : w[i] = IF i < k THEN s[i] ELSE s[i + 1]
  BY RemoveAtElements, Zenon
<1>2. /\ Len(w) = Len(s) - 1 /\ Len(s) \in Nat
      /\ \A i \in 1..(Len(s) - 1) : w[i] = IF i < k THEN s[i] ELSE s[i + 1]
  BY <1>1
<1>3. DOMAIN w = 1..(Len(s) - 1) /\ DOMAIN s = 1..Len(s)
  BY <1>2
<1>4. ASSUME NEW i \in 1..Len(s) PROVE s[i] \in Elements(w) \cup {s[k]}
  <2>1. CASE i < k
    <3>1. i \in 1..(Len(s) - 1) /\ w[i] = s[i]
      BY <1>2, <2>1
    <3> QED
      BY <1>3, <3>1 DEF Elements
  <2>2. CASE i > k
    <3>1. PICK j \in 1..(Len(s) - 1) : i = j + 1
      <4>1. i - 1 \in 1..(Len(s) - 1) /\ i = (i - 1) + 1
        BY <1>2, <2>2
      <4> QED
        BY <4>1
    <3>2. w[j] = s[i]
      BY <1>2, <2>2, <3>1
    <3> QED
      BY <1>3, <3>2 DEF Elements
  <2> QED
    BY <2>1, <2>2
<1>5. ASSUME NEW i \in 1..(Len(s) - 1) PROVE w[i] \in Elements(s)
  <2>1. i \in 1..Len(s) /\ i + 1 \in 1..Len(s)
    BY <1>2
  <2>2. w[i] = s[i] \/ w[i] = s[i + 1]
    BY <1>2
  <2> QED
    BY <1>3, <2>1, <2>2 DEF Elements
<1> QED
  <2>1. s[k] \in Elements(s)
    BY <1>3 DEF Elements
  <2>2. Elements(s) \subseteq Elements(w) \cup {s[k]}
    BY <1>3, <1>4 DEF Elements
  <2>3. Elements(w) \subseteq Elements(s)
    BY <1>3, <1>5 DEF Elements
  <2> QED
    BY <1>1, <2>1, <2>2, <2>3

LEMMA InsertElements ==
  ASSUME NEW C, NEW s \in Seq(C), NEW e \in C, NEW k \in 1..(Len(s) + 1)
  PROVE  Elements(InsertAt(s, k, e)) = Elements(s) \cup {e}
<1>0. /\ InsertAt(s, k, e) \in Seq(C) /\ Len(InsertAt(s, k, e)) = Len(s) + 1
      /\ \A i \in 1..(Len(s) + 1) :
           InsertAt(s, k, e)[i] = IF i < k THEN s[i] ELSE IF i = k THEN e ELSE s[i - 1]
  BY InsertAtElements
<1>1. PICK w : w = InsertAt(s, k, e)
  OBVIOUS
<1>2. /\ Len(w) = Len(s) + 1 /\ Len(s) \in Nat /\ w \in Seq(C)
      /\ \A i \in 1..(Len(s) + 1) : w[i] = IF i < k THEN s[i] ELSE IF i = k THEN e ELSE s[i - 1]
  BY <1>0, <1>1
<1>3. DOMAIN w = 1..(Len(s) + 1) /\ DOMAIN s = 1..Len(s)
  BY <1>2
<1>4. ASSUME NEW i \in 1..(Len(s) + 1) PROVE w[i] \in Elements(s) \cup {e}
  <2>1. CASE i < k
    <3>1. i \in 1..Len(s) /\ w[i] = s[i]
      BY <1>2, <2>1
    <3> QED
      BY <1>3, <3>1 DEF Elements
  <2>2. CASE i > k
    <3>1. i - 1 \in 1..Len(s) /\ w[i] = s[i - 1]
      BY <1>2, <2>2
    <3> QED
      BY <1>3, <3>1 DEF Elements
  <2>3. CASE i = k
    BY <1>2, <2>3
  <2> QED
    BY <2>1, <2>2, <2>3
<1>5. ASSUME NEW i \in 1..Len(s) PROVE s[i] \in Elements(w)
  <2>1. CASE i < k
    <3>1. i \in 1..(Len(s) + 1) /\ w[i] = s[i]
      BY <1>2, <2>1
    <3> QED
      BY <1>3, <3>1 DEF Elements
  <2>2. CASE ~(i < k)
    <3>1. PICK j \in 1..(Len(s) + 1) : j = i + 1
      BY <1>2
    <3>2. w[j] = s[i]
      <4>1. ~(j < k) /\ j # k /\ j - 1 = i
        BY <2>2, <3>1
      <4> QED
        BY <1>2, <4>1
    <3> QED
      BY <1>3, <3>2 DEF Elements
  <2> QED
    BY <2>1, <2>2
<1>6. e \in Elements(w)
  <2>1. k \in DOMAIN w /\ w[k] = e
    BY <1>2, <1>3
  <2> QED
    BY <2>1 DEF Elements
<1> QED
  <2>1. Elements(w) = Elements(s) \cup {e}
    BY <1>3, <1>4, <1>5, <1>6 DEF Elements
  <2> QED
    BY <1>1, <2>1

LEMMA MoveElements ==
  ASSUME NEW C, NEW s \in Seq(C), Unique(s), NEW id, NEW t
  PROVE  Elements(MoveBefore(s, id, t)) = Elements(s)
<1>1. PICK k \in 0..Len(s) : k = Position(s, id) /\ (k # 0 => s[k] = id)
  BY PositionRange
<1>2. PICK d \in -1..Len(s) : d = Position(s, t) - 1 /\ d + 1 \in 0..Len(s)
  <2>1. Position(s, t) \in 0..Len(s)
    BY PositionRange
  <2>2. PICK y \in 0..Len(s) : y = Position(s, t)
    BY <2>1
  <2>3. y - 1 \in -1..Len(s) /\ (y - 1) + 1 = y
    BY <2>2
  <2> QED
    BY <2>2, <2>3
<1>3. PICK p \in Int : p = IF k < d THEN d ELSE d + 1
  OBVIOUS
<1>4. MoveBefore(s, id, t) = IF d < 0 \/ k = 0 \/ k = d THEN s ELSE InsertAt(RemoveAt(s, k), p, id)
  BY <1>1, <1>2, <1>3 DEF MoveBefore
<1>5. CASE d < 0 \/ k = 0 \/ k = d
  BY <1>4, <1>5
<1>6. CASE ~(d < 0 \/ k = 0 \/ k = d)
  <2>1. k \in 1..Len(s) /\ s[k] = id /\ id \in C
    BY <1>1, <1>6
  <2>2. PICK w \in Seq(C) : w = RemoveAt(s, k) /\ Len(w) = Len(s) - 1
    BY <2>1, RemoveAtElements
  <2>3. p \in 1..(Len(w) + 1)
    <3>1. Len(w) + 1 = Len(s) /\ d + 1 <= Len(s) /\ d >= 0 /\ k # d
      BY <1>2, <1>6, <2>2
    <3> QED
      BY <1>3, <2>1, <3>1
  <2>4. Elements(InsertAt(w, p, id)) = Elements(w) \cup {id}
    BY <2>1, <2>3, InsertElements
  <2>5. Elements(s) = Elements(w) \cup {id}
    BY <2>1, <2>2, RemoveElements
  <2> QED
    BY <1>4, <1>6, <2>2, <2>4, <2>5
<1> QED
  BY <1>5, <1>6

LEMMA ListedElements == Listed = Elements(chans) /\ Listed' = Elements(chans')
  BY DEF Listed, Elements

LEMMA ListedRemoved ==
  ASSUME ListInv, NEW c \in Listed, chans' = Removed(c)
  PROVE  Listed' = Listed \ {c}
<1>1. PICK s \in Seq(Channels) : s = chans /\ Unique(s)
  BY DEF ListInv
<1>2. PICK k \in 1..Len(s) : s[k] = c
  BY <1>1 DEF Listed
<1>3. Position(s, c) = k
  BY <1>1, <1>2, PositionFound
<1>4. PICK w \in Seq(Channels) : w = RemoveAt(s, k) /\ chans' = w
  BY <1>1, <1>3, RemoveAtElements DEF Removed
<1>5. Elements(s) = Elements(w) \cup {c}
  BY <1>2, <1>4, RemoveElements
<1>6. c \notin Elements(w)
  <2>1. /\ Len(w) = Len(s) - 1 /\ DOMAIN w = 1..(Len(s) - 1) /\ DOMAIN s = 1..Len(s)
        /\ \A i \in 1..(Len(s) - 1) : w[i] = IF i < k THEN s[i] ELSE s[i + 1]
    <3>1. /\ Len(RemoveAt(s, k)) = Len(s) - 1
          /\ \A i \in 1..(Len(s) - 1) : RemoveAt(s, k)[i] = IF i < k THEN s[i] ELSE s[i + 1]
      BY RemoveAtElements
    <3>2. DOMAIN w = 1..Len(w) /\ DOMAIN s = 1..Len(s)
      OBVIOUS
    <3> QED
      BY <1>4, <3>1, <3>2
  <2>2. ASSUME NEW i \in 1..(Len(s) - 1), w[i] = c PROVE FALSE
    <3>1. i \in DOMAIN s /\ i + 1 \in DOMAIN s /\ k \in DOMAIN s
      BY <2>1
    <3>2. (i < k /\ s[i] = s[k]) \/ (~(i < k) /\ s[i + 1] = s[k])
      BY <1>2, <2>1, <2>2
    <3>3. i = k \/ i + 1 = k
      BY <1>1, <3>1, <3>2 DEF Unique
    <3>4. (i < k => i = k) /\ (~(i < k) => i + 1 = k)
      BY <1>1, <3>1, <3>2 DEF Unique
    <3> QED
      BY <3>4
  <2> QED
    BY <2>1, <2>2 DEF Elements
<1> QED
  BY <1>1, <1>4, <1>5, <1>6, ListedElements

LEMMA ListedMoved ==
  ASSUME ListInv, NEW id, NEW t, chans' = MoveBefore(chans, id, t)
  PROVE  Listed' = Listed
<1>1. chans \in Seq(Channels) /\ Unique(chans)
  BY DEF ListInv
<1> QED
  BY <1>1, MoveElements, ListedElements

LEMMA ListedAppended ==
  ASSUME ListInv, NEW c \in Channels, chans' = Append(chans, c)
  PROVE  Listed' = Listed \cup {c}
<1>1. PICK s \in Seq(Channels) : s = chans
  BY DEF ListInv
<1>2. PICK w \in Seq(Channels) : w = Append(s, c)
  BY <1>1
<1>3. /\ DOMAIN w = 1..(Len(s) + 1) /\ DOMAIN s = 1..Len(s) /\ Len(s) \in Nat
      /\ \A i \in 1..Len(s) : w[i] = s[i]
      /\ w[Len(s) + 1] = c
  BY <1>2
<1>4. \A i \in DOMAIN w : i \in DOMAIN s \/ i = Len(s) + 1
  BY <1>3
<1>5. Len(s) + 1 \in DOMAIN w /\ \A i \in DOMAIN s : i \in DOMAIN w
  BY <1>3
<1>6. Elements(w) = Elements(s) \cup {c}
  BY <1>3, <1>4, <1>5 DEF Elements
<1> QED
  BY <1>1, <1>2, <1>6, ListedElements

\* A step that lists nothing new puts no channel into the tree, and a new one
\* only itself.
LEMMA TreeShrinks ==
  ASSUME Listed' \subseteq Listed, \A d \in Listed' : parent'[d] = parent[d], NEW x, InTree(x)'
  PROVE  InTree(x)
  BY DEF InTree

LEMMA TreeGrows ==
  ASSUME NEW c \in Channels, c \notin Listed, Listed' = Listed \cup {c},
         \A d \in Listed : parent'[d] = parent[d], \A d \in Listed : parent[d] # c,
         NEW x, x # c, InTree(x)'
  PROVE  InTree(x)
<1>1. CASE x = Lobby
  BY <1>1 DEF InTree
<1>2. CASE x # Lobby
  <2>1. PICK up \in SUBSET Listed' : x \in up /\ \A d \in up : parent'[d] \in up \cup {Lobby}
    BY <1>2 DEF InTree
  <2>2. PICK less \in SUBSET Listed : less = up \ {c}
    BY <2>1
  <2>3. x \in less /\ \A d \in less : parent[d] \in less \cup {Lobby}
    BY <2>1, <2>2
  <2> QED
    BY <2>3 DEF InTree
<1> QED
  BY <1>1, <1>2
-----------------------------------------------------------------------------
(* The steps of the network thread keep the invariant.                     *)

LEMMA WhereSame ==
  ASSUME ListInv, NEW types, NEW x,
         Pending' = Pending \/ \E e : Grows(e) /\ ~(e.type \in types /\ e.id = x)
  PROVE  Where(types, x)' = Where(types, x)
<1>1. CASE Pending' = Pending
  BY <1>1 DEF Where
<1>2. CASE \E e : Grows(e) /\ ~(e.type \in types /\ e.id = x)
  <2>1. PICK e : Grows(e) /\ ~(e.type \in types /\ e.id = x)
    BY <1>2
  <2>2. \A j : j \in Where(types, x)' <=> j \in Where(types, x)
    BY <2>1, WhereGrows
  <2>3. Where(types, x) \subseteq Where(types, x)' /\ Where(types, x)' \subseteq Where(types, x)
    BY <2>2
  <2> QED
    BY <2>3
<1> QED
  BY <1>1, <1>2

LEMMA EndGrows ==
  ASSUME ListInv, Pending' = Pending \/ \E e : Grows(e)
  PROVE  /\ End' = End \/ End' = End + 1
         /\ \A j \in 1..Len(Pending) : Pending'[j] = Pending[j]
<1>1. CASE Pending' = Pending
  BY <1>1 DEF End
<1>2. CASE \E e : Grows(e)
  <2>1. PICK e : Grows(e)
    BY <1>2
  <2>2. Len(Pending)' = Len(Pending) + 1 /\ \A j \in 1..Len(Pending) : Pending'[j] = Pending[j]
    BY <2>1, GrowsFacts
  <2> QED
    BY <2>2 DEF End
<1> QED
  BY <1>1, <1>2

\* The step queues no event of these types about x, as far as the lists go.
Silent(types, x) == Pending' = Pending \/ \E e : Grows(e) /\ ~(e.type \in types /\ e.id = x)

ChannelTypes == {"CHAN_ADD", "CHAN_REMOVE"}
UserTypes    == {"USER_LOGIN", "USER_LOGOUT", "USER_CHAN_MOVE"}

LEMMA SilentChannel ==
  ASSUME ListInv, NEW c, Silent(ChannelTypes, c)
  PROVE  Adds(c)' = Adds(c) /\ Removes(c)' = Removes(c)
<1>1. Where({"CHAN_ADD"}, c)' = Where({"CHAN_ADD"}, c)
  BY WhereSame DEF Silent, ChannelTypes
<1>2. Where({"CHAN_REMOVE"}, c)' = Where({"CHAN_REMOVE"}, c)
  BY WhereSame DEF Silent, ChannelTypes
<1> QED
  BY <1>1, <1>2 DEF Adds, Removes

LEMMA SilentAdds ==
  ASSUME ListInv, NEW c, Silent({"CHAN_ADD"}, c)
  PROVE  Adds(c)' = Adds(c)
  BY WhereSame DEF Silent, Adds

LEMMA SilentUser ==
  ASSUME ListInv, NEW u, Silent(UserTypes, u)
  PROVE  Comes(u)' = Comes(u) /\ Goes(u)' = Goes(u) /\ Logins(u)' = Logins(u)
<1>1. Where({"USER_LOGIN", "USER_CHAN_MOVE"}, u)' = Where({"USER_LOGIN", "USER_CHAN_MOVE"}, u)
  BY WhereSame DEF Silent, UserTypes
<1>2. Where({"USER_LOGOUT"}, u)' = Where({"USER_LOGOUT"}, u)
  BY WhereSame DEF Silent, UserTypes
<1>3. Where({"USER_LOGIN"}, u)' = Where({"USER_LOGIN"}, u)
  BY WhereSame DEF Silent, UserTypes
<1> QED
  BY <1>1, <1>2, <1>3 DEF Comes, Goes, Logins

\* Channels and users the step is not about.
LEMMA OtherChannel ==
  ASSUME TypeInv, ListInv', Story, NEW c \in Channels, rows' = rows,
         Pending' = Pending \/ \E e : Grows(e), Silent(ChannelTypes, c),
         c \in Listed' <=> c \in Listed, c \in Listed => parent'[c] = parent[c],
         InTree(c)' => InTree(c),
         \A p \in Channels : c \in Listed /\ parent[c] = p => Silent({"CHAN_ADD"}, p)
  PROVE  ChannelStory(c)'
<1>1. ListInv /\ ChannelStory(c)
  BY DEF TypeInv, Story
<1>2. Adds(c)' = Adds(c) /\ Removes(c)' = Removes(c)
  BY <1>1, SilentChannel
<1>3. \A p \in Channels : c \in Listed /\ parent[c] = p => Adds(p)' = Adds(p)
  BY <1>1, SilentAdds
<1>4. End' = End \/ End' = End + 1
  BY <1>1, EndGrows
<1> QED
  BY <1>1, <1>2, <1>3, <1>4, CalmChannel

LEMMA OtherUser ==
  ASSUME TypeInv, ListInv', Story, NEW u \in Users, rows' = rows,
         Pending' = Pending \/ \E e : Grows(e), Silent(UserTypes, u),
         place'[u] = place[u], \A p \in Places : place[u] = p /\ InTree(p)' => InTree(p),
         \A p \in Channels : place[u] = p => Silent({"CHAN_ADD"}, p)
  PROVE  UserStory(u)'
<1>1. ListInv /\ UserStory(u)
  BY DEF TypeInv, Story
<1>2. Comes(u)' = Comes(u) /\ Goes(u)' = Goes(u) /\ Logins(u)' = Logins(u)
  BY <1>1, SilentUser
<1>3. \A p \in Channels : place[u] = p => Adds(p)' = Adds(p)
  BY <1>1, SilentAdds
<1>4. /\ End' = End \/ End' = End + 1
      /\ \A j \in 1..Len(Pending) : Pending'[j] = Pending[j]
  BY <1>1, EndGrows
<1>5. \A k \in Comes(u) : Pending'[k] = Pending[k]
  BY <1>1, <1>4, WhereRange DEF Comes
<1> QED
  BY <1>1, <1>2, <1>3, <1>4, <1>5, CalmUser

\* Steps that leave the lists, up to their order, and queue at most an event the
\* story does not speak of.
LEMMA NeutralStory ==
  ASSUME TypeInv, ListInv', Story, rows' = rows, Listed' = Listed, parent' = parent, place' = place,
         \/ Pending' = Pending
         \/ \E e : Grows(e) /\ e.type \in {"CHAN_MOVE", "CHAN_MODIFY", "LOGIN_COMPLETE", "DISCONNECT"}
  PROVE  Story'
<1>1. \A x : InTree(x)' => InTree(x)
  BY TreeShrinks
<1>2. \A x : Silent(ChannelTypes, x) /\ Silent({"CHAN_ADD"}, x) /\ Silent(UserTypes, x)
  BY DEF Silent, ChannelTypes, UserTypes
<1>3. Pending' = Pending \/ \E e : Grows(e)
  OBVIOUS
<1>4. ASSUME NEW c \in Channels PROVE ChannelStory(c)'
  BY <1>1, <1>2, <1>3, OtherChannel
<1>5. ASSUME NEW u \in Users PROVE UserStory(u)'
  BY <1>1, <1>2, <1>3, OtherUser
<1> QED
  BY <1>4, <1>5 DEF Story

LEMMA AddStory ==
  ASSUME TypeInv, ListInv', Story, AddChannel
  PROVE  Story'
<1>0. ListInv /\ TypeOK /\ Channels \subseteq Places /\ Channels \subseteq Users \cup Places
  BY DEF TypeInv, Places
<1>1. PICK c \in Channels, q \in Places :
        /\ c \notin Listed /\ InTree(q)
        /\ \A d \in Listed : parent[d] # c
        /\ \A u \in Users : place[u] # c
        /\ chans' = Append(chans, c)
        /\ parent' = [parent EXCEPT ![c] = q]
        /\ Then(Event("CHAN_ADD", c, c))
  BY DEF AddChannel
<1>2. rows' = rows /\ place' = place /\ at = "idle" /\ eventq' = eventq
  BY DEF AddChannel, guiVars, Packet
<1>3. PICK e \in Events : e = Event("CHAN_ADD", c, c) /\ e.type = "CHAN_ADD" /\ e.id = c
  BY <1>0, EventIn DEF EventTypes
<1>4. Grows(e)
  <2>1. chans' # <<>>
    BY <1>0, <1>1 DEF ListInv
  <2> QED
    BY <1>0, <1>1, <1>2, <1>3, <2>1, QueuedPlain, PacketGrows
<1>5. Listed' = Listed \cup {c}
  BY <1>0, <1>1, ListedAppended
<1>6. \A d \in Channels : d # c => parent'[d] = parent[d]
  BY <1>0, <1>1 DEF TypeOK
<1>7. \A x : x # c /\ InTree(x)' => InTree(x)
  <2>1. \A d \in Listed : parent'[d] = parent[d]
    <3>1. Listed \subseteq Channels
      BY <1>0 DEF Listed, TypeOK
    <3> QED
      BY <1>1, <1>6, <3>1
  <2> QED
    BY <1>1, <1>5, <2>1, TreeGrows
<1>8. \A x : x # c => Silent(ChannelTypes, x) /\ Silent({"CHAN_ADD"}, x)
  BY <1>3, <1>4 DEF Silent
<1>9. \A x : Silent(UserTypes, x)
  BY <1>3, <1>4 DEF Silent, UserTypes
<1>10. Pending' = Pending \/ \E f : Grows(f)
  BY <1>4
<1>11. ASSUME NEW d \in Channels, d # c PROVE ChannelStory(d)'
  BY <1>1, <1>2, <1>5, <1>6, <1>7, <1>8, <1>10, <1>11, OtherChannel
<1>12. ASSUME NEW u \in Users PROVE UserStory(u)'
  BY <1>1, <1>2, <1>7, <1>8, <1>9, <1>10, OtherUser
<1>13. ChannelStory(c)'
  <2>1. ChannelStory(c) /\ Sets(c) /\ End \in Nat
    BY <1>0, SetsTyped DEF Story
  <2>2. Drawn(c)' = Drawn(c)
    BY <1>2 DEF Drawn
  <2>3. Removes(c)' = Removes(c)
    <3>1. Where({"CHAN_REMOVE"}, c)' = Where({"CHAN_REMOVE"}, c)
      BY <1>0, <1>3, <1>4, WhereSame
    <3> QED
      BY <3>1 DEF Removes
  <2>4. \A j : j \in Adds(c)' <=> j \in Adds(c) \/ j = End
    <3>1. \A j : j \in Where({"CHAN_ADD"}, c)' <=>
                   (j \in Where({"CHAN_ADD"}, c) \/ (j = End /\ e.type \in {"CHAN_ADD"} /\ e.id = c))
      BY <1>0, <1>4, WhereGrows
    <3> QED
      BY <1>3, <3>1 DEF Adds
  <2>5. c \in Listed' /\ Adds(c)' # {}
    BY <1>5, <2>4
  <2>6. Adds(c)' \in SUBSET Nat
    BY <2>1, <2>4 DEF Sets
  <2>7. ASSUME NEW k \in Adds(c)' PROVE Clear(Adds(c)', Removes(c)', k, Drawn(c)')
    <3>1. Clear(Adds(c), Removes(c), k, Drawn(c)) /\ k \in Nat /\ k <= End
      <4>1. CASE k = End
        BY <1>1, <2>1, <4>1 DEF ChannelStory
      <4>2. CASE k \in Adds(c)
        BY <2>1, <4>2 DEF ChannelStory, Sets
      <4> QED
        BY <2>4, <4>1, <4>2
    <3>2. /\ Adds(c) \in SUBSET Nat /\ Removes(c) \in SUBSET Nat /\ Removes(c)' \in SUBSET Nat
          /\ \A i \in Adds(c) : i < End
          /\ \A i \in Adds(c)' : i \in Adds(c) \/ i = End
          /\ Removes(c) \subseteq Removes(c)'
      BY <2>1, <2>3, <2>4 DEF Sets
    <3> QED
      BY <2>1, <2>2, <2>6, <3>1, <3>2, ClearStays
  <2>8. Overtaken(Removes(c)', Adds(c)')
    BY <2>1, <2>3, <2>4 DEF Overtaken, Sets
  <2>9. ASSUME NEW p \in Channels, parent'[c] = p PROVE Overtaken(Adds(p)', Adds(c)')
    <3>1. p # c
      <4>1. parent'[c] = q
        BY <1>0, <1>1 DEF TypeOK
      <4>2. q = Lobby \/ q \in Listed
        BY <1>1 DEF InTree
      <4>3. Lobby \notin Channels
        BY ChannelsAssumption DEF Lobby
      <4> QED
        BY <1>1, <2>9, <4>1, <4>2, <4>3
    <3>2. Adds(p)' = Adds(p) /\ Sets(p)
      BY <1>0, <1>8, <3>1, SilentAdds, SetsTyped
    <3> QED
      BY <2>4, <3>2 DEF Overtaken, Sets
  <2> QED
    BY <2>5, <2>7, <2>8, <2>9 DEF ChannelStory
<1> QED
  BY <1>11, <1>12, <1>13 DEF Story

LEMMA RemoveStory ==
  ASSUME TypeInv, ListInv', Story, RemoveChannel, chans' # <<>>
  PROVE  Story'
<1>0. /\ ListInv /\ TypeOK /\ Channels \subseteq Places /\ Channels \subseteq Users \cup Places
      /\ Listed \subseteq Channels
  BY DEF TypeInv, Places, Listed, TypeOK
<1>1. PICK c \in Listed : /\ chans' = Removed(c)
                          /\ parent' = [parent EXCEPT ![c] = Away]
                          /\ Then(Event("CHAN_REMOVE", c, c))
  BY DEF RemoveChannel
<1>2. rows' = rows /\ place' = place /\ at = "idle" /\ eventq' = eventq
  BY DEF RemoveChannel, Change, guiVars, Packet
<1>3. PICK e \in Events : e = Event("CHAN_REMOVE", c, c) /\ e.type = "CHAN_REMOVE" /\ e.id = c
  BY <1>0, EventIn DEF EventTypes
<1>4. Grows(e)
  BY <1>0, <1>1, <1>2, <1>3, QueuedPlain, PacketGrows
<1>5. Listed' = Listed \ {c}
  BY <1>0, <1>1, ListedRemoved
<1>6. \A d \in Channels : d # c => parent'[d] = parent[d]
  BY <1>0, <1>1 DEF TypeOK
<1>7. \A x : InTree(x)' => InTree(x)
  BY <1>0, <1>5, <1>6, TreeShrinks
<1>8. \A x : x # c => Silent(ChannelTypes, x)
  BY <1>3, <1>4 DEF Silent
<1>9. \A x : Silent(UserTypes, x) /\ Silent({"CHAN_ADD"}, x)
  BY <1>3, <1>4 DEF Silent, UserTypes
<1>10. Pending' = Pending \/ \E f : Grows(f)
  BY <1>4
<1>11. ASSUME NEW d \in Channels, d # c PROVE ChannelStory(d)'
  BY <1>2, <1>5, <1>6, <1>7, <1>8, <1>9, <1>10, <1>11, OtherChannel
<1>12. ASSUME NEW u \in Users PROVE UserStory(u)'
  BY <1>2, <1>7, <1>9, <1>10, OtherUser
<1>13. ChannelStory(c)'
  <2>1. ChannelStory(c) /\ Sets(c) /\ End \in Nat
    BY <1>0, SetsTyped DEF Story
  <2>2. Drawn(c)' = Drawn(c)
    BY <1>2 DEF Drawn
  <2>3. Adds(c)' = Adds(c)
    BY <1>0, <1>9, SilentAdds
  <2>4. \A j : j \in Removes(c)' <=> j \in Removes(c) \/ j = End
    <3>1. \A j : j \in Where({"CHAN_REMOVE"}, c)' <=>
                   (j \in Where({"CHAN_REMOVE"}, c) \/ (j = End /\ e.type \in {"CHAN_REMOVE"} /\ e.id = c))
      BY <1>0, <1>4, WhereGrows
    <3> QED
      BY <1>3, <3>1 DEF Removes
  <2>5. c \notin Listed' /\ End' = End + 1
    <3>1. Len(Pending)' = Len(Pending) + 1
      BY <1>0, <1>4, GrowsFacts
    <3> QED
      BY <1>5, <3>1 DEF End
  <2>6. Clear(Adds(c)', Removes(c)', End', Drawn(c)')
    <3>1. End \in Removes(c)' /\ End < End' /\ \A i \in Adds(c)' : ~(End < i)
      BY <2>1, <2>3, <2>4, <2>5 DEF Sets
    <3> QED
      BY <3>1 DEF Clear
  <2>7. ASSUME NEW k \in Adds(c)' PROVE Clear(Adds(c)', Removes(c)', k, Drawn(c)')
    <3>1. Clear(Adds(c), Removes(c), k, Drawn(c)) /\ k \in Nat /\ k <= End
      BY <2>1, <2>3 DEF ChannelStory, Sets
    <3>2. /\ Adds(c) \in SUBSET Nat /\ Removes(c) \in SUBSET Nat /\ Removes(c)' \in SUBSET Nat
          /\ \A i \in Adds(c) : i < End
          /\ \A i \in Adds(c)' : i \in Adds(c) \/ i = End
          /\ Removes(c) \subseteq Removes(c)' /\ Adds(c)' \in SUBSET Nat
      BY <2>1, <2>3, <2>4 DEF Sets
    <3> QED
      BY <2>1, <2>2, <3>1, <3>2, ClearStays
  <2> QED
    BY <2>5, <2>6, <2>7 DEF ChannelStory
<1> QED
  BY <1>11, <1>12, <1>13 DEF Story

\* Channels and the other users, when a user comes or goes.
LEMMA UserStep ==
  ASSUME TypeInv, ListInv', Story, rows' = rows, chans' = chans, parent' = parent,
         NEW u \in Users, \A v \in Users : v # u => place'[v] = place[v],
         NEW e, Grows(e), e.type \in UserTypes, e.id = u
  PROVE  /\ \A c \in Channels : ChannelStory(c)'
         /\ \A v \in Users : v # u => UserStory(v)'
         /\ \A c \in Channels : Adds(c)' = Adds(c)
<1>0. ListInv /\ Listed' = Listed
  BY DEF TypeInv, Listed
<1>1. \A x : InTree(x)' => InTree(x)
  BY <1>0, TreeShrinks
<1>2. \A x : Silent(ChannelTypes, x) /\ Silent({"CHAN_ADD"}, x)
  BY DEF Silent, ChannelTypes, UserTypes
<1>3. \A x : x # u => Silent(UserTypes, x)
  BY DEF Silent
<1>4. Pending' = Pending \/ \E f : Grows(f)
  OBVIOUS
<1>5. ASSUME NEW c \in Channels PROVE ChannelStory(c)'
  BY <1>0, <1>1, <1>2, <1>4, OtherChannel
<1>6. ASSUME NEW v \in Users, v # u PROVE UserStory(v)'
  BY <1>1, <1>2, <1>3, <1>4, <1>6, OtherUser
<1>7. ASSUME NEW c \in Channels PROVE Adds(c)' = Adds(c)
  BY <1>0, <1>2, SilentAdds
<1> QED
  BY <1>5, <1>6, <1>7

LEMMA ComeStory ==
  ASSUME TypeInv, ListInv', Story, rows' = rows, chans' = chans, parent' = parent,
         NEW u \in Users, NEW c \in Places, place' = [place EXCEPT ![u] = c],
         NEW e, Grows(e), e.type \in {"USER_LOGIN", "USER_CHAN_MOVE"}, e.id = u, e.channel = c,
         e.type = "USER_LOGIN" => place[u] = Away
  PROVE  Story'
<1>0. ListInv /\ TypeOK
  BY DEF TypeInv
<1>1. place'[u] = c /\ \A v \in Users : v # u => place'[v] = place[v]
  BY <1>0 DEF TypeOK
<1>2. /\ \A d \in Channels : ChannelStory(d)'
      /\ \A v \in Users : v # u => UserStory(v)'
      /\ \A d \in Channels : Adds(d)' = Adds(d)
  BY <1>1, UserStep DEF UserTypes
<1>3. UserStory(u) /\ USets(u) /\ End \in Nat /\ \A d : Sets(d)
  BY <1>0, SetsTyped DEF Story
<1>4. Drawn(u)' = Drawn(u)
  BY DEF Drawn
<1>5. \A j : j \in Comes(u)' <=> j \in Comes(u) \/ j = End
  <2>1. \A j : j \in Where({"USER_LOGIN", "USER_CHAN_MOVE"}, u)' <=>
                 (\/ j \in Where({"USER_LOGIN", "USER_CHAN_MOVE"}, u)
                  \/ (j = End /\ e.type \in {"USER_LOGIN", "USER_CHAN_MOVE"} /\ e.id = u))
    BY <1>0, WhereGrows
  <2> QED
    BY <2>1 DEF Comes
<1>6. Goes(u)' = Goes(u)
  <2>1. Where({"USER_LOGOUT"}, u)' = Where({"USER_LOGOUT"}, u)
    BY <1>0, WhereSame
  <2> QED
    BY <2>1 DEF Goes
<1>7. \A j : j \in Logins(u)' <=> j \in Logins(u) \/ (j = End /\ e.type = "USER_LOGIN")
  <2>1. \A j : j \in Where({"USER_LOGIN"}, u)' <=>
                 (j \in Where({"USER_LOGIN"}, u) \/ (j = End /\ e.type \in {"USER_LOGIN"} /\ e.id = u))
    BY <1>0, WhereGrows
  <2> QED
    BY <2>1 DEF Logins
<1>8. c # Away /\ Comes(u)' # {} /\ Comes(u)' \in SUBSET Nat
  BY <1>3, <1>5, ChannelsAssumption DEF USets, Places, Lobby, Away
<1>9. ASSUME NEW k \in Logins(u)' PROVE Clear(Comes(u)', Goes(u)', k, Drawn(u)')
  <2>1. Clear(Comes(u), Goes(u), k, Drawn(u)) /\ k \in Nat /\ k <= End
    <3>1. CASE k = End /\ e.type = "USER_LOGIN"
      BY <1>3, <3>1 DEF UserStory
    <3>2. CASE k \in Logins(u)
      BY <1>3, <3>2 DEF UserStory, USets
    <3> QED
      BY <1>7, <3>1, <3>2
  <2>2. /\ Comes(u) \in SUBSET Nat /\ Goes(u) \in SUBSET Nat /\ Goes(u)' \in SUBSET Nat
        /\ \A i \in Comes(u) : i < End
        /\ \A i \in Comes(u)' : i \in Comes(u) \/ i = End
        /\ Goes(u) \subseteq Goes(u)'
    BY <1>3, <1>5, <1>6 DEF USets
  <2> QED
    BY <1>3, <1>4, <1>8, <2>1, <2>2, ClearStays
<1>10. Overtaken(Goes(u)', Comes(u)')
  BY <1>3, <1>5, <1>6 DEF Overtaken, USets
<1>11. ASSUME NEW k \in Comes(u)', \A j \in Comes(u)' : ~(k < j) PROVE Pending'[k].channel = c
  <2>1. k = End
    BY <1>3, <1>5, <1>11 DEF USets
  <2>2. Pending'[End] = e
    BY <1>0, GrowsFacts DEF End
  <2> QED
    BY <2>1, <2>2
<1>12. ASSUME NEW p \in Channels PROVE Overtaken(Adds(p)', Comes(u)')
  BY <1>2, <1>3, <1>5 DEF Overtaken, Sets
<1>13. UserStory(u)'
  BY <1>1, <1>8, <1>9, <1>10, <1>11, <1>12 DEF UserStory
<1> QED
  BY <1>2, <1>13 DEF Story

LEMMA LogoutStory ==
  ASSUME TypeInv, ListInv', Story, UserLogout
  PROVE  Story'
<1>0. ListInv /\ TypeOK /\ Channels \subseteq Places /\ Users \subseteq Users \cup Places
  BY DEF TypeInv, Places
<1>1. PICK u \in Users : /\ place[u] # Away
                         /\ place' = [place EXCEPT ![u] = Away]
                         /\ Then(Event("USER_LOGOUT", u, place[u]))
  BY DEF UserLogout
<1>2. PICK c \in Places : c = place[u]
  BY <1>0, <1>1 DEF TypeOK
<1>3. rows' = rows /\ chans' = chans /\ parent' = parent /\ at = "idle" /\ eventq' = eventq
  BY DEF UserLogout, Change, guiVars, Packet
<1>4. PICK e \in Events : e.type = "USER_LOGOUT" /\ e.id = u /\ Queued(Event("USER_LOGOUT", u, c))' = e
  <2>1. PICK f \in Events : f = Event("USER_LOGOUT", u, c) /\ f.type = "USER_LOGOUT" /\ f.id = u
    BY <1>0, EventIn DEF EventTypes
  <2>2. Queued(f)' \in Events /\ Queued(f)'.type = "USER_LOGOUT" /\ Queued(f)'.id = u
    BY <2>1, QueuedNext
  <2> QED
    BY <2>1, <2>2
<1>5. Grows(e)
  <2>1. Event("USER_LOGOUT", u, c) \in Events
    BY <1>0, EventIn DEF EventTypes
  <2> QED
    BY <1>0, <1>1, <1>2, <1>3, <1>4, <2>1, PacketGrows
<1>6. place'[u] = Away /\ \A v \in Users : v # u => place'[v] = place[v]
  BY <1>0, <1>1 DEF TypeOK
<1>7. /\ \A d \in Channels : ChannelStory(d)'
      /\ \A v \in Users : v # u => UserStory(v)'
  BY <1>3, <1>4, <1>5, <1>6, UserStep DEF UserTypes
<1>8. UserStory(u) /\ USets(u) /\ End \in Nat
  BY <1>0, SetsTyped DEF Story
<1>9. Drawn(u)' = Drawn(u)
  BY <1>3 DEF Drawn
<1>10. Comes(u)' = Comes(u) /\ Logins(u)' = Logins(u)
  <2>1. /\ Where({"USER_LOGIN", "USER_CHAN_MOVE"}, u)' = Where({"USER_LOGIN", "USER_CHAN_MOVE"}, u)
        /\ Where({"USER_LOGIN"}, u)' = Where({"USER_LOGIN"}, u)
    BY <1>0, <1>4, <1>5, WhereSame
  <2> QED
    BY <2>1 DEF Comes, Logins
<1>11. \A j : j \in Goes(u)' <=> j \in Goes(u) \/ j = End
  <2>1. \A j : j \in Where({"USER_LOGOUT"}, u)' <=>
                 (j \in Where({"USER_LOGOUT"}, u) \/ (j = End /\ e.type \in {"USER_LOGOUT"} /\ e.id = u))
    BY <1>0, <1>5, WhereGrows
  <2> QED
    BY <1>4, <2>1 DEF Goes
<1>12. End' = End + 1
  BY <1>0, <1>5, GrowsFacts DEF End
<1>13. Clear(Comes(u)', Goes(u)', End', Drawn(u)')
  <2>1. End \in Goes(u)' /\ End < End' /\ \A i \in Comes(u)' : ~(End < i)
    BY <1>8, <1>10, <1>11, <1>12 DEF USets
  <2> QED
    BY <2>1 DEF Clear
<1>14. ASSUME NEW k \in Logins(u)' PROVE Clear(Comes(u)', Goes(u)', k, Drawn(u)')
  <2>1. Clear(Comes(u), Goes(u), k, Drawn(u)) /\ k \in Nat /\ k <= End
    BY <1>8, <1>10, <1>14 DEF UserStory, USets
  <2>2. /\ Comes(u) \in SUBSET Nat /\ Goes(u) \in SUBSET Nat /\ Goes(u)' \in SUBSET Nat
        /\ \A i \in Comes(u) : i < End
        /\ \A i \in Comes(u)' : i \in Comes(u) \/ i = End
        /\ Goes(u) \subseteq Goes(u)' /\ Comes(u)' \in SUBSET Nat
    BY <1>8, <1>10, <1>11 DEF USets
  <2> QED
    BY <1>8, <1>9, <2>1, <2>2, ClearStays
<1>15. Away \notin Places
  BY ChannelsAssumption DEF Places, Lobby, Away
<1>16. UserStory(u)'
  BY <1>0, <1>6, <1>13, <1>14, <1>15 DEF UserStory
<1> QED
  BY <1>7, <1>16 DEF Story

\* The network thread, until it destroys the lists.
LEMMA NetworkStory ==
  ASSUME TypeInv, Story, Network, ~DestroyLists, RemoveChannel => chans' # <<>>
  PROVE  Story'
<1>0. /\ ListInv /\ TypeOK /\ Channels \subseteq Places /\ Channels \subseteq Users \cup Places
      /\ Users \subseteq Users \cup Places /\ Lobby \in Places /\ Lobby \in Users \cup Places
      /\ Listed \subseteq Channels
  BY DEF TypeInv, Places, Listed, TypeOK
<1>1. ListInv'
  BY <1>0, ListKept DEF Next
<1>2. CASE Tell
  <2>1. rows' = rows /\ Listed' = Listed /\ parent' = parent /\ place' = place /\ Pending' = Pending
    BY <1>2, TellGrows DEF Tell, listVars, guiVars, Listed
  <2> QED
    BY <1>1, <2>1, NeutralStory
<1>3. CASE AddChannel
  BY <1>1, <1>3, AddStory
<1>4. CASE ModifyChannel
  <2>1. PICK c \in Listed : Then(Event("CHAN_MODIFY", c, c))
    BY <1>4 DEF ModifyChannel
  <2>2. PICK e \in Events : e = Event("CHAN_MODIFY", c, c) /\ e.type = "CHAN_MODIFY" /\ e.id = c
    BY <1>0, EventIn DEF EventTypes
  <2>3. Grows(e)
    <3>1. chans' # <<>>
      BY <1>4, <2>1 DEF ModifyChannel, listVars, Listed
    <3> QED
      BY <1>0, <1>4, <2>1, <2>2, <3>1, QueuedPlain, PacketGrows DEF ModifyChannel, Change, Packet
  <2>4. rows' = rows /\ Listed' = Listed /\ parent' = parent /\ place' = place
    BY <1>4 DEF ModifyChannel, Change, listVars, guiVars, Listed
  <2> QED
    BY <1>1, <2>2, <2>3, <2>4, NeutralStory
<1>5. CASE RemoveChannel
  BY <1>1, <1>5, RemoveStory
<1>6. CASE MoveChannel
  <2>1. PICK c \in Channels, t \in Channels :
          /\ chans' = MoveBefore(chans, c, t)
          /\ eventq' = eventq \/ eventq' = Append(eventq, Event("CHAN_MOVE", c, t))
    BY <1>6 DEF MoveChannel
  <2>2. PICK e \in Events : e = Event("CHAN_MOVE", c, t) /\ e.type = "CHAN_MOVE"
    BY <1>0, EventIn DEF EventTypes
  <2>3. at = "idle" /\ at' = at /\ rows' = rows /\ parent' = parent /\ place' = place
    BY <1>6 DEF MoveChannel, Packet, netVars, guiVars
  <2>4. Listed' = Listed
    BY <1>0, <2>1, ListedMoved
  <2>5. eventq' = eventq => Pending' = Pending
    BY <2>3 DEF Pending
  <2>6. eventq' = Append(eventq, e) => Grows(e)
    BY <1>0, <2>3, QueueGrows
  <2> QED
    BY <1>1, <2>1, <2>2, <2>3, <2>4, <2>5, <2>6, NeutralStory
<1>7. CASE UserLogin
  <2>1. PICK u \in Users, c \in Places : /\ place[u] = Away /\ place' = [place EXCEPT ![u] = c] /\ InTree(c)
                                         /\ Then(Event("USER_LOGIN", u, c))
    BY <1>7 DEF UserLogin
  <2>2. PICK e \in Events : e = Event("USER_LOGIN", u, c) /\ e.type = "USER_LOGIN" /\ e.id = u /\ e.channel = c
    BY <1>0, EventIn DEF EventTypes
  <2>3. Grows(e)
    <3>1. chans' # <<>> \/ c = Lobby
      BY <1>7, <2>1, ListedSome DEF UserLogin
    <3> QED
      BY <1>0, <1>7, <2>1, <2>2, <3>1, QueuedPlain, PacketGrows DEF UserLogin, Packet
  <2>4. rows' = rows /\ chans' = chans /\ parent' = parent
    BY <1>7 DEF UserLogin, guiVars
  <2> QED
    BY <1>1, <2>1, <2>2, <2>3, <2>4, ComeStory
<1>8. CASE UserLogout
  BY <1>1, <1>8, LogoutStory
<1>9. CASE MoveUser
  <2>1. PICK u \in Users, c \in Places : /\ place' = [place EXCEPT ![u] = c] /\ InTree(c)
                                         /\ Then(Event("USER_CHAN_MOVE", u, c))
    BY <1>9 DEF MoveUser
  <2>2. PICK e \in Events : /\ e = Event("USER_CHAN_MOVE", u, c) /\ e.type = "USER_CHAN_MOVE"
                            /\ e.id = u /\ e.channel = c
    BY <1>0, EventIn DEF EventTypes
  <2>3. Grows(e)
    <3>1. chans' # <<>> \/ c = Lobby
      BY <1>9, <2>1, ListedSome DEF MoveUser
    <3> QED
      BY <1>0, <1>9, <2>1, <2>2, <3>1, QueuedPlain, PacketGrows DEF MoveUser, Change, Packet
  <2>4. rows' = rows /\ chans' = chans /\ parent' = parent
    BY <1>9 DEF MoveUser, Change, guiVars
  <2> QED
    BY <1>1, <2>1, <2>2, <2>3, <2>4, ComeStory
<1>10. CASE LoginComplete
  <2>1. PICK e \in Events : e = Event("LOGIN_COMPLETE", Lobby, Lobby) /\ e.type = "LOGIN_COMPLETE"
    BY <1>0, EventIn DEF EventTypes
  <2>2. Grows(e)
    BY <1>0, <1>10, <2>1, QueueGrows DEF LoginComplete, Packet
  <2>3. rows' = rows /\ Listed' = Listed /\ parent' = parent /\ place' = place
    BY <1>10 DEF LoginComplete, listVars, guiVars, Listed
  <2> QED
    BY <1>1, <2>1, <2>2, <2>3, NeutralStory
<1>11. CASE Disconnect
  <2>1. NoEvent \in Events /\ NoEvent.type = "DISCONNECT"
    BY <1>0 DEF NoEvent, Events, EventTypes
  <2>2. Grows(NoEvent)
    BY <1>0, <1>11, <2>1, QueueGrows DEF Disconnect
  <2>3. rows' = rows /\ Listed' = Listed /\ parent' = parent /\ place' = place
    BY <1>11 DEF Disconnect, listVars, guiVars, Listed
  <2> QED
    BY <1>1, <2>1, <2>2, <2>3, NeutralStory
<1> QED
  BY <1>2, <1>3, <1>4, <1>5, <1>6, <1>7, <1>8, <1>9, <1>10, <1>11 DEF Network
-----------------------------------------------------------------------------
(* The GUI takes an event: it keeps the invariant too.                     *)

\* The row of x is where it should be and no pending event is about it.
Settled(x) ==
  \/ x \in Channels /\ InTree(x) /\ Adds(x) = {}
  \/ x \in Users /\ place[x] \in Places /\ InTree(place[x]) /\ Comes(x) = {}

\* The GUI takes event e, which is not the end of the session, and keeps the row of
\* the lobby.
TakesEvent(e) == /\ GuiEvent /\ e \in Events /\ e = Pending[1] /\ Taken /\ rows' = Shown(e)
             /\ GoodIds(e) /\ e.type # "DISCONNECT" /\ (e.type \in ChangeTypes => loggedin)
             /\ lobby /\ ~(e.type = "CHAN_REMOVE" /\ e.id = Lobby)

LEMMA HeadAt ==
  ASSUME ListInv, NEW e, TakesEvent(e), NEW types, NEW x
  PROVE  1 \in Where(types, x) <=> e.type \in types /\ e.id = x
<1>1. 1 \in DOMAIN Pending /\ e = Pending[1]
  BY TakenFacts DEF TakesEvent
<1> QED
  BY <1>1 DEF Where

LEMMA RowIds ==
  ASSUME TypeOK, NEW r \in rows
  PROVE  r.id \in Users \cup Channels /\ r.under \in Places \cup {Away} /\ r.id # Lobby /\ r.id # Away
         /\ r = [id |-> r.id, under |-> r.under]
<1>1. PICK s \in Rows : s = r
  BY DEF TypeOK
<1> QED
  BY <1>1, ChannelsAssumption DEF Rows, Lobby, Away

\* Taking an event adds no rows but the one it is about.
LEMMA RowsAfter ==
  ASSUME TypeInv, NEW e, TakesEvent(e), NEW r \in rows', r \notin rows
  PROVE  \/ e.type = "CHAN_ADD" /\ r.id = e.id
         \/ e.type \in {"USER_LOGIN", "USER_CHAN_MOVE"} /\ r.id = e.id
<1>1. r \in Shown(e)
  BY DEF TakesEvent
<1>2. \A u, c, rest : UserAdded(rest, u, c) \subseteq rest \cup {[id |-> u, under |-> c]}
  BY DEF UserAdded
<1>3. \A u : WithoutUser(u) \subseteq rows
  BY DEF WithoutUser
<1>4. \A c : Erased(c) \subseteq rows
  BY DEF Erased
<1> QED
  BY <1>1, <1>2, <1>3, <1>4 DEF Shown, UserMoved, ChannelAdded

LEMMA RowsGone ==
  ASSUME TypeInv, NEW e, TakesEvent(e), e.type \in {"CHAN_REMOVE", "USER_LOGOUT"}, NEW r \in rows'
  PROVE  r.id # e.id
<1>1. CASE e.type = "USER_LOGOUT"
  <2>1. rows' = WithoutUser(e.id)
    BY <1>1 DEF TakesEvent, ChangeTypes, Shown
  <2> QED
    BY <2>1 DEF WithoutUser
<1>2. CASE e.type = "CHAN_REMOVE"
  <2>1. CASE HasRow(e.id)
    <3>1. rows' = Erased(e.id)
      BY <1>2, <2>1 DEF TakesEvent, ChangeTypes, Shown
    <3>2. PICK S \in SUBSET rows : HoldsBelow(S, e.id) /\ r \notin S /\ r \in rows
      BY <3>1 DEF Erased
    <3> QED
      BY <3>2 DEF HoldsBelow
  <2>2. CASE ~HasRow(e.id)
    <3>1. rows' = rows
      BY <1>2, <2>2 DEF TakesEvent, Shown
    <3> QED
      BY <2>2, <3>1 DEF HasRow
  <2> QED
    BY <2>1, <2>2
<1> QED
  BY <1>1, <1>2

\* The parent of what is settled is settled.
LEMMA SettledUp ==
  ASSUME TypeInv, Story, NEW x, Settled(x), NEW r \in rows, r.id = x
  PROVE  r.under = Lobby \/ (r.under \in Channels /\ Settled(r.under))
<1>0. ListInv /\ TypeOK /\ Listed \subseteq Channels
  BY DEF TypeInv, Listed, TypeOK
<1>1. CASE x \in Channels /\ InTree(x) /\ Adds(x) = {}
  <2>1. x # Lobby
    BY <1>1, ChannelsAssumption DEF Lobby
  <2>2. x \in Listed /\ InTree(parent[x]) /\ (parent[x] = Lobby \/ parent[x] \in Listed)
    BY <1>1, <2>1, ParentInTree
  <2>3. PICK p \in Places : p = parent[x]
    BY <1>0, <2>2 DEF Places
  <2>4. Hangs(x, p) /\ \A q \in Channels : p = q => Overtaken(Adds(q), Adds(x))
    BY <1>1, <2>2, <2>3 DEF Story, ChannelStory
  <2>5. r.under = p
    BY <2>4 DEF Hangs
  <2>6. p \in Channels => Adds(p) = {}
    BY <1>1, <2>4 DEF Overtaken
  <2> QED
    BY <2>2, <2>3, <2>5, <2>6 DEF Settled, Places
<1>2. CASE x \in Users /\ place[x] \in Places /\ InTree(place[x]) /\ Comes(x) = {}
  <2>1. PICK p \in Places : p = place[x]
    BY <1>2
  <2>2. Hangs(x, p) /\ \A q \in Channels : p = q => Overtaken(Adds(q), Comes(x))
    BY <1>2, <2>1 DEF Story, UserStory
  <2>3. r.under = p
    BY <2>2 DEF Hangs
  <2>4. p \in Channels => Adds(p) = {}
    BY <1>2, <2>2 DEF Overtaken
  <2> QED
    BY <1>2, <2>1, <2>3, <2>4 DEF Settled, Places
<1> QED
  BY <1>1, <1>2 DEF Settled

\* No event takes the row of what is settled.
LEMMA SettledStays ==
  ASSUME TypeInv, Story, NEW e, TakesEvent(e), NEW r \in rows, Settled(r.id)
  PROVE  r \in rows'
<1>0. ListInv /\ TypeOK /\ Listed \subseteq Channels /\ Channels \cap Users = {}
  BY ChannelsAssumption DEF TypeInv, Listed, TypeOK
<1>1. rows' = Shown(e) /\ GoodIds(e)
  BY DEF TakesEvent
<1>2. CASE e.type = "CHAN_REMOVE"
  <2>1. PICK S \in SUBSET rows : S = {q \in rows : ~Settled(q.id)}
    OBVIOUS
  <2>0. e.id \in Channels
    BY <1>1, <1>2 DEF TakesEvent, GoodIds, About, Places
  <2>6. ASSUME Settled(e.id) PROVE FALSE
    <3>1. InTree(e.id) /\ Adds(e.id) = {}
      BY <1>0, <2>0, <2>6 DEF Settled
    <3>2. e.id \in Listed
      BY <2>0, <3>1, ParentInTree, ChannelsAssumption DEF Lobby
    <3>3. 1 \in Removes(e.id)
      BY <1>0, <1>2, HeadAt DEF Removes
    <3> QED
      BY <2>0, <3>1, <3>2, <3>3 DEF Story, ChannelStory, Overtaken
  <2>2. ASSUME NEW q \in rows, q.id = e.id \/ q.under = e.id PROVE q \in S
    <3>1. ASSUME q.under = e.id, Settled(q.id) PROVE FALSE
      <4>1. e.id # Lobby
        BY <2>0, ChannelsAssumption DEF Lobby
      <4> QED
        BY <2>6, <3>1, <4>1, SettledUp
    <3> QED
      BY <2>1, <2>2, <2>6, <3>1
  <2>3. ASSUME NEW q \in rows, NEW s \in S, q.under = s.id PROVE q \in S
    <3>1. s \in rows /\ ~Settled(s.id) /\ s.id # Lobby
      BY <1>0, <2>1, RowIds
    <3>2. ~Settled(q.id)
      BY <2>3, <3>1, SettledUp
    <3> QED
      BY <2>1, <3>2
  <2>4. HoldsBelow(S, e.id)
    BY <2>2, <2>3 DEF HoldsBelow
  <2>5. r \notin S
    BY <2>1
  <2>7. r \in Erased(e.id)
    BY <2>4, <2>5 DEF Erased
  <2> QED
    BY <1>1, <1>2, <2>7 DEF Shown
<1>3. CASE e.type \in {"USER_LOGOUT", "USER_CHAN_MOVE"}
  <2>1. e.id \in Users
    BY <1>1, <1>3 DEF GoodIds, About
  <2>2. ASSUME r.id = e.id PROVE FALSE
    <3>1. place[e.id] \in Places /\ Comes(e.id) = {} /\ place[e.id] # Away
      BY <1>0, <2>1, <2>2, ChannelsAssumption DEF Settled, Places, Lobby, Away
    <3>2. 1 \in Goes(e.id) \/ 1 \in Comes(e.id)
      BY <1>0, <1>3, HeadAt DEF Goes, Comes
    <3> QED
      BY <2>1, <3>1, <3>2 DEF Story, UserStory, Overtaken
  <2>3. r \in WithoutUser(e.id)
    BY <2>2 DEF WithoutUser
  <2> QED
    BY <1>1, <1>3, <2>3 DEF Shown, UserMoved, UserAdded
<1>4. CASE e.type \notin {"CHAN_REMOVE", "USER_LOGOUT", "USER_CHAN_MOVE"}
  BY <1>1, <1>4 DEF TakesEvent, Shown, UserAdded, ChannelAdded
<1> QED
  BY <1>2, <1>3, <1>4

LEMMA SetsTaken ==
  ASSUME ListInv, Taken, NEW types, NEW x
  PROVE  /\ Where(types, x) \in SUBSET Nat /\ Where(types, x)' \in SUBSET Nat
         /\ \A i \in Where(types, x) : i >= 1
         /\ \A i : i \in Where(types, x)' <=> i \in Nat /\ i >= 1 /\ i + 1 \in Where(types, x)
  BY WhereRange, WhereTaken

LEMMA EndTaken ==
  ASSUME ListInv, Taken
  PROVE  End' \in Nat /\ End' >= 1 /\ End = End' + 1
<1>1. Len(Pending) >= 1 /\ Len(Pending)' = Len(Pending) - 1 /\ Len(Pending) \in Nat
  BY TakenFacts, PendingTyped
<1> QED
  BY <1>1 DEF End

LEMMA HangsNew ==
  ASSUME NEW x, NEW p, NEW rest, rows' = rest \cup {[id |-> x, under |-> p]}, \A r \in rest : r.id # x
  PROVE  Hangs(x, p)'
<1>1. PICK n : n = [id |-> x, under |-> p]
  OBVIOUS
<1>2. n.id = x /\ n.under = p
  BY <1>1
<1>3. n \in rows' /\ \A r \in rows' : r \in rest \/ r = n
  BY <1>1
<1> QED
  BY <1>2, <1>3 DEF Hangs, Drawn

LEMMA GuiChannel ==
  ASSUME TypeInv, Story, NEW e, TakesEvent(e), NEW c \in Channels
  PROVE  ChannelStory(c)'
<1>0. ListInv /\ TypeOK /\ Listed \subseteq Channels /\ Channels \cap Users = {} /\ ChannelStory(c)
  BY ChannelsAssumption DEF TypeInv, Listed, TypeOK, Story
<1>1. Taken /\ e = Pending[1] /\ GoodIds(e) /\ rows' = Shown(e)
  BY DEF TakesEvent
<1>2. Listed' = Listed /\ parent' = parent /\ (InTree(c)' <=> InTree(c))
  BY DEF TakesEvent, GuiEvent, listVars, Listed, InTree
<1>3. \A p \in Channels :
        /\ Adds(p) \in SUBSET Nat /\ Adds(p)' \in SUBSET Nat /\ \A i \in Adds(p) : i >= 1
        /\ \A i : i \in Adds(p)' <=> i \in Nat /\ i >= 1 /\ i + 1 \in Adds(p)
        /\ 1 \in Adds(p) <=> e.type = "CHAN_ADD" /\ e.id = p
  BY <1>0, <1>1, SetsTaken, HeadAt DEF Adds
<1>4. /\ Removes(c) \in SUBSET Nat /\ Removes(c)' \in SUBSET Nat /\ \A i \in Removes(c) : i >= 1
      /\ \A i : i \in Removes(c)' <=> i \in Nat /\ i >= 1 /\ i + 1 \in Removes(c)
      /\ 1 \in Removes(c) <=> e.type = "CHAN_REMOVE" /\ e.id = c
  BY <1>0, <1>1, SetsTaken, HeadAt DEF Removes
<1>5. 1 \in Removes(c) => ~Drawn(c)'
  BY <1>4, RowsGone DEF Drawn
<1>6. 1 \notin Adds(c) /\ Drawn(c)' => Drawn(c)
  <2>1. ASSUME 1 \notin Adds(c), NEW r \in rows', r.id = c PROVE r \in rows
    <3>1. e.type \in {"USER_LOGIN", "USER_CHAN_MOVE"} => e.id # c
      BY <1>0, <1>1 DEF GoodIds, About
    <3> QED
      BY <1>3, <2>1, <3>1, RowsAfter
  <2> QED
    BY <2>1 DEF Drawn
<1>7. ASSUME NEW k \in Nat, k >= 1, Clear(Adds(c), Removes(c), k + 1, Drawn(c))
      PROVE  Clear(Adds(c)', Removes(c)', k, Drawn(c)')
  BY <1>3, <1>4, <1>5, <1>6, <1>7, ClearTaken
<1>8. c \notin Listed' => Clear(Adds(c)', Removes(c)', End', Drawn(c)')
  BY <1>0, <1>1, <1>2, <1>7, EndTaken DEF ChannelStory
<1>9. ASSUME NEW k \in Adds(c)' PROVE Clear(Adds(c)', Removes(c)', k, Drawn(c)')
  <2>1. k \in Nat /\ k >= 1 /\ k + 1 \in Adds(c)
    BY <1>3
  <2>2. Clear(Adds(c), Removes(c), k + 1, Drawn(c))
    BY <1>0, <2>1 DEF ChannelStory
  <2> QED
    BY <1>7, <2>1, <2>2
<1>10. c \in Listed' => Overtaken(Removes(c)', Adds(c)')
  BY <1>0, <1>2, <1>3, <1>4, OvertakenTaken DEF ChannelStory
<1>11. \A p \in Channels : c \in Listed' /\ parent'[c] = p => Overtaken(Adds(p)', Adds(c)')
  BY <1>0, <1>2, <1>3, OvertakenTaken DEF ChannelStory
<1>12. ASSUME NEW p \in Places, c \in Listed', InTree(c)', Adds(c)' = {}, parent'[c] = p
       PROVE  Hangs(c, p)'
  <2>0. c \in Listed /\ InTree(c) /\ parent[c] = p
    BY <1>2, <1>12
  <2>1. CASE Adds(c) = {}
    <3>1. Settled(c) /\ Hangs(c, p)
      BY <1>0, <2>0, <2>1 DEF Settled, ChannelStory
    <3>2. PICK r \in rows : r.id = c
      BY <3>1 DEF Hangs, Drawn
    <3>3. r \in rows'
      BY <3>1, <3>2, SettledStays
    <3>4. ASSUME NEW q \in rows', q.id = c PROVE q.under = p
      <4>1. e.type \in {"USER_LOGIN", "USER_CHAN_MOVE"} => e.id # c
        BY <1>0, <1>1 DEF GoodIds, About
      <4>2. q \in rows
        BY <1>3, <2>1, <3>4, <4>1, RowsAfter
      <4> QED
        BY <3>1, <3>4, <4>2 DEF Hangs
    <3> QED
      BY <3>2, <3>3, <3>4 DEF Hangs, Drawn
  <2>2. CASE Adds(c) # {}
    <3>1. Adds(c) = {1}
      <4>1. ASSUME NEW k \in Adds(c) PROVE k = 1
        <5>1. CASE k > 1
          <6>1. PICK m \in Nat : k = m + 1 /\ m >= 1
            <7>1. k - 1 \in Nat /\ k = (k - 1) + 1 /\ k - 1 >= 1
              BY <1>3, <5>1
            <7> QED
              BY <7>1
          <6>2. m \in Adds(c)'
            BY <1>3, <6>1
          <6> QED
            BY <1>12, <6>2
        <5> QED
          BY <1>3, <5>1
      <4> QED
        BY <2>2, <4>1
    <3>2. e.type = "CHAN_ADD" /\ e.id = c
      BY <1>3, <3>1
    <3>3. ~Drawn(c)
      <4>1. Clear(Adds(c), Removes(c), 1, Drawn(c))
        BY <1>0, <3>1 DEF ChannelStory
      <4> QED
        BY <1>4, <4>1 DEF Clear
    <3>4. HasRow(p)
      <4>1. CASE p = Lobby
        BY <4>1 DEF TakesEvent, HasRow
      <4>2. CASE p \in Channels
        <5>1. Overtaken(Adds(p), {1})
          BY <1>0, <2>0, <3>1, <4>2 DEF ChannelStory
        <5>2. Adds(p) = {}
          BY <1>3, <4>2, <5>1 DEF Overtaken
        <5>3. InTree(p) /\ p \in Listed
          <6>1. c # Lobby /\ p # Lobby
            BY <4>2, ChannelsAssumption DEF Lobby
          <6> QED
            BY <2>0, <6>1, ParentInTree
        <5>4. PICK z \in Places : z = parent[p]
          <6>1. parent[p] = Lobby \/ parent[p] \in Listed
            BY <4>2, <5>3, ParentInTree, ChannelsAssumption DEF Lobby
          <6> QED
            BY <1>0, <6>1 DEF Places
        <5>5. Hangs(p, z)
          BY <4>2, <5>2, <5>3, <5>4 DEF Story, ChannelStory
        <5> QED
          BY <5>5 DEF Hangs, Drawn, HasRow
      <4> QED
        BY <4>1, <4>2 DEF Places
    <3>5. rows' = rows \cup {[id |-> c, under |-> p]}
      BY <1>1, <2>0, <3>2, <3>4 DEF Shown, ChannelAdded
    <3> QED
      BY <3>3, <3>5, HangsNew DEF Drawn
  <2> QED
    BY <2>1, <2>2
<1> QED
  BY <1>8, <1>9, <1>10, <1>11, <1>12 DEF ChannelStory

LEMMA GuiUser ==
  ASSUME TypeInv, Story, NEW e, TakesEvent(e), NEW u \in Users
  PROVE  UserStory(u)'
<1>0. /\ ListInv /\ TypeOK /\ Listed \subseteq Channels /\ Channels \cap Users = {} /\ UserStory(u)
      /\ Away \notin Places
  BY ChannelsAssumption DEF TypeInv, Listed, TypeOK, Story, Places, Lobby, Away
<1>1. Taken /\ e = Pending[1] /\ GoodIds(e) /\ rows' = Shown(e)
  BY DEF TakesEvent
<1>2. place' = place /\ \A x : InTree(x)' <=> InTree(x)
  BY DEF TakesEvent, GuiEvent, listVars, Listed, InTree
<1>3. \A p \in Channels :
        /\ Adds(p) \in SUBSET Nat /\ Adds(p)' \in SUBSET Nat /\ \A i \in Adds(p) : i >= 1
        /\ \A i : i \in Adds(p)' <=> i \in Nat /\ i >= 1 /\ i + 1 \in Adds(p)
  BY <1>0, <1>1, SetsTaken DEF Adds
<1>4. /\ Comes(u) \in SUBSET Nat /\ Comes(u)' \in SUBSET Nat /\ \A i \in Comes(u) : i >= 1
      /\ \A i : i \in Comes(u)' <=> i \in Nat /\ i >= 1 /\ i + 1 \in Comes(u)
      /\ 1 \in Comes(u) <=> e.type \in {"USER_LOGIN", "USER_CHAN_MOVE"} /\ e.id = u
  BY <1>0, <1>1, SetsTaken, HeadAt DEF Comes
<1>5. /\ Goes(u) \in SUBSET Nat /\ Goes(u)' \in SUBSET Nat /\ \A i \in Goes(u) : i >= 1
      /\ \A i : i \in Goes(u)' <=> i \in Nat /\ i >= 1 /\ i + 1 \in Goes(u)
      /\ 1 \in Goes(u) <=> e.type = "USER_LOGOUT" /\ e.id = u
  BY <1>0, <1>1, SetsTaken, HeadAt DEF Goes
<1>6. /\ \A i : i \in Logins(u)' <=> i \in Nat /\ i >= 1 /\ i + 1 \in Logins(u)
      /\ 1 \in Logins(u) <=> e.type = "USER_LOGIN" /\ e.id = u
  BY <1>0, <1>1, SetsTaken, HeadAt DEF Logins
<1>7. 1 \in Goes(u) => ~Drawn(u)'
  BY <1>5, RowsGone DEF Drawn
<1>8. 1 \notin Comes(u) => \A r \in rows' : r.id = u => r \in rows
  <2>1. ASSUME 1 \notin Comes(u), NEW r \in rows', r.id = u PROVE r \in rows
    <3>1. e.type = "CHAN_ADD" => e.id # u
      BY <1>0, <1>1 DEF GoodIds, About
    <3> QED
      BY <1>4, <2>1, <3>1, RowsAfter
  <2> QED
    BY <2>1
<1>9. 1 \notin Comes(u) /\ Drawn(u)' => Drawn(u)
  BY <1>8 DEF Drawn
<1>10. ASSUME NEW k \in Nat, k >= 1, Clear(Comes(u), Goes(u), k + 1, Drawn(u))
       PROVE  Clear(Comes(u)', Goes(u)', k, Drawn(u)')
  BY <1>4, <1>5, <1>7, <1>9, <1>10, ClearTaken
<1>11. place'[u] = Away => Clear(Comes(u)', Goes(u)', End', Drawn(u)')
  BY <1>0, <1>1, <1>2, <1>10, EndTaken DEF UserStory
<1>12. ASSUME NEW k \in Logins(u)' PROVE Clear(Comes(u)', Goes(u)', k, Drawn(u)')
  <2>1. k \in Nat /\ k >= 1 /\ k + 1 \in Logins(u)
    BY <1>6
  <2>2. Clear(Comes(u), Goes(u), k + 1, Drawn(u))
    BY <1>0, <2>1 DEF UserStory
  <2> QED
    BY <1>10, <2>1, <2>2
<1>13. ASSUME place'[u] # Away PROVE Overtaken(Goes(u)', Comes(u)')
  BY <1>0, <1>2, <1>4, <1>5, <1>13, OvertakenTaken DEF UserStory
<1>14. ASSUME place'[u] # Away, NEW k \in Comes(u)', \A j \in Comes(u)' : ~(k < j)
       PROVE  Pending'[k].channel = place'[u]
  <2>1. k \in Nat /\ k >= 1 /\ k + 1 \in Comes(u)
    BY <1>4
  <2>2. ASSUME NEW j \in Comes(u), k + 1 < j PROVE FALSE
    <3>1. PICK m \in Nat : j = m + 1 /\ m >= 1 /\ k < m
      <4>1. j - 1 \in Nat /\ j = (j - 1) + 1 /\ j - 1 >= 1 /\ k < j - 1
        BY <1>4, <2>1, <2>2
      <4> QED
        BY <4>1
    <3>2. m \in Comes(u)'
      BY <1>4, <3>1
    <3> QED
      BY <1>14, <3>1, <3>2
  <2>3. Pending[k + 1].channel = place[u]
    BY <1>0, <1>2, <1>14, <2>1, <2>2 DEF UserStory
  <2>4. Pending'[k] = Pending[k + 1]
    <3>1. k \in 1..(Len(Pending) - 1)
      <4>1. k + 1 \in 1..Len(Pending) /\ Len(Pending) \in Nat
        BY <1>0, <2>1, WhereRange, PendingTyped DEF Comes
      <4> QED
        BY <2>1, <4>1
    <3> QED
      BY <1>0, <1>1, <3>1, TakenFacts
  <2> QED
    BY <1>2, <2>3, <2>4
<1>15. \A p \in Channels : place'[u] = p => Overtaken(Adds(p)', Comes(u)')
  BY <1>0, <1>2, <1>3, <1>4, OvertakenTaken DEF UserStory
<1>16. ASSUME NEW p \in Places, place'[u] = p, InTree(p)', Comes(u)' = {}
       PROVE  Hangs(u, p)'
  <2>0. place[u] = p /\ InTree(p) /\ p # Away
    BY <1>0, <1>2, <1>16
  <2>1. CASE Comes(u) = {}
    <3>1. Settled(u) /\ Hangs(u, p)
      BY <1>0, <2>0, <2>1 DEF Settled, UserStory
    <3>2. PICK r \in rows : r.id = u
      BY <3>1 DEF Hangs, Drawn
    <3>3. r \in rows'
      BY <3>1, <3>2, SettledStays
    <3>4. ASSUME NEW q \in rows', q.id = u PROVE q.under = p
      BY <1>8, <2>1, <3>1, <3>4 DEF Hangs
    <3> QED
      BY <3>2, <3>3, <3>4 DEF Hangs, Drawn
  <2>2. CASE Comes(u) # {}
    <3>1. Comes(u) = {1}
      <4>1. ASSUME NEW k \in Comes(u) PROVE k = 1
        <5>1. CASE k > 1
          <6>1. PICK m \in Nat : k = m + 1 /\ m >= 1
            <7>1. k - 1 \in Nat /\ k = (k - 1) + 1 /\ k - 1 >= 1
              BY <1>4, <5>1
            <7> QED
              BY <7>1
          <6>2. m \in Comes(u)'
            BY <1>4, <6>1
          <6> QED
            BY <1>16, <6>2
        <5> QED
          BY <1>4, <5>1
      <4> QED
        BY <2>2, <4>1
    <3>2. e.type \in {"USER_LOGIN", "USER_CHAN_MOVE"} /\ e.id = u
      BY <1>4, <3>1
    <3>3. e.channel = p
      BY <1>0, <1>1, <2>0, <3>1 DEF UserStory
    <3>4. (p = Lobby /\ lobby) \/ \E r \in rows : r.id = p /\ r.id # u
      <4>1. CASE p \in Channels
        <5>1. Overtaken(Adds(p), {1})
          BY <1>0, <2>0, <3>1, <4>1 DEF UserStory
        <5>2. Adds(p) = {}
          BY <1>3, <4>1, <5>1 DEF Overtaken
        <5>3. p \in Listed /\ (parent[p] = Lobby \/ parent[p] \in Listed)
          BY <2>0, <4>1, ParentInTree, ChannelsAssumption DEF Lobby
        <5>4. PICK z \in Places : z = parent[p]
          BY <1>0, <5>3 DEF Places
        <5>5. Hangs(p, z)
          BY <2>0, <4>1, <5>2, <5>3, <5>4 DEF Story, ChannelStory
        <5> QED
          BY <1>0, <4>1, <5>5 DEF Hangs, Drawn
      <4> QED
        BY <4>1 DEF TakesEvent, Places
    <3>5. CASE e.type = "USER_LOGIN"
      <4>1. ~Drawn(u)
        <5>1. Clear(Comes(u), Goes(u), 1, Drawn(u))
          BY <1>0, <1>6, <3>2, <3>5 DEF UserStory
        <5> QED
          BY <1>5, <5>1 DEF Clear
      <4>2. rows' = rows \cup {[id |-> u, under |-> p]}
        BY <1>1, <2>0, <3>2, <3>3, <3>4, <3>5 DEF Shown, UserAdded
      <4> QED
        BY <4>1, <4>2, HangsNew DEF Drawn
    <3>6. CASE e.type = "USER_CHAN_MOVE"
      <4>1. (p = Lobby /\ lobby) \/ \E r \in WithoutUser(u) : r.id = p
        BY <3>4 DEF WithoutUser
      <4>2. rows' = WithoutUser(u) \cup {[id |-> u, under |-> p]}
        BY <1>1, <2>0, <3>2, <3>3, <3>6, <4>1 DEF Shown, UserMoved, UserAdded
      <4>3. PICK rest : rest = WithoutUser(u)
        OBVIOUS
      <4>4. \A r \in rest : r.id # u
        BY <4>3 DEF WithoutUser
      <4> QED
        BY <4>2, <4>3, <4>4, HangsNew
    <3> QED
      BY <3>2, <3>5, <3>6
  <2> QED
    BY <2>1, <2>2
<1> QED
  BY <1>11, <1>12, <1>13, <1>14, <1>15, <1>16 DEF UserStory
-----------------------------------------------------------------------------
(* The end of the session, and the theorems.                               *)

LEMMA GuiStory ==
  ASSUME TypeInv, Story, NEW e, TakesEvent(e)
  PROVE  Story'
<1>1. ASSUME NEW c \in Channels PROVE ChannelStory(c)'
  BY GuiChannel
<1>2. ASSUME NEW u \in Users PROVE UserStory(u)'
  BY GuiUser
<1> QED
  BY <1>1, <1>2 DEF Story

\* The event the GUI takes.
LEMMA GuiTakesOne ==
  ASSUME TypeInv, GuiEvent, at # "offline", Head(eventq).type # "DISCONNECT",
         lobby, 1 \notin Removes(Lobby)
  PROVE  \E e : TakesEvent(e) /\ e = Head(eventq)
<1>1. ListInv /\ EventIds
  BY DEF TypeInv
<1>2. Taken
  BY <1>1, GuiTakes
<1>3. PICK e \in Events : e = Head(eventq)
  BY <1>1 DEF ListInv, GuiEvent
<1>4. e = Pending[1] /\ 1 \in DOMAIN Pending
  BY <1>1, <1>2, <1>3, TakenFacts
<1>5. GoodIds(e)
  BY <1>1, <1>4 DEF EventIds, GoodIds, About
<1>6. e.type \in ChangeTypes => loggedin
  BY <1>1, <1>4 DEF EventIds, ChangeTypes
<1>7. rows' = Shown(e)
  BY <1>3 DEF GuiEvent
<1>8. ~(e.type = "CHAN_REMOVE" /\ e.id = Lobby)
  BY <1>4 DEF Removes, Where
<1> QED
  BY <1>2, <1>3, <1>4, <1>5, <1>6, <1>7, <1>8 DEF TakesEvent

\* The tree is no longer what the events tell: the row of the lobby is gone, or an
\* event is pending that will take it.
Spoilt == ~lobby \/ Removes(Lobby) # {}

LEMMA NetworkGrows ==
  ASSUME TypeInv, Network
  PROVE  lobby' = lobby /\ (Pending' = Pending \/ \E e : Grows(e))
<1>0. ListInv /\ eventq \in Seq(Events)
  BY DEF TypeInv, ListInv
<1>1. lobby' = lobby /\ rows' = rows /\ unfound' = unfound
  BY DEF Network, Tell, AddChannel, ModifyChannel, RemoveChannel, MoveChannel, UserLogin,
         UserLogout, MoveUser, LoginComplete, Disconnect, DestroyLists, Change, guiVars
<1>2. Tell => Pending' = Pending
  BY TellGrows
<1>3. DestroyLists => Pending' = Pending
  BY DEF DestroyLists, Pending
<1>4. ASSUME ~Tell, ~DestroyLists PROVE Pending' = Pending \/ \E e : Grows(e)
  <2>1. at = "idle"
    BY <1>4 DEF Network, AddChannel, ModifyChannel, RemoveChannel, MoveChannel, UserLogin,
                UserLogout, MoveUser, LoginComplete, Disconnect, Change, Packet
  <2>2. CASE at' = "tell"
    <3>1. eventq' = eventq
      BY <1>4, <2>1, <2>2
         DEF Network, AddChannel, ModifyChannel, RemoveChannel, MoveChannel, UserLogin,
             UserLogout, MoveUser, LoginComplete, Disconnect, Change, netVars
    <3>2. event' \in Events
      BY <1>0, StepKinds DEF Next, EventStays
    <3>3. PICK f \in Events : f = event'
      BY <3>2
    <3>4. Queued(f)' \in Events /\ Queued(event)' = Queued(f)'
      BY <3>3, QueuedNext DEF Queued
    <3>5. Grows(Queued(f)')
      BY <2>1, <2>2, <3>1, <3>4 DEF Grows, Pending
    <3> QED
      BY <3>5
  <2>3. CASE at' # "tell"
    <3>1. Pending = eventq /\ Pending' = eventq'
      BY <2>1, <2>3 DEF Pending
    <3>2. \A c, t \in Channels : Event("CHAN_MOVE", c, t) \in Events
      BY EventTyped DEF EventRecord, EventTypes, Places
    <3>3. Event("LOGIN_COMPLETE", Lobby, Lobby) \in Events /\ NoEvent \in Events
      BY DEF Event, NoEvent, Events, EventTypes, Places
    <3>4. UNCHANGED eventq \/ \E e \in Events : eventq' = Append(eventq, e)
      BY <1>4, <2>1, <2>3, <3>2, <3>3
         DEF Network, AddChannel, ModifyChannel, RemoveChannel, MoveChannel, UserLogin,
             UserLogout, MoveUser, LoginComplete, Disconnect, Change, Then
    <3> QED
      BY <3>1, <3>4 DEF Grows
  <2> QED
    BY <2>2, <2>3
<1> QED
  BY <1>1, <1>2, <1>3, <1>4

LEMMA SpoiltStays ==
  ASSUME TypeInv, Network, Spoilt
  PROVE  Spoilt'
<1>1. ListInv
  BY DEF TypeInv
<1>2. lobby' = lobby /\ (Pending' = Pending \/ \E e : Grows(e))
  BY NetworkGrows
<1>3. Removes(Lobby) \subseteq Removes(Lobby)'
  <2>1. CASE Pending' = Pending
    BY <2>1 DEF Removes, Where
  <2>2. ASSUME NEW e, Grows(e) PROVE Removes(Lobby) \subseteq Removes(Lobby)'
    BY <1>1, <2>2, WhereGrows DEF Removes
  <2> QED
    BY <1>2, <2>1, <2>2
<1> QED
  BY <1>2, <1>3 DEF Spoilt

\* The last channel of the list is removed.
LEMMA LastSpoils ==
  ASSUME TypeInv, RemoveChannel, chans' = <<>>
  PROVE  Spoilt'
<1>0. ListInv /\ Listed \subseteq Channels /\ Channels \subseteq Places /\ Channels \subseteq Users \cup Places
  BY DEF TypeInv, TypeOK, Listed, Places
<1>1. PICK c \in Listed : Then(Event("CHAN_REMOVE", c, c))
  BY DEF RemoveChannel
<1>2. PICK e \in Events : e = Event("CHAN_REMOVE", c, c) /\ e.type = "CHAN_REMOVE"
  BY <1>0, EventIn DEF EventTypes
<1>3. PICK f \in Events : f = Queued(e)' /\ f.type = "CHAN_REMOVE" /\ f.id = Lobby
  BY <1>2, QueuedNext
<1>4. Grows(f)
  BY <1>0, <1>1, <1>2, <1>3, PacketGrows DEF RemoveChannel, Change, Packet
<1>5. End \in Removes(Lobby)'
  BY <1>0, <1>3, <1>4, WhereGrows DEF Removes
<1> QED
  BY <1>5 DEF Spoilt

LEMMA SpoiltTaken ==
  ASSUME TypeInv, GuiEvent, at # "offline", Spoilt
  PROVE  Spoilt'
<1>1. ListInv /\ Taken
  BY GuiTakes DEF TypeInv
<1>2. CASE ~lobby
  BY <1>2 DEF GuiEvent, Spoilt
<1>3. CASE 1 \in Removes(Lobby)
  <2>1. Head(eventq) = Pending[1] /\ 1 \in DOMAIN Pending
    BY <1>1, TakenFacts
  <2>2. Head(eventq).type = "CHAN_REMOVE" /\ Head(eventq).id = Lobby
    BY <1>3, <2>1 DEF Removes, Where
  <2>3. loggedin
    BY <2>1, <2>2 DEF TypeInv, EventIds
  <2> QED
    BY <2>2, <2>3 DEF GuiEvent, LosesLobby, Spoilt
<1>4. CASE lobby /\ 1 \notin Removes(Lobby)
  <2>1. PICK j \in Removes(Lobby) : TRUE
    BY <1>4 DEF Spoilt
  <2>2. j \in Nat /\ j >= 1 /\ j # 1
    BY <1>1, <1>4, <2>1, SetsTaken DEF Removes
  <2>3. j - 1 \in Nat /\ j - 1 >= 1 /\ (j - 1) + 1 = j
    BY <2>2
  <2>4. j - 1 \in Removes(Lobby)'
    BY <1>1, <2>1, <2>3, WhereTaken DEF Removes
  <2> QED
    BY <2>4 DEF Spoilt
<1> QED
  BY <1>2, <1>3, <1>4

Over == eventq = <<>> /\ rows = {}
Ending == eventq # <<>> /\ eventq[Len(eventq)].type = "DISCONNECT"

\* Until the session ends the story holds, unless the row of the lobby is lost;
\* DISCONNECT is the last event of the session.
TreeInv ==
  /\ TypeInv
  /\ at \in {"idle", "tell"} => Spoilt \/ Story
  /\ at = "close" => loggedin /\ (Over \/ ((Spoilt \/ Story) /\ Ending))
  /\ at = "offline" => /\ ~loggedin /\ chans = <<>> /\ \A u \in Users : place[u] = Away
                       /\ Over \/ Ending

LEMMA EndingTaken ==
  ASSUME TypeInv, GuiEvent, Ending, at \in {"close", "offline"}
  PROVE  \/ Head(eventq).type = "DISCONNECT" /\ eventq' = <<>> /\ rows' = {}
         \/ Head(eventq).type # "DISCONNECT" /\ Ending'
<1>1. ListInv /\ EventIds /\ eventq' = Tail(eventq)
  BY DEF TypeInv, GuiEvent
<1>2. Pending = eventq /\ at' = at
  BY DEF Pending, GuiEvent, netVars
<1>3. PICK q \in Seq(Events) : q = eventq
  BY <1>1 DEF ListInv
<1>4. Len(q) \in Nat /\ Len(q) >= 1 /\ Head(q) = q[1] /\ DOMAIN q = 1..Len(q) /\ 1 \in DOMAIN q
  <2>1. q # <<>>
    BY <1>3 DEF GuiEvent
  <2> QED
    BY <2>1
<1>5. PICK t \in Seq(Events) : t = Tail(q)
  <2>1. q # <<>>
    BY <1>3 DEF GuiEvent
  <2>2. Tail(q) \in Seq(Events)
    BY <2>1
  <2> QED
    BY <2>2
<1>6. Len(t) = Len(q) - 1 /\ \A j \in 1..(Len(q) - 1) : t[j] = q[j + 1]
  BY <1>4, <1>5
<1>7. CASE q[1].type = "DISCONNECT"
  <2>1. 1 = Len(q)
    BY <1>1, <1>2, <1>3, <1>4, <1>7 DEF EventIds
  <2>2. t = <<>>
    BY <1>6, <2>1
  <2>3. rows' = {}
    BY <1>3, <1>4, <1>7 DEF GuiEvent, Shown
  <2> QED
    BY <1>1, <1>3, <1>4, <1>5, <1>7, <2>2, <2>3
<1>8. CASE q[1].type # "DISCONNECT"
  <2>1. q[Len(q)].type = "DISCONNECT"
    BY <1>3 DEF Ending
  <2>2. Len(q) # 1
    BY <1>8, <2>1
  <2>3. Len(t) \in 1..(Len(q) - 1) /\ Len(t) + 1 = Len(q)
    BY <1>4, <1>6, <2>2
  <2>4. t # <<>> /\ t[Len(t)].type = "DISCONNECT"
    BY <1>6, <2>1, <2>3
  <2> QED
    BY <1>1, <1>3, <1>4, <1>5, <1>8, <2>4 DEF Ending
<1> QED
  BY <1>7, <1>8

LEMMA InitStory ==
  ASSUME Init PROVE TreeInv
<1>1. TypeInv
  BY InitTyped
<1>2. at = "idle" /\ rows = {} /\ chans = <<>> /\ eventq = <<>> /\ place = [u \in Users |-> Away]
  BY DEF Init
<1>3. Pending = <<>>
  BY <1>2 DEF Pending
<1>4. \A types, x : Where(types, x) = {}
  BY <1>3 DEF Where
<1>5. Listed = {} /\ \A x : ~Drawn(x)
  BY <1>2 DEF Listed, Drawn
<1>6. ASSUME NEW c \in Channels PROVE ChannelStory(c)
  BY <1>4, <1>5 DEF ChannelStory, Adds, Removes, Clear
<1>7. ASSUME NEW u \in Users PROVE UserStory(u)
  <2>1. place[u] = Away /\ Away \notin Places /\ Away \notin Channels
    BY <1>2, ChannelsAssumption DEF Places, Lobby, Away
  <2> QED
    BY <1>4, <1>5, <2>1 DEF UserStory, Comes, Goes, Logins, Clear
<1> QED
  BY <1>1, <1>2, <1>6, <1>7 DEF TreeInv, Story

LEMMA TreeKept ==
  ASSUME TreeInv, [Next]_vars
  PROVE  TreeInv'
<1>0. TypeInv /\ TypeInv'
  BY TypeKept DEF TreeInv
<1>1. CASE UNCHANGED vars
  <2>1. Pending' = Pending
    BY <1>1 DEF vars, netVars, listVars, Pending, Queued
  <2>2. Listed' = Listed /\ parent' = parent /\ place' = place /\ rows' = rows
    BY <1>1 DEF vars, listVars, guiVars, Listed
  <2>6. Spoilt => Spoilt'
    BY <1>1, <2>1 DEF Spoilt, Removes, Where, vars, guiVars
  <2>7. Story => Story'
    BY <1>0, <2>1, <2>2, NeutralStory DEF TypeInv
  <2> QED
    BY <1>0, <1>1, <2>6, <2>7 DEF TreeInv, Over, Ending, vars, netVars, listVars, guiVars
<1>2. CASE Network /\ ~DestroyLists
  <2>1. at \in {"idle", "tell"}
    BY <1>2 DEF Network, Tell, AddChannel, ModifyChannel, RemoveChannel, MoveChannel, UserLogin,
                UserLogout, MoveUser, LoginComplete, Disconnect, Change, Packet
  <2>2. Spoilt' \/ Story'
    <3>1. Spoilt => Spoilt'
      BY <1>0, <1>2, SpoiltStays
    <3>2. RemoveChannel /\ chans' = <<>> => Spoilt'
      BY <1>0, LastSpoils
    <3>3. Story /\ (RemoveChannel => chans' # <<>>) => Story'
      BY <1>0, <1>2, NetworkStory
    <3> QED
      BY <2>1, <3>1, <3>2, <3>3 DEF TreeInv
  <2>3. at' # "offline" /\ (at' = "close" => loggedin' /\ Disconnect)
    BY <1>2, <2>1
       DEF Network, Tell, AddChannel, ModifyChannel, RemoveChannel, MoveChannel, UserLogin,
           UserLogout, MoveUser, LoginComplete, Disconnect, Change, Packet, Then, netVars
  <2>4. Disconnect => Ending'
    <3>1. PICK q \in Seq(Events) : q = eventq
      BY <1>0 DEF TypeInv, ListInv
    <3>2. NoEvent.type = "DISCONNECT"
      BY DEF NoEvent
    <3>3. Append(q, NoEvent) # <<>> /\ Append(q, NoEvent)[Len(Append(q, NoEvent))] = NoEvent
      <4>1. NoEvent \in Events
        BY DEF NoEvent, Events, EventTypes, Places
      <4>2. PICK n \in Events : n = NoEvent
        BY <4>1
      <4> QED
        BY <4>2
    <3> QED
      BY <3>1, <3>2, <3>3 DEF Disconnect, Ending
  <2> QED
    BY <1>0, <2>2, <2>3, <2>4 DEF TreeInv
<1>3. CASE DestroyLists
  <2>1. /\ at = "close" /\ at' = "offline" /\ ~loggedin' /\ chans' = <<>>
        /\ \A u \in Users : place'[u] = Away
        /\ eventq' = eventq /\ rows' = rows
    BY <1>3 DEF DestroyLists, guiVars
  <2>2. (Over \/ Ending)'
    BY <2>1 DEF TreeInv, Over, Ending
  <2> QED
    BY <1>0, <2>1, <2>2 DEF TreeInv
<1>4. CASE GuiEvent
  <2>1. /\ at' = at /\ loggedin' = loggedin /\ chans' = chans /\ place' = place /\ eventq # <<>>
    BY <1>4 DEF GuiEvent, netVars, listVars
  <2>2. (Spoilt \/ Story) /\ at # "offline" /\ Head(eventq).type # "DISCONNECT" => Spoilt' \/ Story'
    <3>1. at # "offline" /\ Spoilt => Spoilt'
      BY <1>0, <1>4, SpoiltTaken
    <3>2. Story /\ at # "offline" /\ Head(eventq).type # "DISCONNECT" /\ ~Spoilt => Story'
      BY <1>0, <1>4, GuiTakesOne, GuiStory DEF Spoilt
    <3> QED
      BY <3>1, <3>2
  <2>3. at \in {"idle", "tell"} => Head(eventq).type # "DISCONNECT"
    <3>1. Head(eventq) = Pending[1] /\ 1 \in DOMAIN Pending
      BY <1>0, <1>4, GuiTakes, TakenFacts DEF TypeInv
    <3> QED
      BY <1>0, <3>1 DEF TypeInv, EventIds
  <2>4. CASE at \in {"idle", "tell"}
    BY <1>0, <2>1, <2>2, <2>3, <2>4 DEF TreeInv
  <2>5. CASE at = "close"
    <3>1. (Spoilt \/ Story) /\ Ending /\ loggedin
      BY <2>1, <2>5 DEF TreeInv, Over
    <3>2. Over' \/ ((Spoilt' \/ Story') /\ Ending')
      BY <1>0, <1>4, <2>2, <2>5, <3>1, EndingTaken DEF Over
    <3> QED
      BY <1>0, <2>1, <2>5, <3>1, <3>2 DEF TreeInv
  <2>6. CASE at = "offline"
    <3>1. Ending
      BY <2>1, <2>6 DEF TreeInv, Over
    <3>2. Over' \/ Ending'
      BY <1>0, <1>4, <2>6, <3>1, EndingTaken DEF Over
    <3> QED
      BY <1>0, <2>1, <2>6, <3>2 DEF TreeInv
  <2>7. at \in {"idle", "tell", "close", "offline"}
    BY <1>0 DEF TypeInv, TypeOK
  <2> QED
    BY <2>4, <2>5, <2>6, <2>7
<1> QED
  BY <1>1, <1>2, <1>3, <1>4 DEF Next

LEMMA TreeFollows ==
  ASSUME TreeInv PROVE TreeMatches
<1> SUFFICES ASSUME eventq = <<>>, at \in {"idle", "offline"}, Rooted, lobby \/ at = "offline"
             PROVE  rows = Due
  BY DEF TreeMatches
<1>0. TypeInv /\ ListInv /\ TypeOK
  BY DEF TreeInv, TypeInv
<1>1. CASE at = "offline"
  <2>1. rows = {} /\ chans = <<>> /\ \A u \in Users : place[u] = Away
    BY <1>1 DEF TreeInv, Over, Ending
  <2> QED
    BY <2>1 DEF Due, Listed
<1>2. CASE at = "idle"
  <2>1. Story /\ Pending = <<>>
    <3>1. Pending = <<>> /\ lobby
      BY <1>2 DEF Pending
    <3>2. Removes(Lobby) = {}
      BY <3>1 DEF Removes, Where
    <3> QED
      BY <1>2, <3>1, <3>2 DEF TreeInv, Spoilt
  <2>2. \A types, x : Where(types, x) = {}
    BY <2>1 DEF Where
  <2>3. ASSUME NEW c \in Channels
        PROVE  IF c \in Listed THEN parent[c] \in Places /\ Hangs(c, parent[c]) ELSE ~Drawn(c)
    <3>1. CASE c \in Listed
      <4>1. InTree(c) /\ c # Lobby
        BY <3>1, ChannelsAssumption DEF Rooted, Lobby
      <4>2. PICK p \in Places : p = parent[c]
        <5>1. Listed \subseteq Channels
          BY <1>0 DEF TypeOK, Listed
        <5> QED
          BY <4>1, <5>1, ParentInTree DEF Places
      <4>3. Hangs(c, p)
        BY <2>1, <2>2, <3>1, <4>1, <4>2 DEF Story, ChannelStory, Adds
      <4> QED
        BY <3>1, <4>2, <4>3
    <3>2. CASE c \notin Listed
      BY <2>1, <2>2, <3>2 DEF Story, ChannelStory, Adds, Removes, Clear
    <3> QED
      BY <3>1, <3>2
  <2>4. ASSUME NEW u \in Users
        PROVE  IF place[u] # Away THEN Hangs(u, place[u]) ELSE ~Drawn(u)
    <3>1. CASE place[u] # Away
      <4>1. PICK p \in Places : p = place[u]
        BY <1>0, <3>1 DEF TypeOK
      <4>2. InTree(p)
        BY <3>1, <4>1 DEF Rooted
      <4>3. Hangs(u, p)
        BY <2>1, <2>2, <4>1, <4>2 DEF Story, UserStory, Comes
      <4> QED
        BY <3>1, <4>1, <4>3
    <3>2. CASE place[u] = Away
      BY <2>1, <2>2, <3>2 DEF Story, UserStory, Comes, Goes, Clear
    <3> QED
      BY <3>1, <3>2
  <2>5. ASSUME NEW r \in rows PROVE r \in Due
    <3>1. r.id \in Users \cup Channels /\ r = [id |-> r.id, under |-> r.under] /\ Drawn(r.id)
      BY <1>0, RowIds DEF Drawn
    <3>2. CASE r.id \in Channels
      <4>1. r.id \in Listed /\ r.under = parent[r.id]
        BY <2>3, <3>1, <3>2 DEF Hangs
      <4> QED
        BY <3>1, <4>1 DEF Due
    <3>3. CASE r.id \in Users
      <4>1. place[r.id] # Away /\ r.under = place[r.id]
        BY <2>4, <3>1, <3>3 DEF Hangs
      <4> QED
        BY <3>1, <3>3, <4>1 DEF Due
    <3> QED
      BY <3>1, <3>2, <3>3
  <2>6. ASSUME NEW x \in Users \cup Channels, NEW p, Hangs(x, p) PROVE [id |-> x, under |-> p] \in rows
    <3>1. PICK r \in rows : r.id = x /\ r.under = p
      BY <2>6 DEF Hangs, Drawn
    <3> QED
      BY <1>0, <3>1, RowIds
  <2>7. ASSUME NEW d \in Due PROVE d \in rows
    <3>1. CASE \E c \in Listed : d = [id |-> c, under |-> parent[c]]
      <4>1. Listed \subseteq Channels
        BY <1>0 DEF TypeOK, Listed
      <4> QED
        BY <2>3, <2>6, <3>1, <4>1
    <3>2. CASE \E u \in Users : place[u] # Away /\ d = [id |-> u, under |-> place[u]]
      BY <2>4, <2>6, <3>2
    <3> QED
      BY <2>7, <3>1, <3>2 DEF Due
  <2> QED
    BY <2>5, <2>7
<1> QED
  BY <1>1, <1>2

\* Every variable has its type: the list of channels, their parents, the places of
\* the users, the events and the rows.
THEOREM ChannelsTyped == Spec => []TypeOK
<1>1. Init => TypeInv
  BY InitTyped
<1>2. TypeInv /\ [Next]_vars => TypeInv'
  BY TypeKept
<1>3. TypeInv => TypeOK
  BY DEF TypeInv
<1> QED
  BY <1>1, <1>2, <1>3, PTL DEF Spec

\* Once the GUI has taken every event the network thread queued and the lists are
\* a tree again, the rows are exactly that tree, although each event is acted upon
\* with what the lists say later: TreeMatches, for any number of channels, users
\* and packets, unless the last channel was removed.
THEOREM TreeSafe == Spec => []TreeMatches
<1>1. Init => TreeInv
  BY InitStory
<1>2. TreeInv /\ [Next]_vars => TreeInv'
  BY TreeKept
<1>3. TreeInv => TreeMatches
  BY TreeFollows
<1> QED
  BY <1>1, <1>2, <1>3, PTL DEF Spec
-----------------------------------------------------------------------------
(* The row CHAN_MODIFY writes to is kept by its parents until then.        *)

\* A row of a channel that an event will write to: what comes before that event
\* in the queue leaves it alone.
Modifies(c)  == Where({"CHAN_MODIFY"}, c)
Before(s, i) == {j \in s : j < i}

\* No event before the i-th adds x.
Bare(x, i) == Before(Adds(x), i) = {}

\* T: channels among which the rows that hold the row of c are, and those under
\* which it will be put, until the i-th event.
Kept(T, c, i) ==
  /\ c \in T
  /\ Bare(c, i) => Drawn(c)
  /\ \A x \in T : Overtaken(Before(Removes(x), i), Before(Adds(x), i))
  /\ \A x \in T : Bare(x, i) =>
       \A r \in rows : r.id = x => r.under \in {Lobby, Away} \/ (r.under \in T /\ Bare(r.under, i))
  /\ \A x \in T, p \in Places : ~Bare(x, i) /\ x \in Listed /\ parent[x] = p =>
       p = Lobby \/ (p \in T /\ Overtaken(Before(Adds(p), i), Before(Adds(x), i)))
  /\ \A x \in T : ~Bare(x, i) /\ x \in Listed => parent[x] \in Places

ModifyStory(c) ==
  c \in Listed /\ c \notin past =>
    \A i \in Modifies(c) : /\ \A k \in Adds(c) : k < i
                           /\ \E T \in SUBSET Channels : Kept(T, c, i)

Writes == \A c \in Channels : ModifyStory(c)

\* A channel to be rewritten was on the list; the row of the lobby is taken after the
\* last channel was removed, so what is rewritten before that is gone.
Known == \A c \in Channels : Modifies(c) # {} => c \in Listed \cup past
Gone  == \A w \in Removes(Lobby), c \in Channels : \A i \in Modifies(c) : i < w => c \in past

LEMMA BeforeGrows ==
  ASSUME ListInv, Pending' = Pending \/ \E e : Grows(e), NEW i \in 1..Len(Pending)
  PROVE  /\ \A x : Before(Adds(x), i)' = Before(Adds(x), i)
         /\ \A x : Before(Removes(x), i)' = Before(Removes(x), i)
<1>1. Len(Pending) \in Nat /\ i < End
  BY PendingTyped DEF End
<1>2. ASSUME NEW types, NEW x PROVE Before(Where(types, x), i)' = Before(Where(types, x), i)
  <2>1. CASE Pending' = Pending
    <3>1. Where(types, x)' = Where(types, x)
      BY <2>1 DEF Where
    <3> QED
      BY <3>1 DEF Before
  <2>2. CASE \E e : Grows(e)
    <3>1. PICK e : Grows(e)
      BY <2>2
    <3>2. \A j : j \in Where(types, x)' <=>
                   (j \in Where(types, x) \/ (j = End /\ e.type \in types /\ e.id = x))
      BY <3>1, WhereGrows
    <3>3. ~(End < i)
      BY <1>1 DEF End
    <3>4. \A j : j \in Before(Where(types, x), i)' <=> j \in Before(Where(types, x), i)
      BY <3>2, <3>3 DEF Before
    <3>5. /\ Before(Where(types, x), i)' \subseteq Before(Where(types, x), i)
          /\ Before(Where(types, x), i) \subseteq Before(Where(types, x), i)'
      BY <3>4
    <3> QED
      BY <3>5
  <2> QED
    BY <2>1, <2>2
<1>3. \A x : Before(Where({"CHAN_ADD"}, x), i)' = Before(Where({"CHAN_ADD"}, x), i)
  BY <1>2
<1>4. \A x : Before(Where({"CHAN_REMOVE"}, x), i)' = Before(Where({"CHAN_REMOVE"}, x), i)
  BY <1>2
<1> QED
  BY <1>3, <1>4 DEF Adds, Removes

\* A step that queues an event, and takes channels off the list at most.
LEMMA KeptShrinks ==
  ASSUME ListInv, Pending' = Pending \/ \E e : Grows(e), NEW i \in 1..Len(Pending),
         rows' = rows, \A x \in Listed' : x \in Listed /\ parent'[x] = parent[x],
         NEW T \in SUBSET Channels, NEW c, Kept(T, c, i)
  PROVE  Kept(T, c, i)'
<1>1. \A x : Before(Adds(x), i)' = Before(Adds(x), i) /\ Before(Removes(x), i)' = Before(Removes(x), i)
  BY BeforeGrows
<1>2. \A x : (Bare(x, i)' <=> Bare(x, i)) /\ (Drawn(x)' <=> Drawn(x))
  BY <1>1 DEF Bare, Drawn
<1>3. c \in T /\ (Bare(c, i)' => Drawn(c)')
  BY <1>2 DEF Kept
<1>4. \A x \in T : Overtaken(Before(Removes(x), i)', Before(Adds(x), i)')
  BY <1>1 DEF Kept
<1>5. \A x \in T : Bare(x, i)' =>
        \A r \in rows' : r.id = x => r.under \in {Lobby, Away} \/ (r.under \in T /\ Bare(r.under, i)')
  BY <1>2 DEF Kept
<1>6. \A x \in T, p \in Places : ~Bare(x, i)' /\ x \in Listed' /\ parent'[x] = p =>
        p = Lobby \/ (p \in T /\ Overtaken(Before(Adds(p), i)', Before(Adds(x), i)'))
  BY <1>1, <1>2 DEF Kept
<1>7. \A x \in T : ~Bare(x, i)' /\ x \in Listed' => parent'[x] \in Places
  BY <1>2 DEF Kept
<1> QED
  BY <1>3, <1>4, <1>5, <1>6, <1>7 DEF Kept

\* A channel comes back that nothing on the list hangs under.
LEMMA KeptGrows ==
  ASSUME ListInv, Pending' = Pending \/ \E e : Grows(e), NEW i \in 1..Len(Pending),
         rows' = rows, NEW d \in Channels, d \notin Listed, Listed' = Listed \cup {d},
         \A x \in Listed : parent'[x] = parent[x] /\ parent[x] # d,
         NEW T \in SUBSET Channels, NEW c, c # d, Kept(T, c, i)
  PROVE  \E S \in SUBSET Channels : Kept(S, c, i)'
<1>1. \A x : Before(Adds(x), i)' = Before(Adds(x), i) /\ Before(Removes(x), i)' = Before(Removes(x), i)
  BY BeforeGrows
<1>2. \A x : (Bare(x, i)' <=> Bare(x, i)) /\ (Drawn(x)' <=> Drawn(x))
  BY <1>1 DEF Bare, Drawn
<1>3. PICK S \in SUBSET Channels : S = {x \in T : x # d \/ Bare(x, i)}
  OBVIOUS
<1>4. c \in S /\ (Bare(c, i)' => Drawn(c)')
  BY <1>2, <1>3 DEF Kept
<1>5. \A x \in S : Overtaken(Before(Removes(x), i)', Before(Adds(x), i)')
  BY <1>1, <1>3 DEF Kept
<1>6. \A x \in S : Bare(x, i)' =>
        \A r \in rows' : r.id = x => r.under \in {Lobby, Away} \/ (r.under \in S /\ Bare(r.under, i)')
  BY <1>2, <1>3 DEF Kept
<1>7. ASSUME NEW x \in S, ~Bare(x, i)', x \in Listed' PROVE x \in Listed /\ x \in T /\ ~Bare(x, i)
  BY <1>2, <1>3, <1>7
<1>8. ASSUME NEW x \in S, NEW p \in Places, ~Bare(x, i)', x \in Listed', parent'[x] = p
      PROVE  p = Lobby \/ (p \in S /\ Overtaken(Before(Adds(p), i)', Before(Adds(x), i)'))
  <2>1. x \in Listed /\ x \in T /\ ~Bare(x, i) /\ parent[x] = p /\ p # d
    BY <1>7, <1>8
  <2>2. p = Lobby \/ (p \in T /\ Overtaken(Before(Adds(p), i), Before(Adds(x), i)))
    BY <2>1 DEF Kept
  <2> QED
    BY <1>1, <1>3, <2>1, <2>2
<1>9. \A x \in S : ~Bare(x, i)' /\ x \in Listed' => parent'[x] \in Places
  BY <1>7 DEF Kept
<1>10. Kept(S, c, i)'
  BY <1>4, <1>5, <1>6, <1>8, <1>9 DEF Kept
<1> QED
  BY <1>10

\* When the event is queued the row is kept: by the parents of the channel.
LEMMA KeptFirst ==
  ASSUME TypeInv, Story, NEW e, Grows(e), e.type = "CHAN_MODIFY", NEW c \in Listed, InTree(c),
         rows' = rows, Listed' = Listed, parent' = parent, NEW i \in Nat, i = End
  PROVE  \E T \in SUBSET Channels : Kept(T, c, i)'
<1>0. ListInv /\ TypeOK /\ Listed \subseteq Channels /\ Lobby \notin Channels
  BY ChannelsAssumption DEF TypeInv, TypeOK, Listed, Lobby
<1>1. PICK up \in SUBSET Listed : c \in up /\ \A d \in up : parent[d] \in up \cup {Lobby}
  BY <1>0 DEF InTree
<1>2. \A x : Adds(x)' = Adds(x) /\ Removes(x)' = Removes(x)
  BY <1>0, SilentChannel DEF Silent, ChannelTypes
<1>3. \A x : Before(Adds(x), i) = Adds(x) /\ Before(Removes(x), i) = Removes(x)
  BY <1>0, SetsTyped DEF Sets, Before
<1>4. \A x : Before(Adds(x), i)' = Adds(x) /\ Before(Removes(x), i)' = Removes(x)
  BY <1>2, <1>3 DEF Before
<1>5. \A x : (Bare(x, i)' <=> Adds(x) = {}) /\ (Drawn(x)' <=> Drawn(x))
  BY <1>4 DEF Bare, Drawn
<1>6. ASSUME NEW x \in up
      PROVE  /\ ChannelStory(x) /\ InTree(x)
             /\ \E p \in Places : /\ parent[x] = p /\ p \in up \cup {Lobby}
                                  /\ p # Lobby => Overtaken(Adds(p), Adds(x))
                                  /\ Adds(x) = {} => Hangs(x, p)
  <2>1. ChannelStory(x)
    BY <1>0, <1>6 DEF Story
  <2>2. InTree(x)
    BY <1>1, <1>6 DEF InTree
  <2>3. PICK p \in Places : parent[x] = p /\ p \in up \cup {Lobby}
    BY <1>0, <1>1 DEF Places
  <2>4. Adds(x) = {} => Hangs(x, p)
    BY <2>1, <2>2, <2>3 DEF ChannelStory
  <2>5. p # Lobby => Overtaken(Adds(p), Adds(x))
    BY <1>0, <2>1, <2>3 DEF ChannelStory
  <2> QED
    BY <2>1, <2>2, <2>3, <2>4, <2>5
<1>7. Bare(c, i)' => Drawn(c)'
  BY <1>1, <1>5, <1>6 DEF Hangs
<1>8. \A x \in up : Overtaken(Before(Removes(x), i)', Before(Adds(x), i)')
  BY <1>4, <1>6 DEF ChannelStory
<1>9. ASSUME NEW x \in up, Bare(x, i)', NEW r \in rows', r.id = x
      PROVE  r.under \in {Lobby, Away} \/ (r.under \in up /\ Bare(r.under, i)')
  <2>1. PICK p \in Places : /\ parent[x] = p /\ p \in up \cup {Lobby}
                            /\ p # Lobby => Overtaken(Adds(p), Adds(x))
                            /\ Adds(x) = {} => Hangs(x, p)
    BY <1>6
  <2>2. Adds(x) = {} /\ r.under = p
    BY <1>5, <1>9, <2>1 DEF Hangs
  <2>3. p # Lobby => Adds(p) = {}
    BY <2>1, <2>2 DEF Overtaken
  <2> QED
    BY <1>5, <2>1, <2>2, <2>3
<1>10. \A x \in up, p \in Places : ~Bare(x, i)' /\ x \in Listed' /\ parent'[x] = p =>
         p = Lobby \/ (p \in up /\ Overtaken(Before(Adds(p), i)', Before(Adds(x), i)'))
  BY <1>4, <1>6
<1>11. \A x \in up : ~Bare(x, i)' /\ x \in Listed' => parent'[x] \in Places
  BY <1>6
<1>12. Kept(up, c, i)'
  BY <1>1, <1>7, <1>8, <1>9, <1>10, <1>11 DEF Kept
<1> QED
  BY <1>0, <1>12

LEMMA BeforeTaken ==
  ASSUME ListInv, Taken, NEW i \in Nat, i >= 1, NEW types, NEW x
  PROVE  /\ Before(Where(types, x), i + 1) \in SUBSET Nat /\ Before(Where(types, x), i)' \in SUBSET Nat
         /\ \A j \in Before(Where(types, x), i + 1) : j >= 1
         /\ \A j : j \in Before(Where(types, x), i)'
                     <=> j \in Nat /\ j >= 1 /\ j + 1 \in Before(Where(types, x), i + 1)
         /\ 1 \in Before(Where(types, x), i + 1) <=> 1 \in Where(types, x)
  BY SetsTaken DEF Before

\* Taking one event keeps the row.
LEMMA KeptTaken ==
  ASSUME TypeInv, Story, NEW e, TakesEvent(e), NEW c \in Channels, NEW i \in Nat, i >= 1,
         NEW T \in SUBSET Channels, Kept(T, c, i + 1),
         c \in Listed
  PROVE  Kept(T, c, i)'
<1>0. ListInv /\ TypeOK /\ Listed \subseteq Channels /\ Channels \cap Users = {} /\ Lobby \notin Channels
  BY ChannelsAssumption DEF TypeInv, Listed, TypeOK, Lobby
<1>1. Taken /\ e = Pending[1] /\ GoodIds(e) /\ rows' = Shown(e)
  BY DEF TakesEvent
<1>2. Listed' = Listed /\ parent' = parent
  BY DEF TakesEvent, GuiEvent, listVars, Listed
<1>3. \A x : /\ Before(Adds(x), i + 1) \in SUBSET Nat /\ Before(Adds(x), i)' \in SUBSET Nat
             /\ \A j \in Before(Adds(x), i + 1) : j >= 1
             /\ \A j : j \in Before(Adds(x), i)' <=> j \in Nat /\ j >= 1 /\ j + 1 \in Before(Adds(x), i + 1)
             /\ 1 \in Before(Adds(x), i + 1) <=> e.type = "CHAN_ADD" /\ e.id = x
  <2>1. ASSUME NEW x
        PROVE  /\ Before(Adds(x), i + 1) \in SUBSET Nat /\ Before(Adds(x), i)' \in SUBSET Nat
               /\ \A j \in Before(Adds(x), i + 1) : j >= 1
               /\ \A j : j \in Before(Adds(x), i)' <=> j \in Nat /\ j >= 1 /\ j + 1 \in Before(Adds(x), i + 1)
               /\ 1 \in Before(Adds(x), i + 1) <=> 1 \in Adds(x)
    BY <1>0, <1>1, BeforeTaken DEF Adds
  <2>2. \A x : 1 \in Adds(x) <=> e.type = "CHAN_ADD" /\ e.id = x
    BY <1>0, HeadAt DEF Adds
  <2> QED
    BY <2>1, <2>2
<1>4. \A x : /\ Before(Removes(x), i + 1) \in SUBSET Nat /\ Before(Removes(x), i)' \in SUBSET Nat
             /\ \A j : j \in Before(Removes(x), i)' <=> j \in Nat /\ j >= 1 /\ j + 1 \in Before(Removes(x), i + 1)
             /\ 1 \in Before(Removes(x), i + 1) <=> e.type = "CHAN_REMOVE" /\ e.id = x
  <2>1. ASSUME NEW x
        PROVE  /\ Before(Removes(x), i + 1) \in SUBSET Nat /\ Before(Removes(x), i)' \in SUBSET Nat
               /\ \A j : j \in Before(Removes(x), i)' <=> j \in Nat /\ j >= 1 /\ j + 1 \in Before(Removes(x), i + 1)
               /\ 1 \in Before(Removes(x), i + 1) <=> 1 \in Removes(x)
    BY <1>0, <1>1, BeforeTaken DEF Removes
  <2>2. \A x : 1 \in Removes(x) <=> e.type = "CHAN_REMOVE" /\ e.id = x
    BY <1>0, HeadAt DEF Removes
  <2> QED
    BY <2>1, <2>2
<1>5. ASSUME NEW x, Bare(x, i + 1) PROVE Bare(x, i)' /\ ~(e.type = "CHAN_ADD" /\ e.id = x)
  BY <1>3, <1>5 DEF Bare
<1>6. ASSUME NEW x, Bare(x, i)', ~Bare(x, i + 1)
      PROVE  e.type = "CHAN_ADD" /\ e.id = x /\ Before(Adds(x), i + 1) = {1} /\ 1 \in Adds(x)
  <2>1. ASSUME NEW k \in Before(Adds(x), i + 1) PROVE k = 1
    <3>1. CASE k > 1
      <4>1. PICK m \in Nat : k = m + 1 /\ m >= 1
        <5>1. k - 1 \in Nat /\ k = (k - 1) + 1 /\ k - 1 >= 1
          BY <1>3, <2>1, <3>1
        <5> QED
          BY <5>1
      <4>2. m \in Before(Adds(x), i)'
        BY <1>3, <2>1, <4>1
      <4> QED
        BY <1>6, <4>2 DEF Bare
    <3> QED
      BY <1>3, <2>1, <3>1
  <2>2. Before(Adds(x), i + 1) = {1}
    BY <1>6, <2>1 DEF Bare
  <2>3. 1 \in Adds(x)
    BY <2>2 DEF Before
  <2> QED
    BY <1>3, <2>2, <2>3
<1>7. ASSUME NEW x, x \in Channels, NEW r \in rows', r.id = x, ~(e.type = "CHAN_ADD" /\ e.id = x)
      PROVE  r \in rows
  <2>1. e.type \in {"USER_LOGIN", "USER_CHAN_MOVE"} => e.id # x
    BY <1>0, <1>1, <1>7 DEF GoodIds, About
  <2> QED
    BY <1>7, <2>1, RowsAfter
\* The rows of channels of T nothing adds before that event stay.
<1>8. ASSUME NEW r \in rows, r.id \in T, Bare(r.id, i + 1) PROVE r \in rows'
  <2>1. CASE e.type = "CHAN_REMOVE"
    <3>1. PICK S \in SUBSET rows : S = {q \in rows : ~(q.id \in T /\ Bare(q.id, i + 1))}
      OBVIOUS
    <3>0. e.id \in Channels /\ e.id \notin {Lobby, Away}
      BY <1>1, <2>1, ChannelsAssumption DEF TakesEvent, GoodIds, About, Places, Lobby, Away
    <3>7. ASSUME e.id \in T, Bare(e.id, i + 1) PROVE FALSE
      <4>1. 1 \in Before(Removes(e.id), i + 1)
        BY <1>4, <2>1
      <4>2. Overtaken(Before(Removes(e.id), i + 1), Before(Adds(e.id), i + 1))
        BY <3>7 DEF Kept
      <4> QED
        BY <3>7, <4>1, <4>2 DEF Overtaken, Bare
    <3>2. ASSUME NEW q \in rows, q.id = e.id \/ q.under = e.id PROVE q \in S
      <4>1. ASSUME q.id \in T, Bare(q.id, i + 1), q.under = e.id PROVE FALSE
        <5>1. q.under \in {Lobby, Away} \/ (q.under \in T /\ Bare(q.under, i + 1))
          BY <4>1 DEF Kept
        <5> QED
          BY <3>0, <3>7, <4>1, <5>1
      <4> QED
        BY <3>1, <3>2, <3>7, <4>1
    <3>3. ASSUME NEW q \in rows, NEW s \in S, q.under = s.id PROVE q \in S
      <4>1. ASSUME q.id \in T, Bare(q.id, i + 1) PROVE FALSE
        <5>1. q.under \in {Lobby, Away} \/ (q.under \in T /\ Bare(q.under, i + 1))
          BY <4>1 DEF Kept
        <5>2. s \in rows /\ ~(s.id \in T /\ Bare(s.id, i + 1)) /\ s.id # Lobby /\ s.id # Away
          BY <1>0, <3>1, RowIds
        <5> QED
          BY <3>3, <5>1, <5>2
      <4> QED
        BY <3>1, <4>1
    <3>4. HoldsBelow(S, e.id)
      BY <3>2, <3>3 DEF HoldsBelow
    <3>5. r \notin S
      BY <1>8, <3>1
    <3>6. r \in Erased(e.id)
      BY <3>4, <3>5 DEF Erased
    <3> QED
      BY <1>1, <2>1, <3>6 DEF Shown
  <2>2. CASE e.type \in {"USER_LOGOUT", "USER_CHAN_MOVE"}
    <3>1. e.id \in Users /\ r.id # e.id
      BY <1>0, <1>1, <1>8, <2>2 DEF GoodIds, About
    <3>2. r \in WithoutUser(e.id)
      BY <3>1 DEF WithoutUser
    <3> QED
      BY <1>1, <2>2, <3>2 DEF Shown, UserMoved, UserAdded
  <2>3. CASE e.type \notin {"CHAN_REMOVE", "USER_LOGOUT", "USER_CHAN_MOVE"}
    BY <1>1, <2>3 DEF TakesEvent, Shown, UserAdded, ChannelAdded
  <2> QED
    BY <2>1, <2>2, <2>3
<1>9. Bare(c, i)' => Drawn(c)'
  <2>1. CASE Bare(c, i + 1)
    <3>1. PICK r \in rows : r.id = c
      BY <2>1 DEF Kept, Drawn
    <3>2. r \in rows'
      BY <1>8, <2>1, <3>1 DEF Kept
    <3> QED
      BY <3>1, <3>2 DEF Drawn
  <2>2. CASE Bare(c, i)' /\ ~Bare(c, i + 1)
    <3>1. e.type = "CHAN_ADD" /\ e.id = c
      BY <1>6, <2>2
    <3>2. rows' = ChannelAdded(c)
      BY <1>1, <3>1 DEF Shown
    <3>3. PICK n : n = [id |-> c, under |-> IF HasRow(parent[c]) THEN parent[c] ELSE Away]
      OBVIOUS
    <3>4. n \in rows' /\ n.id = c
      BY <3>2, <3>3 DEF ChannelAdded
    <3> QED
      BY <3>4 DEF Drawn
  <2> QED
    BY <2>1, <2>2
<1>10. ASSUME NEW x \in T PROVE Overtaken(Before(Removes(x), i)', Before(Adds(x), i)')
  <2>1. Overtaken(Before(Removes(x), i + 1), Before(Adds(x), i + 1))
    BY DEF Kept
  <2> QED
    BY <1>3, <1>4, <2>1, OvertakenTaken
<1>11. ASSUME NEW x \in T, Bare(x, i)', NEW r \in rows', r.id = x
       PROVE  r.under \in {Lobby, Away} \/ (r.under \in T /\ Bare(r.under, i)')
  <2>1. CASE Bare(x, i + 1)
    <3>1. r \in rows
      BY <1>5, <1>7, <1>11, <2>1
    <3>2. r.under \in {Lobby, Away} \/ (r.under \in T /\ Bare(r.under, i + 1))
      BY <1>11, <2>1, <3>1 DEF Kept
    <3> QED
      BY <1>5, <3>2
  <2>2. CASE ~Bare(x, i + 1)
    <3>1. e.type = "CHAN_ADD" /\ e.id = x /\ Before(Adds(x), i + 1) = {1} /\ 1 \in Adds(x)
      BY <1>6, <1>11, <2>2
    <3>2. ~Drawn(x)
      <4>1. Clear(Adds(x), Removes(x), 1, Drawn(x))
        BY <3>1 DEF Story, ChannelStory
      <4>2. \A j \in Removes(x) : j \in Nat /\ j >= 1
        BY <1>0, SetsTyped DEF Sets
      <4> QED
        BY <4>1, <4>2 DEF Clear
    <3>3. r \notin rows
      BY <1>11, <3>2 DEF Drawn
    <3>4. x \in Listed /\ rows' = ChannelAdded(x)
      BY <1>1, <1>11, <3>1, <3>3 DEF Shown
    <3>5. r = [id |-> x, under |-> IF HasRow(parent[x]) THEN parent[x] ELSE Away]
      BY <1>11, <3>3, <3>4 DEF ChannelAdded
    <3>6. r.under = Away \/ r.under = parent[x]
      BY <3>5
    <3>7. PICK p \in Places : p = parent[x]
      BY <2>2, <3>4 DEF Kept
    <3>8. p = Lobby \/ (p \in T /\ Overtaken(Before(Adds(p), i + 1), Before(Adds(x), i + 1)))
      BY <2>2, <3>4, <3>7 DEF Kept
    <3>9. p # Lobby => Before(Adds(p), i + 1) = {}
      BY <1>3, <3>1, <3>8 DEF Overtaken
    <3> QED
      BY <1>5, <3>6, <3>7, <3>8, <3>9 DEF Bare
  <2> QED
    BY <2>1, <2>2
<1>12. ASSUME NEW x \in T, ~Bare(x, i)' PROVE ~Bare(x, i + 1)
  BY <1>5, <1>12
<1>13. ASSUME NEW x \in T, NEW p \in Places, ~Bare(x, i)', x \in Listed', parent'[x] = p
       PROVE  p = Lobby \/ (p \in T /\ Overtaken(Before(Adds(p), i)', Before(Adds(x), i)'))
  <2>1. p = Lobby \/ (p \in T /\ Overtaken(Before(Adds(p), i + 1), Before(Adds(x), i + 1)))
    BY <1>2, <1>12, <1>13 DEF Kept
  <2> QED
    BY <1>3, <2>1, OvertakenTaken
<1>14. \A x \in T : ~Bare(x, i)' /\ x \in Listed' => parent'[x] \in Places
  BY <1>2, <1>12 DEF Kept
<1>15. c \in T
  BY DEF Kept
<1> QED
  BY <1>9, <1>10, <1>11, <1>13, <1>14, <1>15 DEF Kept

\* A step that neither adds a channel nor asks for one to be rewritten.
LEMMA WritesSame ==
  ASSUME TypeInv, Writes, rows' = rows,
         Pending' = Pending \/ \E e : Grows(e) /\ e.type \notin {"CHAN_ADD", "CHAN_MODIFY"},
         \A x \in Listed' : x \in Listed /\ parent'[x] = parent[x],
         past \subseteq past'
  PROVE  Writes'
<1>0. ListInv
  BY DEF TypeInv
<1>1. ASSUME NEW c \in Channels PROVE ModifyStory(c)'
  <2>1. Where({"CHAN_MODIFY"}, c)' = Where({"CHAN_MODIFY"}, c) /\ Where({"CHAN_ADD"}, c)' = Where({"CHAN_ADD"}, c)
    BY <1>0, WhereSame
  <2>2. Modifies(c)' = Modifies(c) /\ Adds(c)' = Adds(c)
    BY <2>1 DEF Modifies, Adds
  <2>3. ModifyStory(c)
    BY DEF Writes
  <2>4. ASSUME c \in Listed', c \notin past', NEW i \in Modifies(c)'
        PROVE  (\A k \in Adds(c)' : k < i) /\ \E T \in SUBSET Channels : Kept(T, c, i)'
    <3>1. i \in Modifies(c) /\ c \in Listed /\ c \notin past
      BY <2>2, <2>4
    <3>2. PICK T \in SUBSET Channels : Kept(T, c, i)
      BY <2>3, <3>1 DEF ModifyStory
    <3>3. i \in 1..Len(Pending)
      BY <1>0, <3>1, WhereRange DEF Modifies
    <3>4. Pending' = Pending \/ \E e : Grows(e)
      OBVIOUS
    <3>5. Kept(T, c, i)'
      BY <1>0, <3>2, <3>3, <3>4, KeptShrinks
    <3> QED
      BY <2>2, <2>3, <3>1, <3>5 DEF ModifyStory
  <2> QED
    BY <2>2, <2>3, <2>4 DEF ModifyStory
<1> QED
  BY <1>1 DEF Writes

LEMMA WritesModify ==
  ASSUME TypeInv, Story, Writes, ModifyChannel
  PROVE  Writes'
<1>0. ListInv /\ TypeOK /\ Listed \subseteq Channels /\ Channels \subseteq Places
      /\ Channels \subseteq Users \cup Places
  BY DEF TypeInv, TypeOK, Listed, Places
<1>1. PICK d \in Listed : InTree(d) /\ Then(Event("CHAN_MODIFY", d, d))
  BY DEF ModifyChannel
<1>2. PICK e \in Events : e = Event("CHAN_MODIFY", d, d) /\ e.type = "CHAN_MODIFY" /\ e.id = d
  BY <1>0, EventIn DEF EventTypes
<1>3. Grows(e)
  <2>1. chans' # <<>>
    BY <1>1 DEF ModifyChannel, listVars, Listed
  <2> QED
    BY <1>0, <1>1, <1>2, <2>1, QueuedPlain, PacketGrows DEF ModifyChannel, Change, Packet
<1>4. rows' = rows /\ Listed' = Listed /\ parent' = parent /\ past' = past
  BY DEF ModifyChannel, Change, listVars, guiVars, Listed
<1>5. End \in Nat /\ \A x : Sets(x)
  BY <1>0, SetsTyped
<1>6. ASSUME NEW c \in Channels PROVE ModifyStory(c)'
  <2>1. \A j : j \in Modifies(c)' <=> j \in Modifies(c) \/ (j = End /\ c = d)
    BY <1>0, <1>2, <1>3, WhereGrows DEF Modifies
  <2>2. Where({"CHAN_ADD"}, c)' = Where({"CHAN_ADD"}, c)
    BY <1>0, <1>2, <1>3, WhereSame
  <2>3. Adds(c)' = Adds(c) /\ ModifyStory(c)
    BY <2>2 DEF Adds, Writes
  <2>4. ASSUME c \in Listed, c \notin past, NEW i \in Modifies(c)'
        PROVE  (\A k \in Adds(c) : k < i) /\ \E T \in SUBSET Channels : Kept(T, c, i)'
    <3>1. CASE i \in Modifies(c)
      <4>1. PICK T \in SUBSET Channels : Kept(T, c, i)
        BY <2>3, <2>4, <3>1 DEF ModifyStory
      <4>2. i \in 1..Len(Pending)
        BY <1>0, <3>1, WhereRange DEF Modifies
      <4>3. Kept(T, c, i)'
        BY <1>0, <1>3, <1>4, <4>1, <4>2, KeptShrinks
      <4> QED
        BY <2>3, <2>4, <3>1, <4>3 DEF ModifyStory
    <3>2. CASE i = End /\ c = d
      <4>1. PICK n \in Nat : n = End /\ n = i
        BY <1>5, <3>2
      <4>2. \E T \in SUBSET Channels : Kept(T, c, n)'
        BY <1>1, <1>2, <1>3, <1>4, <3>2, <4>1, KeptFirst
      <4>3. \A k \in Adds(c) : k < i
        BY <1>5, <3>2 DEF Sets
      <4> QED
        BY <4>1, <4>2, <4>3
    <3> QED
      BY <2>1, <2>4, <3>1, <3>2
  <2> QED
    BY <1>4, <2>3, <2>4 DEF ModifyStory
<1> QED
  BY <1>6 DEF Writes

LEMMA WritesAdd ==
  ASSUME TypeInv, Story, Writes, Known, AddChannel
  PROVE  Writes'
<1>0. ListInv /\ TypeOK /\ Channels \subseteq Places /\ Channels \subseteq Users \cup Places
      /\ Listed \subseteq Channels
  BY DEF TypeInv, Places, TypeOK, Listed
<1>1. PICK d \in Channels, q \in Places :
        /\ d \notin Listed
        /\ \A x \in Listed : parent[x] # d
        /\ chans' = Append(chans, d)
        /\ parent' = [parent EXCEPT ![d] = q]
        /\ Then(Event("CHAN_ADD", d, d))
  BY DEF AddChannel
<1>2. rows' = rows /\ at = "idle" /\ eventq' = eventq /\ past' = past
  BY DEF AddChannel, guiVars, Packet
<1>3. PICK e \in Events : e = Event("CHAN_ADD", d, d) /\ e.type = "CHAN_ADD" /\ e.id = d
  BY <1>0, EventIn DEF EventTypes
<1>4. Grows(e)
  <2>1. chans' # <<>>
    BY <1>0, <1>1 DEF ListInv
  <2> QED
    BY <1>0, <1>1, <1>2, <1>3, <2>1, QueuedPlain, PacketGrows
<1>5. Listed' = Listed \cup {d}
  BY <1>0, <1>1, ListedAppended
<1>6. \A x \in Listed : parent'[x] = parent[x] /\ parent[x] # d
  BY <1>0, <1>1 DEF TypeOK
<1>7. ASSUME NEW c \in Channels PROVE ModifyStory(c)'
  <2>1. Where({"CHAN_MODIFY"}, c)' = Where({"CHAN_MODIFY"}, c)
    BY <1>0, <1>3, <1>4, WhereSame
  <2>2. Modifies(c)' = Modifies(c) /\ ModifyStory(c)
    BY <2>1 DEF Modifies, Writes
  <2>3. ASSUME c \in Listed', c \notin past', NEW i \in Modifies(c)'
        PROVE  (\A k \in Adds(c)' : k < i) /\ \E T \in SUBSET Channels : Kept(T, c, i)'
    <3>1. i \in Modifies(c) /\ c \in Listed /\ c # d /\ c \notin past
      BY <1>1, <1>2, <1>5, <2>2, <2>3 DEF Known
    <3>2. PICK T \in SUBSET Channels : Kept(T, c, i)
      BY <2>2, <3>1 DEF ModifyStory
    <3>3. i \in 1..Len(Pending)
      BY <1>0, <3>1, WhereRange DEF Modifies
    <3>4. \E S \in SUBSET Channels : Kept(S, c, i)'
      BY <1>0, <1>1, <1>2, <1>4, <1>5, <1>6, <3>1, <3>2, <3>3, KeptGrows
    <3>5. Where({"CHAN_ADD"}, c)' = Where({"CHAN_ADD"}, c)
      BY <1>0, <1>3, <1>4, <3>1, WhereSame
    <3> QED
      BY <2>2, <3>1, <3>4, <3>5 DEF ModifyStory, Adds
  <2> QED
    BY <2>3 DEF ModifyStory
<1> QED
  BY <1>7 DEF Writes

LEMMA WritesRemove ==
  ASSUME TypeInv, Story, Writes, RemoveChannel, chans' # <<>>
  PROVE  Writes'
<1>0. ListInv /\ TypeOK /\ Channels \subseteq Places /\ Channels \subseteq Users \cup Places
      /\ Listed \subseteq Channels
  BY DEF TypeInv, Places, TypeOK, Listed
<1>1. PICK d \in Listed : /\ chans' = Removed(d)
                          /\ parent' = [parent EXCEPT ![d] = Away]
                          /\ past' = past \cup {d}
                          /\ Then(Event("CHAN_REMOVE", d, d))
  BY DEF RemoveChannel
<1>2. rows' = rows /\ at = "idle" /\ eventq' = eventq
  BY DEF RemoveChannel, Change, guiVars, Packet
<1>3. PICK e \in Events : e = Event("CHAN_REMOVE", d, d) /\ e.type = "CHAN_REMOVE" /\ e.id = d
  BY <1>0, EventIn DEF EventTypes
<1>4. Grows(e)
  BY <1>0, <1>1, <1>2, <1>3, QueuedPlain, PacketGrows
<1>5. Listed' = Listed \ {d}
  BY <1>0, <1>1, ListedRemoved
<1>6. \A x \in Listed' : x \in Listed /\ parent'[x] = parent[x]
  BY <1>0, <1>1, <1>5 DEF TypeOK
<1> QED
  BY <1>1, <1>2, <1>3, <1>4, <1>6, WritesSame

LEMMA NetworkWrites ==
  ASSUME TypeInv, Story, Writes, Known, Network, ~DestroyLists, RemoveChannel => chans' # <<>>
  PROVE  Writes'
<1>0. /\ ListInv /\ TypeOK /\ Channels \subseteq Places /\ Channels \subseteq Users \cup Places
      /\ Users \subseteq Users \cup Places /\ Lobby \in Places /\ Lobby \in Users \cup Places
      /\ Listed \subseteq Channels
  BY DEF TypeInv, Places, Listed, TypeOK
<1>1. CASE AddChannel
  BY <1>1, WritesAdd
<1>2. CASE ModifyChannel
  BY <1>2, WritesModify
<1>3. CASE RemoveChannel
  BY <1>3, WritesRemove
<1> DEFINE Still == /\ rows' = rows /\ Listed' = Listed /\ parent' = parent /\ past' = past
                    /\ \/ Pending' = Pending
                       \/ \E e : Grows(e) /\ e.type \notin {"CHAN_ADD", "CHAN_MODIFY"}
<1>4. Still => Writes'
  BY WritesSame
<1>5. CASE Tell
  BY <1>4, <1>5, TellGrows DEF Tell, listVars, guiVars, Listed
<1>6. CASE MoveChannel
  <2>1. PICK c \in Channels, t \in Channels :
          /\ chans' = MoveBefore(chans, c, t)
          /\ eventq' = eventq \/ eventq' = Append(eventq, Event("CHAN_MOVE", c, t))
    BY <1>6 DEF MoveChannel
  <2>2. PICK e \in Events : e = Event("CHAN_MOVE", c, t) /\ e.type = "CHAN_MOVE"
    BY <1>0, EventIn DEF EventTypes
  <2>3. at = "idle" /\ at' = at /\ rows' = rows /\ parent' = parent /\ past' = past
    BY <1>6 DEF MoveChannel, Packet, netVars, guiVars
  <2>4. Listed' = Listed
    BY <1>0, <2>1, ListedMoved
  <2>5. eventq' = eventq => Pending' = Pending
    BY <2>3 DEF Pending
  <2>6. eventq' = Append(eventq, e) => Grows(e)
    BY <1>0, <2>3, QueueGrows
  <2> QED
    BY <1>4, <2>1, <2>2, <2>3, <2>4, <2>5, <2>6
<1>7. CASE UserLogin \/ UserLogout \/ MoveUser
  <2>1. PICK type \in {"USER_LOGIN", "USER_LOGOUT", "USER_CHAN_MOVE"}, u \in Users, c \in Places :
          Then(Event(type, u, c))
    <3>1. ASSUME NEW u \in Users, place[u] # Away PROVE place[u] \in Places
      BY <1>0, <3>1 DEF TypeOK
    <3>2. UserLogin => \E u \in Users, c \in Places : Then(Event("USER_LOGIN", u, c))
      BY DEF UserLogin
    <3>3. UserLogout => \E u \in Users, c \in Places : Then(Event("USER_LOGOUT", u, c))
      BY <3>1 DEF UserLogout
    <3>4. MoveUser => \E u \in Users, c \in Places : Then(Event("USER_CHAN_MOVE", u, c))
      BY DEF MoveUser
    <3> QED
      BY <1>7, <3>2, <3>3, <3>4
  <2>2. PICK e \in Events : e = Queued(Event(type, u, c))' /\ e.type = type
    <3>1. Event(type, u, c) \in Events /\ Event(type, u, c).type = type
      BY <1>0, EventIn DEF EventTypes
    <3> QED
      BY <3>1, QueuedNext
  <2>3. at = "idle" /\ eventq' = eventq
    BY <1>7 DEF UserLogin, UserLogout, MoveUser, Change, Packet
  <2>4. Grows(e)
    <3>1. Event(type, u, c) \in Events
      BY <1>0, EventIn DEF EventTypes
    <3> QED
      BY <1>0, <2>1, <2>2, <2>3, <3>1, PacketGrows
  <2>5. rows' = rows /\ Listed' = Listed /\ parent' = parent /\ past' = past
    BY <1>7 DEF UserLogin, UserLogout, MoveUser, Change, guiVars, Listed
  <2> QED
    BY <1>4, <2>1, <2>2, <2>4, <2>5
<1>8. CASE LoginComplete
  <2>1. PICK e \in Events : e = Event("LOGIN_COMPLETE", Lobby, Lobby) /\ e.type = "LOGIN_COMPLETE"
    BY <1>0, EventIn DEF EventTypes
  <2>2. Grows(e)
    BY <1>0, <1>8, <2>1, QueueGrows DEF LoginComplete, Packet
  <2>3. rows' = rows /\ Listed' = Listed /\ parent' = parent /\ past' = past
    BY <1>8 DEF LoginComplete, listVars, guiVars, Listed
  <2> QED
    BY <1>4, <2>1, <2>2, <2>3
<1>9. CASE Disconnect
  <2>1. NoEvent \in Events /\ NoEvent.type = "DISCONNECT"
    BY <1>0 DEF NoEvent, Events, EventTypes
  <2>2. Grows(NoEvent)
    BY <1>0, <1>9, <2>1, QueueGrows DEF Disconnect
  <2>3. rows' = rows /\ Listed' = Listed /\ parent' = parent /\ past' = past
    BY <1>9 DEF Disconnect, listVars, guiVars, Listed
  <2> QED
    BY <1>4, <2>1, <2>2, <2>3
<1> QED
  BY <1>1, <1>2, <1>3, <1>5, <1>6, <1>7, <1>8, <1>9 DEF Network

LEMMA GuiWrites ==
  ASSUME TypeInv, Story, Writes, NEW e, TakesEvent(e)
  PROVE  Writes' /\ Missed(e) \subseteq past
<1>0. ListInv /\ Taken
  BY DEF TypeInv, TakesEvent
<1>1. Listed' = Listed /\ past' = past
  BY DEF TakesEvent, GuiEvent, listVars, Listed
<1>2. ASSUME NEW c \in Channels PROVE ModifyStory(c)'
  <2>1. ModifyStory(c)
    BY DEF Writes
  <2>2. \A j : j \in Modifies(c)' <=> j \in Nat /\ j >= 1 /\ j + 1 \in Modifies(c)
    BY <1>0, WhereTaken DEF Modifies
  <2>3. \A j : j \in Adds(c)' <=> j \in Nat /\ j >= 1 /\ j + 1 \in Adds(c)
    BY <1>0, WhereTaken DEF Adds
  <2>4. ASSUME c \in Listed, c \notin past, NEW i \in Modifies(c)'
        PROVE  (\A k \in Adds(c)' : k < i) /\ \E T \in SUBSET Channels : Kept(T, c, i)'
    <3>1. i \in Nat /\ i >= 1 /\ i + 1 \in Modifies(c)
      BY <2>2, <2>4
    <3>2. (\A k \in Adds(c) : k < i + 1) /\ \E T \in SUBSET Channels : Kept(T, c, i + 1)
      BY <2>1, <2>4, <3>1 DEF ModifyStory
    <3>3. PICK T \in SUBSET Channels : Kept(T, c, i + 1)
      BY <3>2
    <3>4. Kept(T, c, i)'
      BY <2>4, <3>1, <3>3, KeptTaken
    <3>5. \A k \in Adds(c)' : k < i
      BY <2>3, <3>1, <3>2
    <3> QED
      BY <3>4, <3>5
  <2> QED
    BY <1>1, <2>4 DEF ModifyStory
<1>3. ASSUME NEW c \in Missed(e) PROVE c \in past
  <2>1. e.type = "CHAN_MODIFY" /\ c = e.id /\ c \in Listed /\ ~HasRow(c)
    BY <1>3 DEF Missed
  <2>2. c \in Channels /\ 1 \in Modifies(c)
    BY <1>0, <2>1, HeadAt DEF Modifies, TakesEvent, GoodIds, About
  <2>3. c \notin past => (\A k \in Adds(c) : k < 1) /\ \E T \in SUBSET Channels : Kept(T, c, 1)
    BY <2>1, <2>2 DEF Writes, ModifyStory
  <2>4. Before(Adds(c), 1) = {}
    BY <1>0, SetsTyped DEF Sets, Before
  <2>5. ~Drawn(c)
    BY <2>1 DEF HasRow, Drawn
  <2> QED
    BY <2>3, <2>4, <2>5 DEF Kept, Bare
<1> QED
  BY <1>2, <1>3 DEF Writes

\* Which events ask for a row to be rewritten or take that of the lobby.
LEMMA NetworkAsks ==
  ASSUME TypeInv, Network, ~DestroyLists, NEW e, Grows(e)
  PROVE  /\ e.type = "CHAN_MODIFY" => e.id \in Listed
         /\ e.type = "CHAN_REMOVE" /\ e.id = Lobby => chans' = <<>>
<1>0. /\ ListInv /\ TypeOK /\ Channels \subseteq Places /\ Channels \subseteq Users \cup Places
      /\ Lobby \in Places /\ Listed \subseteq Channels /\ Lobby \notin Channels
  BY ChannelsAssumption DEF TypeInv, Places, Listed, TypeOK, Lobby
<1>1. PICK q \in Seq(Events) : q = Pending
  BY <1>0, PendingTyped
<1>2. e \in Events /\ Pending' = Append(q, e) /\ Len(q) \in Nat /\ \A f \in Events : Append(q, e) = Append(q, f) => e = f
  BY <1>1, AppendOnce DEF Grows
<1>3. Pending' # Pending
  BY <1>1, <1>2, AppendOnce
<1>4. at = "idle"
  <2>1. ~Tell
    BY <1>3, TellGrows
  <2> QED
    BY <2>1 DEF Network, AddChannel, ModifyChannel, RemoveChannel, MoveChannel, UserLogin,
                UserLogout, MoveUser, LoginComplete, Disconnect, Change, Packet
<1>5. ASSUME NEW f \in Events, Then(f), eventq' = eventq
      PROVE  e.type = f.type /\ (chans' # <<>> => e = f) /\ (f.type # "CHAN_REMOVE" => e.id = f.id)
  <2>1. Grows(Queued(f)')
    BY <1>0, <1>4, <1>5, QueuedNext, PacketGrows
  <2>2. e = Queued(f)'
    BY <1>1, <1>2, <2>1 DEF Grows
  <2> QED
    BY <2>2, QueuedNext, QueuedPlain
<1>6. ASSUME NEW f \in Events, at' # "tell", eventq' = Append(eventq, f)
      PROVE  e = f
  <2>1. Grows(f)
    BY <1>0, <1>4, <1>6, QueueGrows
  <2> QED
    BY <1>1, <1>2, <2>1 DEF Grows
<1>7. CASE AddChannel
  <2>1. PICK c \in Channels : Then(Event("CHAN_ADD", c, c)) /\ eventq' = eventq
    BY <1>7 DEF AddChannel
  <2> QED
    BY <1>0, <1>5, <2>1, EventIn DEF EventTypes
<1>8. CASE ModifyChannel
  <2>1. PICK c \in Listed : Then(Event("CHAN_MODIFY", c, c)) /\ eventq' = eventq
    BY <1>8 DEF ModifyChannel, Change
  <2> QED
    BY <1>0, <1>5, <2>1, EventIn DEF EventTypes
<1>9. CASE RemoveChannel
  <2>1. PICK c \in Listed : Then(Event("CHAN_REMOVE", c, c)) /\ eventq' = eventq
    BY <1>9 DEF RemoveChannel, Change
  <2>2. PICK f \in Events : f = Event("CHAN_REMOVE", c, c) /\ f.type = "CHAN_REMOVE" /\ f.id = c
    BY <1>0, EventIn DEF EventTypes
  <2>3. e.type = f.type /\ (chans' # <<>> => e = f)
    BY <1>5, <2>1, <2>2
  <2>4. c # Lobby
    BY <1>0
  <2> QED
    BY <2>2, <2>3, <2>4
<1>10. CASE MoveChannel
  <2>1. PICK c \in Channels, t \in Channels :
          eventq' = eventq \/ eventq' = Append(eventq, Event("CHAN_MOVE", c, t))
    BY <1>10 DEF MoveChannel
  <2>2. at' = at
    BY <1>10 DEF MoveChannel, netVars
  <2>3. eventq' # eventq
    BY <1>3, <1>4, <2>2 DEF Pending
  <2>4. PICK f \in Events : f = Event("CHAN_MOVE", c, t) /\ f.type = "CHAN_MOVE"
    BY <1>0, EventIn DEF EventTypes
  <2> QED
    BY <1>4, <1>6, <2>1, <2>2, <2>3, <2>4
<1>11. CASE UserLogin \/ UserLogout \/ MoveUser
  <2>1. PICK type \in {"USER_LOGIN", "USER_LOGOUT", "USER_CHAN_MOVE"}, u \in Users, c \in Places :
          Then(Event(type, u, c))
    <3>1. ASSUME NEW u \in Users, place[u] # Away PROVE place[u] \in Places
      BY <1>0, <3>1 DEF TypeOK
    <3>2. UserLogin => \E u \in Users, c \in Places : Then(Event("USER_LOGIN", u, c))
      BY DEF UserLogin
    <3>3. UserLogout => \E u \in Users, c \in Places : Then(Event("USER_LOGOUT", u, c))
      BY <3>1 DEF UserLogout
    <3>4. MoveUser => \E u \in Users, c \in Places : Then(Event("USER_CHAN_MOVE", u, c))
      BY DEF MoveUser
    <3> QED
      BY <1>11, <3>2, <3>3, <3>4
  <2>2. Event(type, u, c) \in Events /\ Event(type, u, c).type = type
    BY <1>0, EventIn DEF EventTypes
  <2>3. eventq' = eventq
    BY <1>11 DEF UserLogin, UserLogout, MoveUser, Change
  <2>4. e.type = type
    BY <1>5, <2>1, <2>2, <2>3
  <2> QED
    BY <2>1, <2>4
<1>12. CASE LoginComplete \/ Disconnect
  <2>1. PICK f \in Events : eventq' = Append(eventq, f) /\ f.type \in {"LOGIN_COMPLETE", "DISCONNECT"}
    BY <1>12 DEF LoginComplete, Disconnect, Event, NoEvent, Events, EventTypes, Places
  <2>2. at' # "tell"
    BY <1>4, <1>12 DEF LoginComplete, Disconnect
  <2> QED
    BY <1>6, <2>1, <2>2
<1> QED
  BY <1>3, <1>7, <1>8, <1>9, <1>10, <1>11, <1>12, TellGrows DEF Network

\* The list and the channels once removed only grow together.
LEMMA PastGrows ==
  ASSUME TypeInv, Network, ~DestroyLists
  PROVE  /\ past \subseteq past' /\ unfound' = unfound
         /\ Listed \cup past \subseteq Listed' \cup past'
<1>0. ListInv /\ Channels \subseteq Places /\ Listed \subseteq Channels
  BY DEF TypeInv, Places, Listed, TypeOK
<1>1. past \subseteq past' /\ unfound' = unfound
  BY DEF Network, Tell, AddChannel, ModifyChannel, RemoveChannel, MoveChannel, UserLogin,
         UserLogout, MoveUser, LoginComplete, Disconnect, Change, guiVars
<1>2. CASE RemoveChannel
  <2>1. PICK c \in Listed : chans' = Removed(c) /\ past' = past \cup {c}
    BY <1>2 DEF RemoveChannel
  <2>2. Listed' = Listed \ {c}
    BY <1>0, <2>1, ListedRemoved
  <2> QED
    BY <1>1, <2>1, <2>2
<1>3. CASE AddChannel
  <2>1. PICK c \in Channels : c \notin Listed /\ chans' = Append(chans, c)
    BY <1>3 DEF AddChannel
  <2>2. Listed' = Listed \cup {c}
    BY <1>0, <2>1, ListedAppended
  <2> QED
    BY <1>1, <2>2
<1>4. CASE MoveChannel
  <2>1. PICK c \in Channels, t \in Channels : chans' = MoveBefore(chans, c, t)
    BY <1>4 DEF MoveChannel
  <2>2. Listed' = Listed
    BY <1>0, <2>1, ListedMoved
  <2> QED
    BY <1>1, <2>2
<1>5. CASE ~RemoveChannel /\ ~AddChannel /\ ~MoveChannel
  <2>1. chans' = chans
    BY <1>5 DEF Network, Tell, ModifyChannel, UserLogin, UserLogout, MoveUser, LoginComplete,
                Disconnect, Change, listVars
  <2> QED
    BY <1>1, <2>1 DEF Listed
<1> QED
  BY <1>2, <1>3, <1>4, <1>5

LEMMA NetworkKnown ==
  ASSUME TypeInv, Network, ~DestroyLists, Known, Gone
  PROVE  Known' /\ Gone'
<1>0. ListInv
  BY DEF TypeInv
<1>1. past \subseteq past' /\ Listed \cup past \subseteq Listed' \cup past'
  BY PastGrows
<1>2. CASE Pending' = Pending
  <2>1. \A types, x : Where(types, x)' = Where(types, x)
    BY <1>2 DEF Where
  <2>2. Removes(Lobby)' = Removes(Lobby) /\ \A c : Modifies(c)' = Modifies(c)
    BY <2>1 DEF Removes, Modifies
  <2> QED
    BY <1>1, <2>2 DEF Known, Gone
<1>3. ASSUME NEW e, Grows(e) PROVE Known' /\ Gone'
  <2>1. /\ \A c, j : j \in Modifies(c)' <=> j \in Modifies(c) \/ (j = End /\ e.type = "CHAN_MODIFY" /\ e.id = c)
        /\ \A j : j \in Removes(Lobby)' <=>
                    j \in Removes(Lobby) \/ (j = End /\ e.type = "CHAN_REMOVE" /\ e.id = Lobby)
    BY <1>0, <1>3, WhereGrows DEF Modifies, Removes
  <2>2. /\ e.type = "CHAN_MODIFY" => e.id \in Listed
        /\ e.type = "CHAN_REMOVE" /\ e.id = Lobby => chans' = <<>>
    BY <1>3, NetworkAsks
  <2>3. Known'
    BY <1>1, <2>1, <2>2 DEF Known
  <2>4. ASSUME NEW w \in Removes(Lobby)', NEW c \in Channels, NEW i \in Modifies(c)', i < w
        PROVE  c \in past'
    <3>1. CASE w = End /\ e.type = "CHAN_REMOVE" /\ e.id = Lobby
      <4>1. Listed' = {}
        BY <2>2, <3>1 DEF Listed
      <4> QED
        BY <2>3, <4>1 DEF Known
    <3>2. CASE w \in Removes(Lobby)
      <4>1. w \in 1..Len(Pending) /\ Len(Pending) \in Nat
        BY <1>0, <3>2, WhereRange, PendingTyped DEF Removes
      <4>2. i # End
        BY <2>4, <4>1 DEF End
      <4> QED
        BY <1>1, <2>1, <2>4, <3>2, <4>2 DEF Gone
    <3> QED
      BY <2>1, <3>1, <3>2
  <2> QED
    BY <2>3, <2>4 DEF Gone
<1> QED
  BY <1>2, <1>3, NetworkGrows

LEMMA GuiKnown ==
  ASSUME TypeInv, GuiEvent, Known, Gone
  PROVE  Known' /\ Gone'
<1>1. ListInv /\ Taken
  BY GuiTakes DEF TypeInv
<1>2. Listed' = Listed /\ past' = past
  BY DEF GuiEvent, listVars, Listed
<1>3. /\ \A c, j : j \in Modifies(c)' <=> j \in Nat /\ j >= 1 /\ j + 1 \in Modifies(c)
      /\ \A j : j \in Removes(Lobby)' <=> j \in Nat /\ j >= 1 /\ j + 1 \in Removes(Lobby)
  BY <1>1, WhereTaken DEF Modifies, Removes
<1>4. Known'
  BY <1>2, <1>3 DEF Known
<1>5. ASSUME NEW w \in Removes(Lobby)', NEW c \in Channels, NEW i \in Modifies(c)', i < w
      PROVE  c \in past'
  <2>1. i \in Nat /\ w \in Nat /\ i + 1 \in Modifies(c) /\ w + 1 \in Removes(Lobby) /\ i + 1 < w + 1
    BY <1>3, <1>5
  <2> QED
    BY <1>2, <2>1 DEF Gone
<1> QED
  BY <1>4, <1>5 DEF Gone

\* While the session lasts, and the row of the lobby is there.
Lasts == at \in {"idle", "tell"} \/ (at = "close" /\ ~Over)
WriteInv ==
  /\ TreeInv
  /\ lobby => RowIsFound
  /\ Lasts => Known /\ Gone /\ (Spoilt \/ Writes)

LEMMA WriteKept ==
  ASSUME WriteInv, [Next]_vars
  PROVE  WriteInv'
<1>0. TreeInv /\ TreeInv' /\ TypeInv /\ ListInv
  BY TreeKept DEF WriteInv, TreeInv, TypeInv
<1>1. CASE UNCHANGED vars
  <2>1. /\ rows' = rows /\ Listed' = Listed /\ parent' = parent /\ past' = past /\ unfound' = unfound
        /\ at' = at /\ Pending' = Pending /\ eventq' = eventq /\ lobby' = lobby
    BY <1>1 DEF vars, listVars, netVars, guiVars, Listed, Pending, Queued
  <2>2. Writes => Writes'
    BY <1>0, <2>1, WritesSame
  <2>3. \A types, x : Where(types, x)' = Where(types, x)
    BY <2>1 DEF Where
  <2>4. Removes(Lobby)' = Removes(Lobby) /\ \A c : Modifies(c)' = Modifies(c)
    BY <2>3 DEF Removes, Modifies
  <2>5. (Known => Known') /\ (Gone => Gone') /\ (Spoilt => Spoilt')
    BY <2>1, <2>4 DEF Known, Gone, Spoilt
  <2>6. Lasts' <=> Lasts
    BY <2>1 DEF Lasts, Over
  <2> QED
    BY <1>0, <2>1, <2>2, <2>5, <2>6 DEF WriteInv, RowIsFound
<1>2. CASE DestroyLists
  <2>1. at' = "offline" /\ lobby' = lobby /\ unfound' = unfound /\ past' = past
    BY <1>2 DEF DestroyLists, guiVars
  <2> QED
    BY <1>0, <2>1 DEF WriteInv, RowIsFound, Lasts
<1>3. CASE Network /\ ~DestroyLists
  <2>1. past \subseteq past' /\ unfound' = unfound /\ lobby' = lobby
    BY <1>0, <1>3, PastGrows, NetworkGrows
  <2>2. lobby' => RowIsFound'
    BY <2>1 DEF WriteInv, RowIsFound
  <2>3. at \in {"idle", "tell"}
    BY <1>3 DEF Network, Tell, AddChannel, ModifyChannel, RemoveChannel, MoveChannel, UserLogin,
                UserLogout, MoveUser, LoginComplete, Disconnect, Change, Packet
  <2>4. Known /\ Gone /\ (Spoilt \/ Writes)
    BY <2>3 DEF WriteInv, Lasts
  <2>5. Known' /\ Gone'
    BY <1>0, <1>3, <2>4, NetworkKnown
  <2>6. Spoilt => Spoilt'
    BY <1>0, <1>3, SpoiltStays
  <2>7. RemoveChannel /\ chans' = <<>> => Spoilt'
    BY <1>0, LastSpoils
  <2>8. ~Spoilt /\ (RemoveChannel => chans' # <<>>) => Writes'
    <3>1. ~Spoilt => Story
      BY <2>3 DEF WriteInv, TreeInv
    <3> QED
      BY <1>0, <1>3, <2>4, <3>1, NetworkWrites
  <2> QED
    BY <1>0, <2>2, <2>5, <2>6, <2>7, <2>8 DEF WriteInv
<1>4. CASE GuiEvent
  <2>1. /\ at' = at /\ past' = past /\ eventq # <<>> /\ (lobby' => lobby)
        /\ rows' = Shown(Head(eventq)) /\ unfound' = unfound \cup Missed(Head(eventq))
    BY <1>4 DEF GuiEvent, netVars
  <2>2. CASE at = "offline"
    <3>1. Missed(Head(eventq)) = {}
      BY <2>2 DEF WriteInv, TreeInv, Missed
    <3> QED
      BY <1>0, <2>1, <2>2, <3>1 DEF WriteInv, RowIsFound, Lasts
  <2>3. CASE at # "offline" /\ Head(eventq).type = "DISCONNECT"
    <3>1. Missed(Head(eventq)) = {}
      BY <2>3 DEF Missed
    <3>2. at = "close" /\ Ending
      <4>1. Head(eventq) = Pending[1] /\ 1 \in DOMAIN Pending
        BY <1>0, <1>4, GuiTakes, TakenFacts
      <4>2. at = "close"
        BY <1>0, <2>3, <4>1 DEF TypeInv, EventIds
      <4> QED
        BY <1>0, <2>1, <4>2 DEF TreeInv, Over
    <3>3. Over'
      BY <1>0, <1>4, <2>3, <3>2, EndingTaken DEF Over
    <3> QED
      BY <1>0, <2>1, <3>1, <3>2, <3>3 DEF WriteInv, RowIsFound, Lasts
  <2>4. CASE at # "offline" /\ Head(eventq).type # "DISCONNECT"
    <3>1. Lasts /\ at \in {"idle", "tell", "close"} /\ ~Over
      BY <1>0, <2>1, <2>4 DEF TypeInv, TypeOK, Over, Lasts
    <3>2. Known /\ Gone /\ (Spoilt \/ Writes) /\ (Spoilt \/ Story)
      BY <1>0, <3>1 DEF WriteInv, TreeInv
    <3>3. Known' /\ Gone'
      BY <1>0, <1>4, <3>2, GuiKnown
    <3>4. CASE Spoilt
      <4>1. Spoilt'
        BY <1>0, <1>4, <2>4, <3>4, SpoiltTaken
      <4>2. ASSUME lobby, NEW c \in Missed(Head(eventq)) PROVE c \in past
        <5>1. Head(eventq) = Pending[1] /\ 1 \in DOMAIN Pending
          BY <1>0, <1>4, GuiTakes, TakenFacts
        <5>2. Pending[1].type = "CHAN_MODIFY" /\ Pending[1].id = c
          BY <4>2, <5>1 DEF Missed
        <5>3. 1 \in Modifies(c) /\ c \in Channels
          BY <1>0, <5>1, <5>2 DEF Modifies, Where, TypeInv, EventIds
        <5>4. PICK w \in Removes(Lobby) : TRUE
          BY <3>4, <4>2 DEF Spoilt
        <5>5. w \in Nat /\ w >= 1 /\ w # 1
          <6>1. w \in 1..Len(Pending) /\ w \in Nat
            BY <1>0, <5>4, WhereRange DEF Removes
          <6>2. w # 1
            BY <5>2, <5>4 DEF Removes, Where
          <6> QED
            BY <6>1, <6>2
        <5> QED
          BY <3>2, <5>3, <5>4, <5>5 DEF Gone
      <4>3. lobby' => RowIsFound'
        BY <2>1, <4>2 DEF WriteInv, RowIsFound
      <4> QED
        BY <1>0, <3>3, <4>1, <4>3 DEF WriteInv
    <3>5. CASE ~Spoilt
      <4>1. PICK e : TakesEvent(e) /\ e = Head(eventq)
        BY <1>0, <1>4, <2>4, <3>5, GuiTakesOne DEF Spoilt
      <4>2. Writes' /\ Missed(e) \subseteq past
        BY <1>0, <3>2, <3>5, <4>1, GuiWrites
      <4>3. lobby' => RowIsFound'
        BY <2>1, <4>1, <4>2 DEF WriteInv, RowIsFound
      <4> QED
        BY <1>0, <3>3, <4>2, <4>3 DEF WriteInv
    <3> QED
      BY <3>4, <3>5
  <2> QED
    BY <2>2, <2>3, <2>4
<1> QED
  BY <1>1, <1>2, <1>3, <1>4 DEF Next

LEMMA WriteInit ==
  ASSUME Init PROVE WriteInv
<1>1. unfound = {} /\ eventq = <<>> /\ at = "idle"
  BY DEF Init
<1>2. Pending = <<>>
  BY <1>1 DEF Pending
<1>3. Removes(Lobby) = {} /\ \A c : Modifies(c) = {}
  BY <1>2 DEF Modifies, Removes, Where
<1> QED
  BY <1>1, <1>3, InitStory DEF WriteInv, RowIsFound, Writes, ModifyStory, Known, Gone

\* updateChannel, which never returns when it finds no row, is called for a channel
\* that has one unless its id had been given up and used again: RowIsFound, as long
\* as the tree has the row of the lobby.
THEOREM RowSafe == Spec => [](lobby => RowIsFound)
<1>1. Init => WriteInv
  BY WriteInit
<1>2. WriteInv /\ [Next]_vars => WriteInv'
  BY WriteKept
<1>3. WriteInv => (lobby => RowIsFound)
  BY DEF WriteInv
<1> QED
  BY <1>1, <1>2, <1>3, PTL DEF Spec
-----------------------------------------------------------------------------
(* Paths: the recursive functions that join and follow them.              *)

\* The smallest number of a set of numbers.
LEMMA Smallest ==
  ASSUME NEW T \in SUBSET Nat, T # {}
  PROVE  \E n \in T : \A m \in T : n <= m
<1>1. PICK n \in T : \A m \in T : ~(<<m, n>> \in OpToRel(<, Nat))
  BY WFMin, NatLessThanWellFounded
<1>2. \A m \in T : ~(m < n)
  BY <1>1 DEF OpToRel
<1>3. \A m \in T : n <= m
  <2>1. TAKE m \in T
  <2>2. m \in Nat /\ n \in Nat /\ ~(m < n)
    BY <1>2, <2>1
  <2> QED
    BY <2>2
<1> QED
  BY <1>3

\* What holds of 0 and goes from each number to the next holds of the numbers up to N.
LEMMA UpTo ==
  ASSUME NEW N \in Nat, NEW T, 0 \in T, \A n \in 1..N : n - 1 \in T => n \in T
  PROVE  0..N \subseteq T
<1> SUFFICES ASSUME ~(0..N \subseteq T) PROVE FALSE
  OBVIOUS
<1> DEFINE U == (0..N) \ T
<1>1. U \in SUBSET Nat /\ U # {}
  OBVIOUS
<1>2. PICK n \in U : \A m \in U : n <= m
  <2> HIDE DEF U
  <2> QED
    BY <1>1, Smallest
<1>3. n \in 1..N /\ n - 1 \in 0..N /\ ~(n <= n - 1)
  OBVIOUS
<1>4. n - 1 \in T
  BY <1>2, <1>3
<1> QED
  BY <1>3, <1>4

\* The values of f up to the N-th follow from one another.
Follows(f, N, first, next) == f[0] = first /\ \A n \in 1..N : f[n] = next[n][f[n - 1]]

\* A function of 0..N is there that has a first value and in which each value follows from
\* the one before it.
LEMMA Recursion ==
  ASSUME NEW N \in Nat, NEW S, NEW first \in S, NEW next \in [1..N -> [S -> S]]
  PROVE  \E f \in [0..N -> S] : Follows(f, N, first, next)
<1> DEFINE Good(k, f) == f[0] = first /\ \A n \in 1..k : f[n] = next[n][f[n - 1]]
           T == {k \in 0..N : \E f \in [0..k -> S] : Good(k, f)}
<1>1. 0 \in T
  <2>1. [n \in 0..0 |-> first] \in [0..0 -> S] /\ Good(0, [n \in 0..0 |-> first])
    OBVIOUS
  <2> HIDE DEF Good
  <2> QED
    BY <2>1
<1>2. ASSUME NEW k \in 1..N, k - 1 \in T
      PROVE  k \in T
  <2>1. PICK f \in [0..(k - 1) -> S] : Good(k - 1, f)
    BY <1>2
  <2>2. k - 1 \in 0..(k - 1) /\ f[k - 1] \in S
    BY <2>1
  <2>3. next[k][f[k - 1]] \in S
    BY <2>2
  <2> DEFINE g == [n \in 0..k |-> IF n = k THEN next[k][f[k - 1]] ELSE f[n]]
  <2>4. g \in [0..k -> S]
    BY <2>3
  <2>5. g[0] = first
    BY <2>1
  <2>6. ASSUME NEW n \in 1..k PROVE g[n] = next[n][g[n - 1]]
    <3>1. CASE n = k
      BY <3>1
    <3>2. CASE n # k
      <4>1. n \in 1..(k - 1) /\ n - 1 \in 0..(k - 1)
        BY <3>2
      <4>2. f[n] = next[n][f[n - 1]]
        BY <2>1, <4>1
      <4> QED
        BY <3>2, <4>1, <4>2
    <3> QED
      BY <3>1, <3>2
  <2>7. Good(k, g)
    BY <2>5, <2>6
  <2> HIDE DEF Good, g
  <2> QED
    BY <2>4, <2>7
<1>3. N \in T
  <2>1. 0..N \subseteq T
    <3> HIDE DEF T
    <3> QED
      BY <1>1, <1>2, UpTo
  <2> QED
    BY <2>1
<1> QED
  BY <1>3 DEF Follows

\* Every channel on the list has a parent that is a channel or the lobby, and no set of them
\* is a loop.
Parented == \A c \in Listed : parent[c] \in Places
NoLoop   == \A S \in SUBSET Listed : S # {} => \E d \in S : parent[d] \notin S

\* Ancestry is what its definition says.
LEMMA AncestryIs ==
  ASSUME ListInv, Parented
  PROVE  /\ Ancestry \in [0..Len(chans) -> [Places -> Seq(Channels)]]
         /\ \A c \in Places : Ancestry[0][c] = <<>>
         /\ \A n \in 1..Len(chans) : \A c \in Places :
              Ancestry[n][c] = IF c \in Listed THEN Append(Ancestry[n - 1][parent[c]], c) ELSE <<>>
<1> DEFINE N == Len(chans)
           S == [Places -> Seq(Channels)]
           Up(h) == [c \in Places |-> IF c \in Listed THEN Append(h[parent[c]], c) ELSE <<>>]
           first == [c \in Places |-> <<>>]
           next == [n \in 1..N |-> [h \in S |-> Up(h)]]
<1>1. N \in Nat /\ Listed \subseteq Channels
  BY DEF ListInv, Listed
<1>2. first \in S
  OBVIOUS
<1>3. ASSUME NEW h \in S PROVE Up(h) \in S
  <2>1. ASSUME NEW c \in Places
        PROVE  (IF c \in Listed THEN Append(h[parent[c]], c) ELSE <<>>) \in Seq(Channels)
    <3>1. CASE c \in Listed
      <4>1. h[parent[c]] \in Seq(Channels) /\ c \in Channels
        BY <1>1, <3>1 DEF Parented
      <4> QED
        BY <3>1, <4>1
    <3>2. CASE c \notin Listed
      BY <3>2
    <3> QED
      BY <3>1, <3>2
  <2> QED
    BY <2>1
<1>4. next \in [1..N -> [S -> S]]
  <2> HIDE DEF Up, S
  <2> QED
    BY <1>3
<1>5. \E f \in [0..N -> S] : Follows(f, N, first, next)
  <2> HIDE DEF first, next, S, N
  <2> QED
    BY <1>1, <1>2, <1>4, Recursion
<1>6. PICK f \in [0..N -> S] : f[0] = first /\ \A n \in 1..N : f[n] = next[n][f[n - 1]]
  BY <1>5 DEF Follows
<1> DEFINE Body(g) == [n \in 0..N |-> [c \in Places |-> IF c \notin Listed \/ n = 0 THEN <<>>
                                                       ELSE Append(g[n - 1][parent[c]], c)]]
<1>7. f = Body(f)
  <2>1. ASSUME NEW n \in 0..N
        PROVE  f[n] = [c \in Places |-> IF c \notin Listed \/ n = 0 THEN <<>>
                                        ELSE Append(f[n - 1][parent[c]], c)]
    <3>1. CASE n = 0
      <4>1. f[n] = first
        BY <1>6, <3>1
      <4> QED
        BY <3>1, <4>1
    <3>2. CASE n # 0
      <4>1. n \in 1..N /\ n - 1 \in 0..N
        BY <3>2
      <4>2. f[n - 1] \in S
        BY <1>6, <4>1
      <4>3. f[n] = Up(f[n - 1])
        BY <1>6, <4>1, <4>2
      <4> QED
        BY <3>2, <4>3
    <3> QED
      BY <3>1, <3>2
  <2>2. f = [n \in 0..N |-> f[n]]
    BY <1>6
  <2> QED
    BY <2>1, <2>2
<1>8. Ancestry = Body(Ancestry)
  <2>1. Ancestry = CHOOSE g : g = Body(g)
    BY DEF Ancestry
  <2>2. \E g : g = Body(g)
    BY <1>7
  <2> QED
    BY <2>1, <2>2, Zenon
<1>9. Ancestry = [n \in 0..N |-> Ancestry[n]] /\ DOMAIN Ancestry = 0..N
  BY <1>8
<1>10. \A n \in 0..N : Ancestry[n] = [c \in Places |-> IF c \notin Listed \/ n = 0 THEN <<>>
                                                   ELSE Append(Ancestry[n - 1][parent[c]], c)]
  BY <1>8
<1>11. Ancestry[0] = first
  <2>1. 0 \in 0..N
    BY <1>1
  <2> QED
    BY <1>10, <2>1
<1>12. ASSUME NEW n \in 1..N PROVE Ancestry[n] = Up(Ancestry[n - 1])
  <2>1. n \in 0..N /\ n # 0
    BY <1>1
  <2> QED
    BY <1>10, <2>1
<1> DEFINE T == {n \in 0..N : Ancestry[n] \in S}
<1>13. 0..N \subseteq T
  <2>1. 0 \in T
    <3>1. 0 \in 0..N /\ Ancestry[0] \in S
      <4> HIDE DEF S, first
      <4> QED
        BY <1>1, <1>2, <1>11
    <3> QED
      BY <3>1
  <2>2. ASSUME NEW n \in 1..N, n - 1 \in T PROVE n \in T
    <3>1. Ancestry[n - 1] \in S
      BY <2>2
    <3>2. Ancestry[n] \in S
      <4> HIDE DEF Up, S
      <4> QED
        BY <1>3, <1>12, <3>1
    <3> QED
      BY <1>1, <3>2
  <2> HIDE DEF T
  <2> QED
    BY <1>1, <2>1, <2>2, UpTo
<1>14. Ancestry \in [0..N -> S]
  <2>1. \A n \in 0..N : Ancestry[n] \in S
    BY <1>13
  <2> HIDE DEF S
  <2> QED
    BY <1>9, <2>1
<1>15. \A c \in Places : Ancestry[0][c] = <<>>
  BY <1>11
<1>16. ASSUME NEW n \in 1..N, NEW c \in Places
       PROVE  Ancestry[n][c] = IF c \in Listed THEN Append(Ancestry[n - 1][parent[c]], c) ELSE <<>>
  BY <1>12
<1> HIDE DEF S, Up, first, next, T, Body
<1> QED
  BY <1>14, <1>15, <1>16 DEF S

\* A line of n channels or fewer that leads down to c, each the parent of the next; one of
\* fewer begins where the list knows no parent.
Line(line, n, c) ==
  /\ line \in Seq(Listed) /\ Len(line) <= n
  /\ n > 0 => Len(line) > 0 /\ line[Len(line)] = c
  /\ \A i \in 2..Len(line) : parent[line[i]] = line[i - 1]
  /\ Len(line) < n => parent[line[1]] \notin Listed

\* Ancestry computes such lines.
LEMMA AncestryLines ==
  ASSUME ListInv, Parented
  PROVE  \A n \in 0..Len(chans) : \A c \in Listed : Line(Ancestry[n][c], n, c)
<1> DEFINE N == Len(chans)
           T == {n \in 0..N : \A c \in Listed : Line(Ancestry[n][c], n, c)}
<1>1. N \in Nat /\ Listed \subseteq Places
  BY DEF ListInv, Listed, Places
<1>2. 0 \in T
  <2>1. ASSUME NEW c \in Listed PROVE Line(Ancestry[0][c], 0, c)
    <3>1. Ancestry[0][c] = <<>>
      BY <1>1, AncestryIs
    <3> QED
      BY <3>1 DEF Line
  <2> QED
    BY <1>1, <2>1
<1>3. ASSUME NEW n \in 1..N, n - 1 \in T PROVE n \in T
  <2>1. ASSUME NEW c \in Listed PROVE Line(Ancestry[n][c], n, c)
    <3>1. /\ n - 1 \in 0..N /\ n \in Nat /\ n > 0 /\ n - 1 \in Nat
          /\ \A d \in Listed : Line(Ancestry[n - 1][d], n - 1, d)
      BY <1>1, <1>3
    <3>2. Ancestry[n][c] = Append(Ancestry[n - 1][parent[c]], c)
      BY <1>1, AncestryIs
    <3>3. CASE parent[c] \in Listed
      <4>1. PICK up : up = Ancestry[n - 1][parent[c]] /\ Line(up, n - 1, parent[c])
        BY <3>1, <3>3
      <4>2. PICK line : line = Append(up, c)
        OBVIOUS
      <4>3. /\ up \in Seq(Listed) /\ Len(up) \in Nat /\ Len(up) <= n - 1
            /\ n - 1 > 0 => Len(up) > 0 /\ up[Len(up)] = parent[c]
        BY <4>1 DEF Line
      <4>4. /\ line \in Seq(Listed) /\ Len(line) = Len(up) + 1 /\ line[Len(line)] = c
            /\ \A i \in 1..Len(up) : line[i] = up[i]
        BY <4>2, <4>3
      <4>5. ASSUME NEW i \in 2..Len(line) PROVE parent[line[i]] = line[i - 1]
        <5>1. CASE i = Len(line)
          <6>1. Len(up) > 0 /\ i - 1 = Len(up) /\ i - 1 \in 1..Len(up)
            BY <4>3, <4>4, <5>1
          <6>2. n - 1 > 0
            BY <3>1, <4>3, <6>1
          <6> QED
            BY <4>3, <4>4, <5>1, <6>1, <6>2
        <5>2. CASE i # Len(line)
          <6>1. i \in 2..Len(up) /\ i \in 1..Len(up) /\ i - 1 \in 1..Len(up)
            BY <4>3, <4>4, <5>2
          <6> QED
            BY <4>1, <4>4, <6>1 DEF Line
        <5> QED
          BY <5>1, <5>2
      <4>6. Len(line) < n => parent[line[1]] \notin Listed
        <5>1. HAVE Len(line) < n
        <5>2. Len(up) < n - 1 /\ n - 1 > 0
          BY <3>1, <4>3, <4>4, <5>1
        <5>3. 1 \in 1..Len(up) /\ parent[up[1]] \notin Listed
          BY <4>1, <4>3, <5>2 DEF Line
        <5> QED
          BY <4>4, <5>3
      <4>7. Len(line) <= n /\ Len(line) > 0
        BY <3>1, <4>3, <4>4
      <4>8. Line(line, n, c)
        BY <4>4, <4>5, <4>6, <4>7 DEF Line
      <4> QED
        BY <3>2, <4>1, <4>2, <4>8
    <3>4. CASE parent[c] \notin Listed
      <4>1. Ancestry[n - 1][parent[c]] = <<>>
        <5>1. parent[c] \in Places
          BY DEF Parented
        <5>2. n - 1 = 0 \/ n - 1 \in 1..N
          BY <3>1
        <5> QED
          BY <3>4, <5>1, <5>2, AncestryIs
      <4>2. PICK line : line = Append(<<>>, c)
        OBVIOUS
      <4>3. line \in Seq(Listed) /\ Len(line) = 1 /\ line[1] = c
        BY <4>2
      <4>4. Line(line, n, c)
        BY <3>1, <3>4, <4>3 DEF Line
      <4> QED
        BY <3>2, <4>1, <4>2, <4>4
    <3> QED
      BY <3>3, <3>4
  <2> QED
    BY <1>1, <2>1
<1> HIDE DEF T
<1>4. 0..N \subseteq T
  BY <1>1, <1>2, <1>3, UpTo
<1> QED
  BY <1>4 DEF T

\* No channel is on a line twice.
LEMMA LineUnique ==
  ASSUME NoLoop, NEW n \in Nat, NEW c, NEW line, Line(line, n, c),
         NEW i \in 1..Len(line), NEW j \in 1..Len(line), i < j
  PROVE  line[i] # line[j]
<1> SUFFICES ASSUME line[i] = line[j] PROVE FALSE
  OBVIOUS
<1>1. line \in Seq(Listed) /\ Len(line) \in Nat /\ \A k \in 1..Len(line) : line[k] \in Listed
  BY DEF Line
<1> DEFINE S == {line[k] : k \in (i + 1)..j}
<1>2. S \in SUBSET Listed /\ line[j] \in S
  BY <1>1
<1>3. PICK d \in S : parent[d] \notin S
  BY <1>2 DEF NoLoop
<1>4. PICK k \in (i + 1)..j : d = line[k]
  BY <1>3
<1>5. parent[line[k]] = line[k - 1]
  <2>1. k \in 2..Len(line)
    BY <1>1
  <2> QED
    BY <2>1 DEF Line
<1>6. k - 1 = i \/ k - 1 \in (i + 1)..j
  OBVIOUS
<1>7. line[k - 1] \in S
  BY <1>2, <1>6
<1> QED
  BY <1>3, <1>4, <1>5, <1>7

\* A line as long as the list holds every channel, so it begins where the list knows no
\* parent too.
LEMMA LineBegins ==
  ASSUME ListInv, NoLoop, NEW c, NEW line, Line(line, Len(chans), c), Len(chans) > 0
  PROVE  Len(line) > 0 /\ parent[line[1]] \notin Listed
<1> DEFINE N == Len(chans)
<1>1. /\ chans \in Seq(Channels) /\ Unique(chans) /\ N \in Nat /\ DOMAIN chans = 1..N
      /\ Listed = {chans[i] : i \in 1..N}
  BY DEF ListInv, Listed
<1>2. line \in Seq(Listed) /\ Len(line) \in 1..N /\ \A k \in 1..Len(line) : line[k] \in Listed
  BY <1>1 DEF Line
<1>3. CASE Len(line) < N
  BY <1>2, <1>3 DEF Line
<1>4. CASE Len(line) = N
  <2> DEFINE g == [k \in 1..N |-> CHOOSE i \in 1..N : chans[i] = line[k]]
  <2>1. ASSUME NEW k \in 1..N PROVE g[k] \in 1..N /\ chans[g[k]] = line[k]
    <3>1. \E i \in 1..N : chans[i] = line[k]
      BY <1>1, <1>2, <1>4
    <3> QED
      BY <3>1
  <2>2. ASSUME NEW j \in 1..N, NEW k \in 1..N, g[j] = g[k] PROVE j = k
    <3>1. line[j] = line[k]
      BY <2>1, <2>2
    <3>2. ~(j < k) /\ ~(k < j)
      BY <1>1, <1>2, <1>4, <3>1, LineUnique
    <3> QED
      BY <3>2
  <2>3. g \in Injection(1..N, 1..N)
    BY <2>1, <2>2 DEF Injection, IsInjective
  <2>4. IsFiniteSet(1..N)
    BY <1>1, FS_Interval
  <2>5. g \in Surjection(1..N, 1..N)
    <3> HIDE DEF g
    <3> QED
      BY <2>3, <2>4, FS_Injection
  <2>6. ASSUME NEW d \in Listed PROVE \E k \in 1..N : line[k] = d
    <3>1. PICK i \in 1..N : chans[i] = d
      BY <1>1
    <3>2. PICK k \in 1..N : g[k] = i
      BY <2>5 DEF Surjection
    <3> QED
      BY <2>1, <3>1, <3>2
  <2>7. PICK d \in Listed : parent[d] \notin Listed
    BY <1>2 DEF NoLoop
  <2>8. PICK k \in 1..N : line[k] = d
    BY <2>6
  <2>9. ~(k \in 2..N)
    <3>1. SUFFICES ASSUME k \in 2..N PROVE FALSE
      OBVIOUS
    <3>2. k - 1 \in 1..N /\ parent[line[k]] = line[k - 1]
      BY <1>4, <3>1 DEF Line
    <3> QED
      BY <1>2, <1>4, <2>7, <2>8, <3>2
  <2>10. k = 1
    BY <2>9
  <2> QED
    BY <1>2, <2>7, <2>8, <2>10
<1> QED
  BY <1>2, <1>3, <1>4

\* The first channel on the list with its parent and its name is c, if no other has both.
LEMMA ChildIs ==
  ASSUME ListInv, NEW name, NEW c \in Listed,
         \A d \in Listed : c # d /\ parent[c] = parent[d] => name[c] # name[d]
  PROVE  Child(parent[c], name[c], name) = c
<1> DEFINE Fits(d) == parent[d] = parent[c] /\ name[d] = name[c]
           I == {i \in 1..Len(chans) : Fits(chans[i])}
<1>1. Listed = {chans[i] : i \in 1..Len(chans)} /\ Len(chans) \in Nat
  BY DEF ListInv, Listed
<1>2. I # {} /\ I \in SUBSET Nat
  BY <1>1
<1>3. PICK n \in I : \A m \in I : n <= m
  <2> HIDE DEF I
  <2> QED
    BY <1>2, Smallest
<1>4. Min(I) \in I
  BY <1>3 DEF Min
<1>5. SelectInSeq(chans, Fits) = Min(I)
  BY <1>2 DEF SelectInSeq
<1>6. chans[Min(I)] \in Listed /\ Fits(chans[Min(I)])
  BY <1>1, <1>4
<1>7. chans[Min(I)] = c
  BY <1>6
<1>8. \E d \in Listed : Fits(d)
  OBVIOUS
<1> QED
  BY <1>5, <1>7, <1>8 DEF Child

LEMMA ChildRange ==
  ASSUME ListInv, NEW p, NEW piece, NEW name
  PROVE  Child(p, piece, name) \in Channels \cup {Away}
<1> DEFINE Fits(d) == parent[d] = p /\ name[d] = piece
           I == {i \in 1..Len(chans) : Fits(chans[i])}
<1>1. Listed = {chans[i] : i \in 1..Len(chans)} /\ Len(chans) \in Nat /\ Listed \subseteq Channels
  BY DEF ListInv, Listed
<1>2. CASE \E d \in Listed : Fits(d)
  <2>1. I # {} /\ I \in SUBSET Nat
    BY <1>1, <1>2
  <2>2. PICK n \in I : \A m \in I : n <= m
    <3> HIDE DEF I
    <3> QED
      BY <2>1, Smallest
  <2>3. Min(I) \in I
    BY <2>2 DEF Min
  <2>4. SelectInSeq(chans, Fits) = Min(I)
    BY <2>1 DEF SelectInSeq
  <2>5. chans[Min(I)] \in Channels
    BY <1>1, <2>3
  <2> QED
    BY <1>2, <2>4, <2>5 DEF Child
<1>3. CASE ~\E d \in Listed : Fits(d)
  BY <1>3 DEF Child
<1> QED
  BY <1>2, <1>3

\* Descent is what its definition says.
LEMMA DescentIs ==
  ASSUME ListInv, NEW name, NEW path, Len(path) \in Nat
  PROVE  /\ Descent(name, path)[0] = Lobby
         /\ \A n \in 1..Len(path) :
              Descent(name, path)[n] = IF Descent(name, path)[n - 1] = Away THEN Away
                                       ELSE Child(Descent(name, path)[n - 1], path[n], name)
<1> DEFINE N == Len(path)
           S == Places \cup {Away}
           Down(n, v) == IF v = Away THEN Away ELSE Child(v, path[n], name)
           next == [n \in 1..N |-> [v \in S |-> Down(n, v)]]
           Body(g) == [n \in 0..N |-> IF n = 0 THEN Lobby
                                      ELSE IF g[n - 1] = Away THEN Away
                                      ELSE Child(g[n - 1], path[n], name)]
<1>1. N \in Nat /\ Lobby \in S
  BY DEF Places
<1>2. \A n \in 1..N, v \in S : Down(n, v) \in S
  BY ChildRange DEF Places
<1>3. next \in [1..N -> [S -> S]]
  <2> HIDE DEF Down, S
  <2> QED
    BY <1>2
<1>4. \E f \in [0..N -> S] : Follows(f, N, Lobby, next)
  <2> HIDE DEF next, S, N
  <2> QED
    BY <1>1, <1>3, Recursion
<1>5. PICK f \in [0..N -> S] : f[0] = Lobby /\ \A n \in 1..N : f[n] = next[n][f[n - 1]]
  BY <1>4 DEF Follows
<1>6. f = Body(f)
  <2>1. ASSUME NEW n \in 0..N PROVE f[n] = IF n = 0 THEN Lobby ELSE Down(n, f[n - 1])
    <3>1. CASE n = 0
      BY <1>5, <3>1
    <3>2. CASE n # 0
      <4>1. n \in 1..N /\ n - 1 \in 0..N
        BY <3>2
      <4>2. f[n - 1] \in S /\ f[n] = next[n][f[n - 1]]
        BY <1>5, <4>1
      <4>3. next[n][f[n - 1]] = Down(n, f[n - 1])
        <5> HIDE DEF Down, S
        <5> QED
          BY <4>1, <4>2
      <4> QED
        BY <3>2, <4>2, <4>3
    <3> QED
      BY <3>1, <3>2
  <2>2. f = [n \in 0..N |-> f[n]]
    BY <1>5
  <2> QED
    BY <2>1, <2>2
<1>7. Descent(name, path) = Body(Descent(name, path))
  <2>1. Descent(name, path) = CHOOSE g : g = Body(g)
    BY DEF Descent
  <2>2. \E g : g = Body(g)
    BY <1>6
  <2> QED
    BY <2>1, <2>2, Zenon
<1>8. PICK d : d = Descent(name, path)
  OBVIOUS
<1>9. d = Body(d)
  BY <1>7, <1>8
<1>10. \A n \in 0..N : d[n] = IF n = 0 THEN Lobby ELSE Down(n, d[n - 1])
  BY <1>9
<1>11. 0 \in 0..N /\ \A n \in 1..N : n \in 0..N /\ n # 0
  BY <1>1
<1> QED
  BY <1>8, <1>10, <1>11

\* Of c on the list of a tree: its line, which begins under the lobby.
LEMMA LineOf ==
  ASSUME ListInv, Parented, NoLoop, NEW c \in Listed, \A d \in Listed : InTree(d)
  PROVE  /\ Line(Ancestry[Len(chans)][c], Len(chans), c)
         /\ Len(Ancestry[Len(chans)][c]) > 0
         /\ parent[Ancestry[Len(chans)][c][1]] = Lobby
<1>1. chans \in Seq(Channels) /\ Len(chans) \in Nat /\ Len(chans) > 0 /\ Listed \subseteq Channels
  BY DEF ListInv, Listed
<1>2. PICK line : line = Ancestry[Len(chans)][c]
  OBVIOUS
<1>3. Line(line, Len(chans), c)
  BY <1>1, <1>2, AncestryLines
<1>4. Len(line) > 0 /\ parent[line[1]] \notin Listed
  BY <1>1, <1>3, LineBegins
<1>5. line[1] \in Listed /\ line[1] # Lobby
  BY <1>1, <1>3, <1>4, ChannelsAssumption DEF Line, Lobby
<1>6. parent[line[1]] = Lobby
  BY <1>4, <1>5, ParentInTree
<1> QED
  BY <1>2, <1>3, <1>4, <1>6

LEMMA PathNames ==
  ASSUME ListInv, Parented, NoLoop
  PROVE  PathNamesChannel
<1> SUFFICES ASSUME \A c \in Listed : InTree(c), NEW name \in [Listed -> Pieces],
                    \A c, d \in Listed : c # d /\ parent[c] = parent[d] => name[c] # name[d],
                    NEW c \in Listed
             PROVE  ChannelId(name, Path(name, c)) = c
  BY DEF PathNamesChannel, Rooted
<1>1. PICK line : line = Ancestry[Len(chans)][c]
  OBVIOUS
<1>2. Line(line, Len(chans), c) /\ Len(line) > 0 /\ parent[line[1]] = Lobby
  BY <1>1, LineOf
<1>3. /\ line \in Seq(Listed) /\ Len(line) \in Nat /\ line[Len(line)] = c
      /\ \A i \in 1..Len(line) : line[i] \in Listed
      /\ \A i \in 2..Len(line) : parent[line[i]] = line[i - 1]
  <2>1. Len(chans) > 0
    BY <1>2 DEF Line
  <2> QED
    BY <1>2, <2>1 DEF Line
<1>4. PICK path : path = Path(name, c)
  OBVIOUS
<1>5. path = [i \in 1..Len(line) |-> name[line[i]]] /\ Len(path) = Len(line)
  <2>1. path = [i \in DOMAIN line |-> name[line[i]]] /\ DOMAIN line = 1..Len(line)
    BY <1>1, <1>3, <1>4 DEF Path
  <2> QED
    BY <1>3, <2>1
<1>6. PICK down : down = Descent(name, path)
  OBVIOUS
<1>7. /\ down[0] = Lobby
      /\ \A n \in 1..Len(line) : down[n] = IF down[n - 1] = Away THEN Away
                                           ELSE Child(down[n - 1], path[n], name)
  BY <1>3, <1>5, <1>6, DescentIs
<1>8. Listed \subseteq Channels /\ Away \notin Channels /\ Lobby # Away
  BY ChannelsAssumption DEF ListInv, Listed, Away, Lobby
<1> DEFINE T == {n \in 0..Len(line) : n = 0 \/ down[n] = line[n]}
<1>9. ASSUME NEW n \in 1..Len(line), n - 1 \in T PROVE n \in T
  <2>1. down[n - 1] = parent[line[n]] /\ down[n - 1] # Away
    <3>1. CASE n = 1
      BY <1>2, <1>7, <1>8, <3>1
    <3>2. CASE n # 1
      <4>1. n \in 2..Len(line) /\ n - 1 # 0 /\ n - 1 \in 1..Len(line)
        BY <1>3, <3>2
      <4> QED
        BY <1>3, <1>8, <1>9, <4>1
    <3> QED
      BY <3>1, <3>2
  <2>2. path[n] = name[line[n]] /\ line[n] \in Listed
    BY <1>3, <1>5
  <2>3. Child(parent[line[n]], name[line[n]], name) = line[n]
    BY <2>2, ChildIs
  <2>4. down[n] = line[n]
    BY <1>7, <2>1, <2>2, <2>3
  <2> QED
    BY <1>3, <2>4
<1>10. 0..Len(line) \subseteq T
  <2>1. 0 \in T
    BY <1>3
  <2> HIDE DEF T
  <2> QED
    BY <1>3, <1>9, <2>1, UpTo
<1>11. Len(line) \in T /\ Len(line) # 0
  BY <1>2, <1>3, <1>10
<1>12. down[Len(path)] = c /\ c # Away
  BY <1>3, <1>5, <1>8, <1>11
<1> QED
  BY <1>4, <1>6, <1>12 DEF ChannelId

PathInv == TypeInv /\ Parented /\ NoLoop

\* A list that has only lost channels has no new loop.
LEMMA NoLoopShrinks ==
  ASSUME Parented, NoLoop, Listed' \subseteq Listed, \A d \in Listed' : parent'[d] = parent[d]
  PROVE  Parented' /\ NoLoop'
  BY DEF Parented, NoLoop

\* A channel is added under one that is listed, and nothing hangs under it yet.
LEMMA NoLoopAdded ==
  ASSUME Parented, NoLoop, NEW c \in Channels, c \notin Listed, Listed' = Listed \cup {c},
         NEW p \in Places, p # c, parent'[c] = p, \A d \in Listed : parent'[d] = parent[d],
         \A d \in Listed : parent[d] # c
  PROVE  Parented' /\ NoLoop'
<1>1. Parented'
  BY DEF Parented
<1>2. ASSUME NEW S \in SUBSET Listed', S # {} PROVE \E d \in S : parent'[d] \notin S
  <2>1. CASE S \ {c} = {}
    BY <1>2, <2>1
  <2>2. CASE S \ {c} # {}
    <3>1. PICK less \in SUBSET Listed : less = S \ {c}
      OBVIOUS
    <3>2. PICK d \in less : parent[d] \notin less
      BY <2>2, <3>1 DEF NoLoop
    <3> QED
      BY <3>1, <3>2
  <2> QED
    BY <2>1, <2>2
<1> QED
  BY <1>1, <1>2 DEF NoLoop

LEMMA PathKept ==
  ASSUME PathInv, [Next]_vars
  PROVE  PathInv'
<1>1. TypeInv' /\ ListInv /\ Parented /\ NoLoop
  BY TypeKept DEF PathInv, TypeInv
<1>2. Listed \subseteq Channels /\ parent \in [Channels -> Places \cup {Away}]
  BY <1>1 DEF PathInv, TypeInv, TypeOK, ListInv, Listed
<1>3. CASE AddChannel
  <2>1. PICK c \in Channels \ Listed, p \in Places :
          /\ InTree(p) /\ \A d \in Listed : parent[d] # c
          /\ chans' = Append(chans, c) /\ parent' = [parent EXCEPT ![c] = p]
    BY <1>3 DEF AddChannel
  <2>2. Listed' = Listed \cup {c}
    BY <1>1, <2>1, ListedAppended
  <2>3. p # c
    BY <2>1, ChannelsAssumption DEF InTree, Lobby
  <2>4. parent'[c] = p /\ \A d \in Listed : parent'[d] = parent[d]
    BY <1>2, <2>1
  <2> QED
    BY <1>1, <2>1, <2>2, <2>3, <2>4, NoLoopAdded DEF PathInv
<1>4. CASE RemoveChannel
  <2>1. PICK c \in Listed : chans' = Removed(c) /\ parent' = [parent EXCEPT ![c] = Away]
    BY <1>4 DEF RemoveChannel
  <2>2. Listed' = Listed \ {c}
    BY <1>1, <2>1, ListedRemoved
  <2>3. \A d \in Listed' : parent'[d] = parent[d]
    BY <1>2, <2>1, <2>2
  <2> QED
    BY <1>1, <2>2, <2>3, NoLoopShrinks DEF PathInv
<1>5. CASE MoveChannel
  <2>1. Listed' = Listed /\ parent' = parent
    BY <1>1, <1>5, ListedMoved DEF MoveChannel
  <2> QED
    BY <1>1, <2>1, NoLoopShrinks DEF PathInv
<1>6. CASE DestroyLists
  <2>1. Listed' = {}
    BY <1>6 DEF DestroyLists, Listed
  <2> QED
    BY <1>1, <2>1, NoLoopShrinks DEF PathInv
<1>7. CASE UNCHANGED <<chans, parent>>
  <2>1. Listed' = Listed /\ parent' = parent
    BY <1>7 DEF Listed
  <2> QED
    BY <1>1, <2>1, NoLoopShrinks DEF PathInv
<1> QED
  BY <1>3, <1>4, <1>5, <1>6, <1>7
     DEF Next, Network, Tell, ModifyChannel, UserLogin, UserLogout, MoveUser, LoginComplete,
         Disconnect, GuiEvent, Change, vars, listVars

LEMMA InitPaths ==
  ASSUME Init PROVE PathInv
<1>1. Listed = {}
  BY DEF Init, Listed
<1> QED
  BY <1>1, InitTyped DEF PathInv, Parented, NoLoop

\* The path v3_get_channel_path joins for a channel leads v3_get_channel_id back to that
\* channel, in any tree whose siblings have different names, whatever its depth:
\* PathNamesChannel, after any packets.
THEOREM PathSafe == Spec => []PathNamesChannel
<1>1. Init => PathInv
  BY InitPaths
<1>2. PathInv /\ [Next]_vars => PathInv'
  BY PathKept
<1>3. PathInv => PathNamesChannel
  BY PathNames DEF PathInv, TypeInv
<1> QED
  BY <1>1, <1>2, <1>3, PTL DEF Spec

\* Where the channels of the list lead to when one follows their parents.
PathIsWhole ==
  \A c \in Listed : LET line == Ancestry[Len(chans)][c]
                    IN /\ Len(line) \in 1..Len(chans) /\ line[Len(line)] = c
                       /\ \A i \in 2..Len(line) : parent[line[i]] = line[i - 1]
                       /\ parent[line[1]] \notin Listed

\* The loop of v3_get_channel_path, which counts no steps and runs under the lock of the
\* list, ends: after as many steps as the list has channels it has come to the lobby or to
\* a parent that is gone, whatever was removed.
THEOREM PathsEnd == Spec => []PathIsWhole
<1>1. Init => PathInv
  BY InitPaths
<1>2. PathInv /\ [Next]_vars => PathInv'
  BY PathKept
<1>3. PathInv => PathIsWhole
  <2> SUFFICES ASSUME PathInv, NEW c \in Listed, NEW line, line = Ancestry[Len(chans)][c]
               PROVE  /\ Len(line) \in 1..Len(chans) /\ line[Len(line)] = c
                      /\ \A i \in 2..Len(line) : parent[line[i]] = line[i - 1]
                      /\ parent[line[1]] \notin Listed
    BY DEF PathIsWhole
  <2>1. ListInv /\ Parented /\ NoLoop
    BY DEF PathInv, TypeInv
  <2>2. Len(chans) \in Nat /\ Len(chans) > 0
    BY <2>1 DEF ListInv, Listed
  <2>3. Line(line, Len(chans), c)
    BY <2>1, <2>2, AncestryLines
  <2>4. Len(line) > 0 /\ parent[line[1]] \notin Listed
    BY <2>1, <2>2, <2>3, LineBegins
  <2>5. Len(line) \in Nat
    BY <2>3 DEF Line
  <2> QED
    BY <2>2, <2>3, <2>4, <2>5 DEF Line
<1> QED
  BY <1>1, <1>2, <1>3, PTL DEF Spec
=============================================================================
