--------------------------- MODULE VrfRecorderProofs ---------------------------
(***************************************************************************)
(* Theorems about VrfRecorder, for any number of users and of fragments,   *)
(* crashes at any point and text sent while speaking included.             *)
(***************************************************************************)
EXTENDS VrfRecorder, SequenceTheorems, FiniteSetTheorems, TLAPS

\* Where the loops are while they run.
Loops ==
  /\ at = "write" => k \in DOMAIN queue
  /\ at = "fix" => k \in 1..segcount
  /\ at \in {"scan", "fix"} => k >= 1 /\ Len(table) = segcount
-----------------------------------------------------------------------------
(* Sequences.                                                              *)

\* A change of one count leaves the rest of a sequence of items alone.
Recount(s, o, c) == [s EXCEPT ![o].count = c]

SameButCounts(s, t) ==
  /\ t \in Seq(Items) /\ Len(t) = Len(s) /\ DOMAIN t = DOMAIN s
  /\ \A p \in DOMAIN s : t[p] = [s[p] EXCEPT !.count = t[p].count]
  /\ \A p \in DOMAIN s : /\ t[p].what = s[p].what /\ t[p].index = s[p].index
                         /\ t[p].user = s[p].user

LEMMA CountChange ==
  ASSUME NEW s \in Seq(Items), NEW o, NEW c \in Nat
  PROVE  SameButCounts(s, Recount(s, o, c))
<1> DEFINE t == Recount(s, o, c)
<1>1. DOMAIN t = DOMAIN s /\ DOMAIN s = 1..Len(s) /\ Len(s) \in Nat
  BY DEF Recount
<1>2. ASSUME NEW p \in DOMAIN s
      PROVE  /\ t[p] \in Items /\ t[p] = [s[p] EXCEPT !.count = t[p].count]
             /\ t[p].what = s[p].what /\ t[p].index = s[p].index
             /\ t[p].user = s[p].user
  <2>1. s[p] \in Items
    OBVIOUS
  <2>2. t[p] = IF p = o THEN [s[p] EXCEPT !.count = c] ELSE s[p]
    BY DEF Recount
  <2> QED
    BY <2>1, <2>2 DEF Items
<1>3. t \in Seq(Items) /\ Len(t) = Len(s)
  <2>1. t = [p \in 1..Len(s) |-> t[p]]
    BY <1>1 DEF Recount
  <2>2. t \in [1..Len(s) -> Items]
    BY <1>1, <1>2, <2>1
  <2> QED
    BY <1>1, <2>2, SeqDef
<1> HIDE DEF t
<1>4. SameButCounts(s, t)
  BY <1>1, <1>2, <1>3 DEF SameButCounts
<1> QED
  BY <1>4 DEF t

\* A change of one element keeps a sequence one over the same set.
LEMMA ElementChange ==
  ASSUME NEW S, NEW s \in Seq(S), NEW t, DOMAIN t = DOMAIN s,
         t = [p \in DOMAIN s |-> t[p]], \A p \in DOMAIN s : t[p] \in S
  PROVE  t \in Seq(S) /\ Len(t) = Len(s)
<1>1. DOMAIN s = 1..Len(s) /\ Len(s) \in Nat
  OBVIOUS
<1>2. t \in [1..Len(s) -> S]
  BY <1>1
<1> QED
  BY <1>1, <1>2, SeqDef

LEMMA ElementOf ==
  ASSUME NEW S, NEW s \in Seq(S), NEW p \in DOMAIN s PROVE s[p] \in S
OBVIOUS
-----------------------------------------------------------------------------
(* Types.                                                                  *)

LEMMA RecordTypes ==
  ASSUME NEW r \in Records
  PROVE  /\ r.user \in Users /\ r.type \in Types /\ r.index \in Nat /\ r.count \in Nat
         /\ r.data \in Seq(Items) /\ r.offset \in Nat /\ r.stopped \in BOOLEAN
BY DEF Records

LEMMA CountUp == \A n \in Nat : n + 1 \in Nat
OBVIOUS

\* A record with more data.
Grown(r, d, b) == [r EXCEPT !.data = d, !.count = @ + 1, !.stopped = b]

LEMMA RecordGrows ==
  ASSUME NEW r \in Records, NEW d \in Seq(Items), NEW b \in BOOLEAN
  PROVE  Grown(r, d, b) \in Records
BY Zenon, RecordTypes, CountUp DEF Records, Grown

LEMMA ItemTypes ==
  ASSUME NEW u \in Users, NEW t \in Types, NEW i \in Nat, NEW n \in Nat, said \in Nat
  PROVE  /\ SegmentHeader(u, t, i) \in Items /\ Fragment(u, t, i) \in Items
         /\ Row(t, u, i, n) \in Items
BY DEF SegmentHeader, Fragment, Row, Items

LEMMA BeginTypes ==
  ASSUME TypeOK, NEW u \in Users, NEW t \in Types, Begin(u, t)
  PROVE  /\ queue' \in Seq(Records) /\ segcount' \in Nat
         /\ spoken' \in Seq([user : Users, frags : Seq(Nat)])
<1>1. segcount \in Nat /\ said + 1 \in Nat /\ said \in Nat
  BY DEF TypeOK
<1>2. <<SegmentHeader(u, t, segcount), Fragment(u, t, segcount)>> \in Seq(Items)
  BY <1>1, ItemTypes
<1>3. [user |-> u, type |-> t, index |-> segcount, count |-> 1, offset |-> 0,
       data |-> <<SegmentHeader(u, t, segcount), Fragment(u, t, segcount)>>,
       stopped |-> (t = "text")] \in Records
  BY <1>1, <1>2 DEF Records
<1>4. [user |-> u, frags |-> <<said + 1>>] \in [user : Users, frags : Seq(Nat)]
  BY <1>1
<1> QED
  BY <1>1, <1>3, <1>4 DEF Begin, TypeOK

LEMMA ContinueTypes ==
  ASSUME TypeOK, NEW u \in Users, NEW t \in Types, NEW i \in DOMAIN queue, Continue(u, t, i)
  PROVE  /\ queue' \in Seq(Records) /\ segcount' \in Nat /\ DOMAIN queue' = DOMAIN queue
         /\ spoken' \in Seq([user : Users, frags : Seq(Nat)])
<1>1. queue \in Seq(Records) /\ said \in Nat /\ said + 1 \in Nat
  BY DEF TypeOK
<1>2. queue[i] \in Records /\ queue[i].index \in Nat /\ queue[i].data \in Seq(Items)
  BY <1>1, ElementOf, RecordTypes
<1>3. Append(queue[i].data, Fragment(u, t, queue[i].index)) \in Seq(Items)
  BY <1>1, <1>2, ItemTypes
<1>4. /\ DOMAIN queue' = DOMAIN queue /\ queue' = [p \in DOMAIN queue |-> queue'[p]]
      /\ \A p \in DOMAIN queue : queue'[p] =
           IF p = i THEN [queue[i] EXCEPT !.data = Append(@, Fragment(u, t, queue[i].index)),
                                          !.count = @ + 1, !.stopped = (t = "text")]
           ELSE queue[p]
  BY <1>1 DEF Continue
<1>5. queue'[i] \in Records
  <2>1. (t = "text") \in BOOLEAN
    OBVIOUS
  <2> DEFINE d == Append(queue[i].data, Fragment(u, t, queue[i].index))
  <2>2. queue'[i] = Grown(queue[i], d, t = "text")
    BY <1>4 DEF Grown
  <2>3. d \in Seq(Items)
    BY <1>3
  <2> HIDE DEF d
  <2> QED
    BY <1>2, <2>1, <2>2, <2>3, RecordGrows
<1>6. queue' \in Seq(Records)
  <2>1. \A p \in DOMAIN queue : queue'[p] \in Records
    BY <1>1, <1>4, <1>5
  <2> QED
    BY <1>1, <1>4, <2>1, ElementChange
<1>7. spoken' \in Seq([user : Users, frags : Seq(Nat)])
  <2> DEFINE S == [user : Users, frags : Seq(Nat)]
             j == queue[i].index + 1
  <2>1. spoken \in Seq(S)
    BY DEF TypeOK
  <2>2. /\ DOMAIN spoken' = DOMAIN spoken /\ spoken' = [p \in DOMAIN spoken |-> spoken'[p]]
        /\ \A p \in DOMAIN spoken : spoken'[p] =
             IF p = j THEN [spoken[p] EXCEPT !.frags = Append(@, said + 1)] ELSE spoken[p]
    BY <2>1 DEF Continue
  <2>3. ASSUME NEW p \in DOMAIN spoken PROVE spoken'[p] \in S
    <3>1. spoken[p] \in S
      BY <2>1, ElementOf
    <3>3. spoken[p].frags \in Seq(Nat)
      BY <3>1
    <3>2. Append(spoken[p].frags, said + 1) \in Seq(Nat)
      BY <1>1, <3>3
    <3> QED
      BY <2>2, <3>1, <3>2
  <2> QED
    BY <2>1, <2>2, <2>3, ElementChange
<1> QED
  BY <1>4, <1>6, <1>7 DEF Continue, TypeOK

LEMMA StopTypes ==
  ASSUME TypeOK, NEW S, StopRecords(S)
  PROVE  /\ queue' \in Seq(Records) /\ DOMAIN queue' = DOMAIN queue
         /\ \A p \in DOMAIN queue : /\ queue'[p] = [queue[p] EXCEPT !.stopped = queue'[p].stopped]
                                    /\ queue'[p].stopped = (queue[p].stopped \/ p \in S)
<1>1. queue \in Seq(Records)
  BY DEF TypeOK
<1>2. /\ DOMAIN queue' = DOMAIN queue /\ queue' = [p \in DOMAIN queue |-> queue'[p]]
      /\ \A p \in DOMAIN queue : queue'[p] = [queue[p] EXCEPT !.stopped = @ \/ p \in S]
  BY DEF StopRecords
<1>3. ASSUME NEW p \in DOMAIN queue
      PROVE  /\ queue'[p] \in Records
             /\ queue'[p] = [queue[p] EXCEPT !.stopped = queue'[p].stopped]
             /\ queue'[p].stopped = (queue[p].stopped \/ p \in S)
  <2>1. queue[p] \in Records
    BY <1>1
  <2>2. (queue[p].stopped \/ p \in S) \in BOOLEAN
    OBVIOUS
  <2>3. queue'[p].stopped = (queue[p].stopped \/ p \in S)
    BY <1>2, <2>1, Zenon DEF Records
  <2> QED
    BY <1>2, <2>1, <2>2, <2>3, Zenon DEF Records
<1> QED
  BY <1>1, <1>2, <1>3, ElementChange

\* A record is found where there is one.
LEMMA OpenIsQueued ==
  ASSUME NEW u, NEW i \in Open(u) PROVE i \in DOMAIN queue
BY DEF Open

LEMMA EnqueueTypes ==
  ASSUME TypeOK, NEW e, NEW u \in Users, Enqueue(e, u)
  PROVE  /\ queue' \in Seq(Records) /\ segcount' \in Nat /\ said' \in Nat
         /\ spoken' \in Seq([user : Users, frags : Seq(Nat)])
<1>1. ASSUME NEW t \in Types, Data(u, t)
      PROVE  /\ queue' \in Seq(Records) /\ segcount' \in Nat /\ said' \in Nat
             /\ spoken' \in Seq([user : Users, frags : Seq(Nat)])
  <2>1. said' \in Nat
    BY <1>1 DEF Data, TypeOK
  <2>2. CASE Open(u) = {}
    BY <1>1, <2>1, <2>2, BeginTypes DEF Data
  <2>3. CASE Open(u) /= {}
    <3>1. PICK i \in Open(u) : Continue(u, t, i)
      BY <1>1, <2>3 DEF Data
    <3> QED
      BY <2>1, <3>1, OpenIsQueued, ContinueTypes
  <2> QED
    BY <2>2, <2>3
<1>2. ASSUME NEW S, StopRecords(S)
      PROVE  /\ queue' \in Seq(Records) /\ segcount' \in Nat /\ said' \in Nat
             /\ spoken' \in Seq([user : Users, frags : Seq(Nat)])
  BY <1>2, StopTypes DEF StopRecords, TypeOK
<1> QED
  BY <1>1, <1>2 DEF Enqueue, Types

LEMMA WriteTypes ==
  ASSUME TypeOK, Loops, WriteRecord
  PROVE  /\ file' \in Seq(Items) /\ queue' \in Seq(Records) /\ DOMAIN queue' = DOMAIN queue
         /\ \A p \in DOMAIN queue : p /= k => queue'[p] = queue[p]
         /\ ~Writes => file' = file /\ queue' = queue
         /\ Writes => /\ file' = file \o queue[k].data /\ queue'[k].offset /= 0
                      /\ queue'[k].data = <<>>
         /\ queue'[k].user = queue[k].user /\ queue'[k].index = queue[k].index
         /\ queue'[k].stopped = queue[k].stopped
<1>1. /\ queue \in Seq(Records) /\ file \in Seq(Items) /\ k \in DOMAIN queue
      /\ queue[k] \in Records
  BY ElementOf DEF TypeOK, Loops, WriteRecord
<1>2. queue[k].data \in Seq(Items) /\ queue[k].offset \in Nat
  BY <1>1, RecordTypes
<1>3. CASE ~Writes
  BY <1>1, <1>3 DEF WriteRecord
<1>4. CASE Writes
  <2> DEFINE o == IF queue[k].offset = 0 THEN Len(file) + 1 ELSE queue[k].offset
             r == [queue[k] EXCEPT !.offset = o, !.data = <<>>]
  <2>1. o \in Nat /\ o /= 0
    BY <1>1, <1>2
  <2>2. /\ file' = file \o queue[k].data
        /\ DOMAIN queue' = DOMAIN queue /\ queue' = [p \in DOMAIN queue |-> queue'[p]]
        /\ \A p \in DOMAIN queue : queue'[p] = IF p = k THEN r ELSE queue[p]
    BY <1>1, <1>4 DEF WriteRecord
  <2> HIDE DEF o
  <2>3. /\ r \in Records /\ r.offset = o /\ r.data = <<>> /\ r.user = queue[k].user
        /\ r.index = queue[k].index /\ r.stopped = queue[k].stopped
    <3>1. <<>> \in Seq(Items)
      OBVIOUS
    <3> QED
      BY <1>1, <2>1, <3>1, Zenon DEF Records
  <2> HIDE DEF r
  <2>4. queue' \in Seq(Records)
    <3>1. \A p \in DOMAIN queue : queue'[p] \in Records
      BY <1>1, <2>2, <2>3, ElementOf
    <3> QED
      BY <1>1, <2>2, <3>1, ElementChange
  <2>5. file' \in Seq(Items)
    BY <1>1, <1>2, <2>2
  <2> QED
    BY <1>1, <1>4, <2>1, <2>2, <2>3, <2>4, <2>5
<1> QED
  BY <1>3, <1>4

LEMMA RetireTypes ==
  ASSUME TypeOK, Retire
  PROVE  /\ SameButCounts(file, file')
         /\ queue' \in Seq(Records) /\ table' \in Seq(Items) /\ Len(queue') = Len(queue) - 1
         /\ \A p \in DOMAIN queue' : p + 1 \in DOMAIN queue /\ queue'[p] = queue[p + 1]
<1>1. queue \in Seq(Records) /\ file \in Seq(Items) /\ table \in Seq(Items) /\ queue /= <<>>
  BY DEF TypeOK, Retire
<1>2. 1 \in DOMAIN queue
  BY <1>1
<1>3. queue[1] \in Records
  BY <1>1, <1>2, ElementOf
<1>4. Row(queue[1].type, queue[1].user, queue[1].index, queue[1].offset) \in Items
      /\ queue[1].count \in Nat
  BY <1>3, RecordTypes, ItemTypes DEF TypeOK
<1>5. queue' = Tail(queue) /\ file' = [file EXCEPT ![queue[1].offset].count = queue[1].count]
      /\ table' = Append(table, Row(queue[1].type, queue[1].user, queue[1].index, queue[1].offset))
  BY DEF Retire
<1>6. /\ queue' \in Seq(Records) /\ Len(queue') = Len(queue) - 1
      /\ \A p \in DOMAIN queue' : p + 1 \in DOMAIN queue /\ queue'[p] = queue[p + 1]
  BY <1>1, <1>5
<1>7. table' \in Seq(Items)
  BY <1>1, <1>4, <1>5
<1>8. file' = Recount(file, queue[1].offset, queue[1].count)
  BY <1>5 DEF Recount
<1>9. SameButCounts(file, file')
  BY <1>1, <1>4, <1>8, CountChange
<1> QED
  BY <1>6, <1>7, <1>9

LEMMA FixTypes ==
  ASSUME TypeOK, Loops, FixHeader
  PROVE  /\ SameButCounts(file, file')
         /\ table' \in Seq(Items) /\ Len(table') = Len(table)
<1>1. file \in Seq(Items) /\ table \in Seq(Items) /\ segcount \in Nat
  BY DEF TypeOK
<1>2. k \in DOMAIN table
  BY <1>1 DEF Loops, FixHeader
<1>3. table[k].count \in Nat
  <2>1. table[k] \in Items
    BY <1>1, <1>2, ElementOf
  <2> QED
    BY <2>1 DEF Items
<1>4. file' = [file EXCEPT ![table[k].no].count = table[k].count]
      /\ table' = [table EXCEPT ![k].count = 0]
  BY DEF FixHeader
<1>5. file' = Recount(file, table[k].no, table[k].count) /\ table' = Recount(table, k, 0)
  BY <1>4 DEF Recount
<1>6. SameButCounts(file, file')
  BY <1>1, <1>3, <1>5, CountChange
<1>7. table' \in Seq(Items) /\ Len(table') = Len(table)
  BY <1>1, <1>5, CountChange DEF SameButCounts
<1> QED
  BY <1>6, <1>7

LEMMA ScanTypes ==
  ASSUME TypeOK, Loops, ScanSegment \/ ScanFragment
  PROVE  /\ table' \in Seq(Items) /\ segcount' \in Nat /\ k' \in Nat
         /\ Len(table') = segcount'
<1>1. /\ file \in Seq(Items) /\ table \in Seq(Items) /\ segcount \in Nat /\ k \in Nat
      /\ Len(table) = segcount
  BY DEF TypeOK, Loops, ScanSegment, ScanFragment
<1>2. CASE ScanSegment
  <2>1. k <= Len(file) /\ table' = Append(table, Row(file[k].type, file[k].user, segcount, k))
        /\ segcount' = segcount + 1 /\ k' = k + 1
    BY <1>2 DEF ScanSegment
  <2>2. CASE k \in DOMAIN file
    <3>1. file[k] \in Items
      BY <1>1, <2>2, ElementOf
    <3>2. Row(file[k].type, file[k].user, segcount, k) \in Items
      BY <1>1, <3>1 DEF Row, Items
    <3> QED
      BY <1>1, <2>1, <3>2
  <2>3. k \in DOMAIN file
    <3>1. k >= 1
      BY <1>2 DEF Loops, ScanSegment
    <3> QED
      BY <1>1, <2>1, <3>1
  <2> QED
    BY <2>2, <2>3
<1>3. CASE ScanFragment
  <2>1. segcount \in DOMAIN table
    BY <1>1, <1>3 DEF ScanFragment
  <2>2. table[segcount].count \in Nat
    <3>1. table[segcount] \in Items
      BY <1>1, <2>1, ElementOf
    <3> QED
      BY <3>1 DEF Items
  <2>3. table' = Recount(table, segcount, table[segcount].count + 1)
        /\ table[segcount].count + 1 \in Nat /\ segcount' = segcount
    BY <1>3, <2>2 DEF ScanFragment, Recount
  <2>4. k' \in Nat
    BY <1>1, <1>3 DEF ScanFragment
  <2>6. table' \in Seq(Items) /\ Len(table') = Len(table)
    BY <1>1, <2>3, CountChange DEF SameButCounts
  <2> QED
    BY <1>1, <2>3, <2>4, <2>6
<1> QED
  BY <1>2, <1>3

LEMMA LockTypes ==
  ASSUME TypeOK, EventLock \/ StopLock
  PROVE  /\ queue' \in Seq(Records) /\ segcount' \in Nat /\ said' \in Nat
         /\ spoken' \in Seq([user : Users, frags : Seq(Nat)])
         /\ at' \in Places /\ k' \in Nat /\ owner' \in {"nobody", "net", "ui"}
         /\ pending' \in SUBSET Requests
         /\ at' = "write" /\ recording => k' = 1 /\ queue' /= <<>>
<1>1. CASE StopLock
  BY <1>1, StopTypes DEF StopLock, StopRecords, BeginWriting, TypeOK, Places
<1>2. CASE EventLock
  <2>1. pending' = {} /\ (pending' \in SUBSET Requests)
    BY <1>2 DEF EventLock
  <2>2. PICK r \in pending :
          IF recording
          THEN /\ Enqueue(r.event, r.user) \/ Enqueue("flush", r.user)
               /\ BeginWriting("net")
          ELSE UNCHANGED <<owner, at, k, queue, segcount, spoken, said>>
    BY <1>2 DEF EventLock
  <2>3. r.user \in Users
    BY <2>2 DEF TypeOK, Requests
  <2>4. CASE recording
    <3>1. PICK e : Enqueue(e, r.user) /\ BeginWriting("net")
      BY <2>2, <2>4
    <3>2. /\ queue' \in Seq(Records) /\ segcount' \in Nat /\ said' \in Nat
          /\ spoken' \in Seq([user : Users, frags : Seq(Nat)])
      BY <2>3, <3>1, EnqueueTypes
    <3> QED
      BY <2>1, <3>1, <3>2 DEF BeginWriting, Places
  <2>5. CASE ~recording
    BY <2>1, <2>2, <2>5 DEF TypeOK
  <2> QED
    BY <2>4, <2>5
<1> QED
  BY <1>1, <1>2

LEMMA EmptyTypes ==
  /\ <<>> \in Seq(Records) /\ <<>> \in Seq(Items) /\ Len(<<>>) = 0
  /\ <<>> \in Seq([user : Users, frags : Seq(Nat)])
OBVIOUS

LEMMA TypesInit == Init => TypeOK /\ Loops
<1> SUFFICES ASSUME Init PROVE TypeOK /\ Loops
  OBVIOUS
<1>1. disk \in Headers /\ {} \in SUBSET Requests
  BY DEF Init, Headers
<1> QED
  BY <1>1, EmptyTypes DEF Init, TypeOK, Loops, Places

LEMMA TypesStep == TypeOK /\ Loops /\ (at = "write" => recording) /\ [Next]_vars => TypeOK' /\ Loops'
<1> SUFFICES ASSUME TypeOK, Loops, at = "write" => recording, [Next]_vars PROVE TypeOK' /\ Loops'
  OBVIOUS
<1>1. CASE RecordStart
  <2>1. disk' \in Headers
    BY <1>1 DEF RecordStart, Headers
  <2> QED
    BY <1>1, <2>1 DEF RecordStart, handleVars, pastVars, TypeOK, Loops
<1>2. CASE EventCheck
  <2>1. pending' \in SUBSET Requests
    BY <1>2 DEF EventCheck
  <2> QED
    BY <1>2, <2>1 DEF EventCheck, handleVars, pastVars, TypeOK, Loops
<1>3. CASE EventLock \/ StopLock
  <2>1. /\ queue' \in Seq(Records) /\ segcount' \in Nat /\ said' \in Nat
        /\ spoken' \in Seq([user : Users, frags : Seq(Nat)])
        /\ at' \in Places /\ k' \in Nat /\ owner' \in {"nobody", "net", "ui"}
        /\ pending' \in SUBSET Requests
        /\ at' = "write" /\ recording => k' = 1 /\ queue' /= <<>>
    BY <1>3, LockTypes
  <2>2. UNCHANGED <<disk, file, recording, stopping, segtable, table, crashes>>
    BY <1>3 DEF EventLock, StopLock
  <2>3. TypeOK'
    BY <2>1, <2>2 DEF TypeOK
  <2>4. CASE at' \in {"write", "retire"} /\ (at' = "write" => k' = 1 /\ queue' /= <<>>)
    <3>1. queue' /= <<>> => 1 \in DOMAIN queue'
      BY <2>1
    <3>2. at' = "write" => k' \in DOMAIN queue'
      BY <2>4, <3>1
    <3> QED
      BY <2>3, <2>4, <3>2 DEF Loops
  <2>5. CASE UNCHANGED <<at, k, queue, segcount, table>>
    <3>1. at' = at /\ k' = k /\ queue' = queue /\ segcount' = segcount /\ table' = table
      BY <2>5
    <3> QED
      BY <2>3, <3>1 DEF Loops
  <2>6. \/ at' \in {"write", "retire"} /\ (at' = "write" => k' = 1 /\ queue' /= <<>>)
        \/ UNCHANGED <<at, k, queue, segcount, table>>
    BY <1>3, <2>2 DEF EventLock, StopLock, BeginWriting
  <2> QED
    BY <2>3, <2>4, <2>5, <2>6
<1>4. CASE WriteRecord
  <2>1. file' \in Seq(Items) /\ queue' \in Seq(Records) /\ DOMAIN queue' = DOMAIN queue
    BY <1>4, WriteTypes
  <2>2. /\ k \in DOMAIN queue /\ k \in Nat
        /\ \/ GoesOn /\ at' = "write" /\ k' = k + 1
           \/ at' = "retire" /\ k' = 1
    BY <1>4 DEF WriteRecord, Loops, TypeOK
  <2>3. at' = "write" => k' \in DOMAIN queue'
    <3>1. queue \in Seq(Records)
      BY DEF TypeOK
    <3> QED
      BY <2>1, <2>2, <3>1 DEF GoesOn
  <2>4. UNCHANGED <<disk, recording, stopping, owner, pending, segcount, segtable, table, pastVars>>
    BY <1>4 DEF WriteRecord
  <2> QED
    BY <2>1, <2>2, <2>3, <2>4 DEF TypeOK, Loops, pastVars, Places
<1>5. CASE Retire
  <2>1. file' \in Seq(Items) /\ queue' \in Seq(Records) /\ table' \in Seq(Items)
    BY <1>5, RetireTypes DEF SameButCounts
  <2> QED
    BY <1>5, <2>1 DEF Retire, TypeOK, Loops, pastVars
<1>6. CASE EventEnd
  BY <1>6 DEF EventEnd, TypeOK, Loops, handleVars, pastVars, Places
<1>7. CASE RecordStop
  BY <1>7 DEF RecordStop, TypeOK, Loops, handleVars, pastVars
<1>8. CASE FinishTable
  BY <1>8, EmptyTypes DEF FinishTable, TypeOK, Loops, pastVars, Places
<1>9. CASE FinishHeader
  <2>1. disk' \in Headers
    BY <1>9 DEF FinishHeader, Headers, TypeOK
  <2> QED
    BY <1>9, <2>1 DEF FinishHeader, TypeOK, Loops, handleVars, pastVars, Places
<1>10. CASE Crash
  <2>1. {} \in SUBSET Requests /\ crashes' \in Nat
    BY <1>10 DEF Crash, TypeOK
  <2> QED
    BY <1>10, <2>1, EmptyTypes DEF Crash, Forget, TypeOK, Loops, Places
<1>11. CASE Recover
  BY <1>11, EmptyTypes DEF Recover, TypeOK, Loops, pastVars, Places
<1>12. CASE ScanSegment \/ ScanFragment
  <2>1. /\ table' \in Seq(Items) /\ segcount' \in Nat /\ k' \in Nat
        /\ Len(table') = segcount'
    BY <1>12, ScanTypes
  <2>2. /\ UNCHANGED <<disk, file, recording, stopping, owner, pending, at, queue, segtable, pastVars>>
        /\ at = "scan" /\ k' >= 1
    BY <1>12 DEF ScanSegment, ScanFragment, TypeOK, Loops
  <2> QED
    BY <2>1, <2>2 DEF TypeOK, Loops, pastVars
<1>13. CASE ScanFails
  BY <1>13, EmptyTypes DEF ScanFails, Forget, TypeOK, Loops, pastVars, Places
<1>14. CASE ScanEnd
  BY <1>14 DEF ScanEnd, TypeOK, Loops, handleVars, pastVars, Places
<1>15. CASE FixHeader
  <2>1. file' \in Seq(Items) /\ table' \in Seq(Items) /\ Len(table') = Len(table)
    BY <1>15, FixTypes DEF SameButCounts
  <2>2. /\ UNCHANGED <<disk, recording, stopping, owner, pending, queue, segcount, segtable, pastVars>>
        /\ \/ k < segcount /\ at' = "fix" /\ k' = k + 1
           \/ at' = "table" /\ k' = 1
    BY <1>15 DEF FixHeader
  <2>3. k \in 1..segcount /\ segcount \in Nat /\ Len(table) = segcount
    BY <1>15 DEF FixHeader, Loops, TypeOK
  <2> QED
    BY <2>1, <2>2, <2>3 DEF TypeOK, Loops, pastVars, Places
<1>16. CASE UNCHANGED vars
  BY <1>16 DEF vars, handleVars, pastVars, TypeOK, Loops
<1> QED
  BY <1>1, <1>2, <1>3, <1>4, <1>5, <1>6, <1>7, <1>8, <1>9, <1>10, <1>11, <1>12, <1>13,
     <1>14, <1>15, <1>16 DEF Next
-----------------------------------------------------------------------------
(* Who is where.                                                           *)

\* A recording holds the file from its first write to its last; a recovery
\* runs without one.  Between two events only the network thread or the GUI
\* can be next; when the GUI has stopped the recording every record is stopped.
Modes ==
  /\ disk.headid = "none" => file = <<>> /\ ~recording /\ at = "idle"
  /\ stopping => recording
  /\ at = "idle" => owner = "nobody"
  /\ at \in {"write", "retire"} => recording /\ owner /= "nobody"
  /\ at \in {"scan", "fix"} => ~recording
  /\ recording /\ owner = "nobody" => at = "idle"
  /\ queue /= <<>> => recording /\ at \in {"idle", "write", "retire"}
  /\ owner = "ui" => \A i \in DOMAIN queue : queue[i].stopped

LEMMA ModesInit == Init => Modes
BY DEF Init, Modes

LEMMA ModesStep == TypeOK /\ Loops /\ Modes /\ [Next]_vars => Modes'
<1> SUFFICES ASSUME TypeOK, Loops, Modes, [Next]_vars PROVE Modes'
  OBVIOUS
<1> USE DEF handleVars, pastVars
<1>1. CASE RecordStart
  BY <1>1 DEF RecordStart, Modes
<1>2. CASE EventCheck
  BY <1>2 DEF EventCheck, Modes
<1>3. CASE EventLock
  BY <1>3 DEF EventLock, BeginWriting, Modes
<1>4. CASE StopLock
  <2>1. \A i \in DOMAIN queue' : queue'[i].stopped
    BY <1>4, StopTypes DEF StopLock
  <2> QED
    BY <1>4, <2>1 DEF StopLock, BeginWriting, Modes
<1>5. CASE WriteRecord
  <2>1. DOMAIN queue' = DOMAIN queue /\ \A i \in DOMAIN queue : queue'[i].stopped = queue[i].stopped
    BY <1>5, WriteTypes
  <2>2. at = "write" /\ at' \in {"write", "retire"} /\ UNCHANGED <<disk, stopping, recording, owner>>
    BY <1>5 DEF WriteRecord
  <2> QED
    BY <2>1, <2>2 DEF Modes, TypeOK, Headers
<1>6. CASE Retire
  <2>1. \A p \in DOMAIN queue' : p + 1 \in DOMAIN queue /\ queue'[p] = queue[p + 1]
    BY <1>6, RetireTypes
  <2>2. file = <<>> => file' = <<>>
    BY <1>6 DEF Retire
  <2>3. at = "retire" /\ UNCHANGED <<disk, stopping, recording, owner, at>>
    BY <1>6 DEF Retire
  <2> QED
    BY <2>1, <2>2, <2>3 DEF Modes
<1>7. CASE EventEnd
  <2>1. owner = "ui" => queue = <<>>
    <3>1. queue /= <<>> => 1 \in DOMAIN queue
      BY DEF TypeOK
    <3> QED
      BY <1>7, <3>1 DEF EventEnd, Modes
  <2> QED
    BY <1>7, <2>1 DEF EventEnd, Modes, TypeOK
<1>8. CASE RecordStop
  BY <1>8 DEF RecordStop, Modes
<1>9. CASE FinishTable
  BY <1>9 DEF FinishTable, Modes
<1>10. CASE FinishHeader
  BY <1>10 DEF FinishHeader, Modes
<1>11. CASE Crash
  BY <1>11 DEF Crash, Forget, Modes
<1>12. CASE Recover
  BY <1>12 DEF Recover, Modes
<1>13. CASE ScanSegment \/ ScanFragment
  BY <1>13 DEF ScanSegment, ScanFragment, Modes
<1>14. CASE ScanFails
  BY <1>14 DEF ScanFails, Forget, Modes
<1>15. CASE ScanEnd
  BY <1>15 DEF ScanEnd, Modes
<1>16. CASE FixHeader
  BY <1>16 DEF FixHeader, Modes
<1>17. CASE UNCHANGED vars
  BY <1>17 DEF vars, Modes
<1> QED
  BY <1>1, <1>2, <1>3, <1>4, <1>5, <1>6, <1>7, <1>8, <1>9, <1>10, <1>11, <1>12, <1>13,
     <1>14, <1>15, <1>16, <1>17 DEF Next
-----------------------------------------------------------------------------
(* What is in the file and what is waiting.                                *)

Of(rec, it) == it.what /= "row" /\ it.index = rec.index /\ it.user = rec.user

\* The data of a record is its own and, as long as nothing of the record has
\* been written, begins with its header.
Coherent(rec) ==
  /\ \A p \in DOMAIN rec.data : Of(rec, rec.data[p])
  /\ rec.offset = 0 => rec.data /= <<>> /\ rec.data[1].what /= "fragment"

Behind(rec) == file /= <<>> /\ Of(rec, file[Len(file)])

\* A record of which something has been written is the head of the queue, or
\* behind stopped ones on the way out; the last one written ends the file.
Written(i) ==
  queue[i].offset /= 0 =>
    /\ i = 1 \/ at \in {"write", "retire"}
    /\ \A j \in 1..(i - 1) : queue[j].stopped
    /\ (i = Len(queue) \/ queue[i + 1].offset = 0) => Behind(queue[i])

Progress ==
  at = "write" =>
    /\ \A j \in DOMAIN queue : j < k => queue[j].stopped /\ queue[j].offset /= 0
    /\ \A j \in DOMAIN queue : j > 1 /\ j >= k => queue[j].offset = 0

Layout == Progress /\ \A i \in DOMAIN queue : Coherent(queue[i]) /\ Written(i)

NoRows == recording /\ at /= "header" => \A p \in DOMAIN file : file[p].what /= "row"
TableOfRows == \A p \in DOMAIN table : table[p].what = "row"

FileInv == Layout /\ NoRows /\ TableOfRows /\ Contiguous

\* What the first half of an event may do to the queue.
Grows ==
  /\ Len(queue') >= Len(queue)
  /\ \A i \in DOMAIN queue :
       /\ queue'[i].offset = queue[i].offset
       /\ queue'[i].user = queue[i].user /\ queue'[i].index = queue[i].index
       /\ Coherent(queue'[i])
  /\ \A i \in DOMAIN queue' : i \notin DOMAIN queue => queue'[i].offset = 0 /\ Coherent(queue'[i])

LEMMA BeginGrows ==
  ASSUME TypeOK, Layout, NEW u \in Users, NEW t \in Types, Begin(u, t)
  PROVE  Grows
<1> DEFINE d == <<SegmentHeader(u, t, segcount), Fragment(u, t, segcount)>>
           rec == [user |-> u, type |-> t, index |-> segcount, count |-> 1, offset |-> 0,
                   data |-> d, stopped |-> (t = "text")]
<1>1. queue \in Seq(Records) /\ queue' = Append(queue, rec)
  BY DEF TypeOK, Begin
<1>2. rec.data = d /\ rec.offset = 0 /\ rec.user = u /\ rec.index = segcount
  OBVIOUS
<1>3. /\ DOMAIN d = 1..2 /\ d[1].what = "segment" /\ d[1].user = u /\ d[1].index = segcount
      /\ d[2].what = "fragment" /\ d[2].user = u /\ d[2].index = segcount /\ d /= <<>>
  BY DEF SegmentHeader, Fragment
<1> HIDE DEF d
<1>4. Coherent(rec)
  BY <1>2, <1>3 DEF Coherent, Of
<1> HIDE DEF rec
<1>5. /\ Len(queue') = Len(queue) + 1 /\ DOMAIN queue' = 1..(Len(queue) + 1)
      /\ DOMAIN queue = 1..Len(queue) /\ queue'[Len(queue) + 1] = rec
      /\ \A i \in DOMAIN queue : queue'[i] = queue[i]
  BY <1>1
<1> QED
  BY <1>2, <1>4, <1>5 DEF Grows, Layout

LEMMA ContinueGrows ==
  ASSUME TypeOK, Layout, NEW u \in Users, NEW t \in Types, NEW i \in Open(u), Continue(u, t, i)
  PROVE  Grows
<1>1. /\ queue \in Seq(Records) /\ i \in DOMAIN queue /\ queue[i] \in Records
      /\ queue[i].user = u
  BY OpenIsQueued, ElementOf DEF TypeOK, Open
<1>2. queue[i].data \in Seq(Items)
  BY <1>1, RecordTypes
<1> DEFINE f == Fragment(u, t, queue[i].index)
           d == Append(queue[i].data, f)
<1>3. /\ DOMAIN queue' = DOMAIN queue
      /\ \A p \in DOMAIN queue : p /= i => queue'[p] = queue[p]
      /\ queue'[i] = Grown(queue[i], d, t = "text")
  BY <1>1 DEF Continue, Grown
<1>4. f.what = "fragment" /\ f.index = queue[i].index /\ f.user = u
  BY DEF Fragment
<1>5. /\ \A p \in DOMAIN d : d[p] = f \/ (p \in DOMAIN queue[i].data /\ d[p] = queue[i].data[p])
      /\ queue[i].data /= <<>> => d /= <<>> /\ d[1] = queue[i].data[1]
  <2>1. f \in Items
    BY <1>1, ItemTypes, RecordTypes DEF TypeOK
  <2> HIDE DEF f
  <2>2. /\ Len(d) = Len(queue[i].data) + 1 /\ DOMAIN d = 1..(Len(queue[i].data) + 1)
        /\ d[Len(queue[i].data) + 1] = f
        /\ \A p \in 1..Len(queue[i].data) : d[p] = queue[i].data[p]
    BY <1>2, <2>1
  <2>3. DOMAIN queue[i].data = 1..Len(queue[i].data) /\ Len(queue[i].data) \in Nat
        /\ (queue[i].data /= <<>> => Len(queue[i].data) >= 1)
    BY <1>2
  <2>4. \A p \in DOMAIN d : d[p] = f \/ (p \in DOMAIN queue[i].data /\ d[p] = queue[i].data[p])
    BY <2>2, <2>3
  <2>5. queue[i].data /= <<>> => d /= <<>> /\ d[1] = queue[i].data[1]
    BY <2>2, <2>3
  <2> QED
    BY <2>4, <2>5
<1> HIDE DEF f, d
<1>6. /\ queue'[i].data = d /\ queue'[i].offset = queue[i].offset
      /\ queue'[i].user = queue[i].user /\ queue'[i].index = queue[i].index
  <2> DEFINE rec == queue[i]
             grown == Grown(rec, d, t = "text")
  <2>1. rec \in Records
    BY <1>1
  <2> HIDE DEF rec
  <2>2. /\ grown.data = d /\ grown.offset = rec.offset
        /\ grown.user = rec.user /\ grown.index = rec.index
    BY <2>1 DEF Grown, Records
  <2> QED
    BY <1>3, <2>2 DEF rec
<1>7. Coherent(queue[i])
  BY <1>1 DEF Layout
<1>8. Coherent(queue'[i])
  <2>1. \A p \in DOMAIN d : Of(queue[i], d[p])
    BY <1>1, <1>4, <1>5, <1>7 DEF Coherent, Of
  <2>2. queue[i].offset = 0 => d /= <<>> /\ d[1].what /= "fragment"
    BY <1>5, <1>7 DEF Coherent
  <2> QED
    BY <1>6, <2>1, <2>2 DEF Coherent, Of
<1>9. Len(queue') = Len(queue)
  <2>1. queue' \in Seq(Records)
    BY <1>1, ContinueTypes
  <2> QED
    BY <1>1, <1>3, <2>1
<1> QED
  BY <1>3, <1>6, <1>8, <1>9 DEF Grows, Layout

LEMMA StopGrows ==
  ASSUME TypeOK, Layout, NEW S, StopRecords(S)
  PROVE  Grows
<1>1. /\ queue \in Seq(Records) /\ queue' \in Seq(Records) /\ DOMAIN queue' = DOMAIN queue
      /\ \A p \in DOMAIN queue : queue'[p] = [queue[p] EXCEPT !.stopped = queue'[p].stopped]
  BY StopTypes DEF TypeOK
<1>2. ASSUME NEW p \in DOMAIN queue
      PROVE  /\ queue'[p].offset = queue[p].offset /\ queue'[p].data = queue[p].data
             /\ queue'[p].user = queue[p].user /\ queue'[p].index = queue[p].index
  <2>1. queue[p] \in Records
    BY <1>1, ElementOf
  <2> QED
    BY <1>1, <2>1, Zenon DEF Records
<1>3. Len(queue') = Len(queue)
  BY <1>1
<1>4. \A p \in DOMAIN queue : Coherent(queue'[p])
  BY <1>2 DEF Layout, Coherent, Of
<1> QED
  BY <1>1, <1>2, <1>3, <1>4 DEF Grows

LEMMA EnqueueGrows ==
  ASSUME TypeOK, Layout, NEW e, NEW u \in Users, Enqueue(e, u)
  PROVE  Grows
<1>1. ASSUME NEW t \in Types, Data(u, t) PROVE Grows
  <2>1. CASE Open(u) = {}
    BY <1>1, <2>1, BeginGrows DEF Data
  <2>2. CASE Open(u) /= {}
    <3>1. PICK i \in Open(u) : Continue(u, t, i)
      BY <1>1, <2>2 DEF Data
    <3> QED
      BY <3>1, ContinueGrows
  <2> QED
    BY <2>1, <2>2
<1> QED
  BY <1>1, StopGrows DEF Enqueue, Types

LEMMA LayoutKept ==
  ASSUME Layout, UNCHANGED <<queue, at, k, file>> PROVE Layout'
<1>1. queue' = queue /\ at' = at /\ k' = k /\ file' = file
  OBVIOUS
<1> QED
  BY <1>1 DEF Layout, Progress, Coherent, Written, Behind, Of

LEMMA LayoutEmpty ==
  ASSUME queue' = <<>>, at' /= "write" PROVE Layout'
BY DEF Layout, Progress

\* Between two events only the head of the queue is in the file.
LEMMA LayoutBegins ==
  ASSUME TypeOK, Layout, at = "idle", Grows, queue' \in Seq(Records),
         at' \in {"write", "retire"}, k' = 1, UNCHANGED file
  PROVE  Layout'
<1>1. /\ queue \in Seq(Records) /\ DOMAIN queue = 1..Len(queue) /\ Len(queue) \in Nat
      /\ DOMAIN queue' = 1..Len(queue') /\ Len(queue') \in Nat /\ Len(queue') >= Len(queue)
  BY DEF TypeOK, Grows
<1>2. ASSUME NEW i \in DOMAIN queue', queue'[i].offset /= 0
      PROVE  i = 1 /\ i \in DOMAIN queue /\ queue[i].offset /= 0
  <2>1. i \in DOMAIN queue /\ queue[i].offset /= 0
    BY <1>2 DEF Grows
  <2> QED
    BY <2>1 DEF Layout, Written
<1>3. Progress'
  BY <1>1, <1>2 DEF Progress
<1>4. ASSUME NEW i \in DOMAIN queue' PROVE Coherent(queue'[i])
  BY DEF Grows
<1>5. ASSUME NEW i \in DOMAIN queue', queue'[i].offset /= 0
      PROVE  file' /= <<>> /\ Of(queue'[i], file'[Len(file')])
  <2>1. i = 1 /\ i \in DOMAIN queue /\ queue[i].offset /= 0 /\ Written(i)
    BY <1>2, <1>5 DEF Layout
  <2>2. i = Len(queue) \/ queue[i + 1].offset = 0
    <3>1. CASE i /= Len(queue)
      <4>1. i + 1 \in DOMAIN queue /\ i + 1 /= 1
        BY <1>1, <2>1, <3>1
      <4>2. Written(i + 1)
        BY <4>1 DEF Layout
      <4> QED
        BY <4>1, <4>2 DEF Written
    <3> QED
      BY <3>1
  <2>3. Behind(queue[i])
    BY <2>1, <2>2 DEF Written
  <2>4. queue'[i].user = queue[i].user /\ queue'[i].index = queue[i].index
    BY <2>1 DEF Grows
  <2> QED
    BY <2>3, <2>4 DEF Behind, Of
<1>6. ASSUME NEW i \in DOMAIN queue' PROVE Written(i)'
  BY <1>1, <1>2, <1>5 DEF Written, Behind, Of
<1> QED
  BY <1>3, <1>4, <1>6 DEF Layout, Coherent, Of

LEMMA WriteLayout ==
  ASSUME TypeOK, Loops, Modes, Layout, WriteRecord
  PROVE  Layout'
<1>1. /\ queue \in Seq(Records) /\ queue' \in Seq(Records) /\ file \in Seq(Items)
      /\ file' \in Seq(Items)
      /\ k \in DOMAIN queue /\ DOMAIN queue' = DOMAIN queue /\ at = "write"
      /\ DOMAIN queue = 1..Len(queue) /\ Len(queue) \in Nat /\ Len(queue') = Len(queue)
  <2>1. queue \in Seq(Records) /\ file \in Seq(Items)
    BY DEF TypeOK
  <2>2. queue' \in Seq(Records) /\ file' \in Seq(Items) /\ DOMAIN queue' = DOMAIN queue
    BY WriteTypes, Zenon
  <2>3. k \in DOMAIN queue /\ at = "write"
    BY DEF WriteRecord, Loops
  <2>4. /\ DOMAIN queue = 1..Len(queue) /\ Len(queue) \in Nat
        /\ DOMAIN queue' = 1..Len(queue') /\ Len(queue') \in Nat
    BY <2>1, <2>2
  <2>5. Len(queue') = Len(queue)
    BY <2>2, <2>4
  <2> QED
    BY <2>1, <2>2, <2>3, <2>4, <2>5
<1>2. /\ \A p \in DOMAIN queue : p /= k => queue'[p] = queue[p]
      /\ ~Writes => file' = file /\ queue' = queue
      /\ Writes => /\ file' = file \o queue[k].data /\ queue'[k].offset /= 0
                   /\ queue'[k].data = <<>>
      /\ queue'[k].user = queue[k].user /\ queue'[k].index = queue[k].index
      /\ queue'[k].stopped = queue[k].stopped
  BY WriteTypes
<1>3. /\ \A j \in DOMAIN queue : j < k => queue[j].stopped /\ queue[j].offset /= 0
      /\ \A j \in DOMAIN queue : j > 1 /\ j >= k => queue[j].offset = 0
      /\ \A i \in DOMAIN queue : Coherent(queue[i]) /\ Written(i)
  BY <1>1 DEF Layout, Progress
<1>4. ASSUME NEW i \in DOMAIN queue' PROVE Coherent(queue'[i])
  <2>1. CASE i /= k \/ ~Writes
    BY <1>1, <1>2, <1>3, <2>1
  <2>2. CASE i = k /\ Writes
    BY <1>2, <2>2 DEF Coherent
  <2> QED
    BY <2>1, <2>2
<1>5. Progress'
  <2>1. CASE GoesOn
    <3>1. k' = k + 1 /\ queue[k].stopped
      BY <2>1 DEF WriteRecord, GoesOn
    <3>2. queue'[k].offset /= 0
      <4>1. CASE ~Writes
        <5>1. queue[k].data = <<>>
          BY <3>1, <4>1 DEF Writes
        <5> QED
          BY <1>1, <1>2, <1>3, <4>1, <5>1 DEF Coherent
      <4> QED
        BY <1>2, <4>1
    <3>3. ASSUME NEW j \in DOMAIN queue', j < k' PROVE queue'[j].stopped /\ queue'[j].offset /= 0
      <4>1. CASE j = k
        BY <1>2, <3>1, <3>2, <4>1
      <4>2. CASE j /= k
        <5>1. j < k /\ j \in DOMAIN queue
          BY <1>1, <3>1, <3>3, <4>2
        <5> QED
          BY <1>2, <1>3, <4>2, <5>1
      <4> QED
        BY <4>1, <4>2
    <3>4. ASSUME NEW j \in DOMAIN queue', j > 1, j >= k' PROVE queue'[j].offset = 0
      BY <1>1, <1>2, <1>3, <3>1, <3>4
    <3> QED
      BY <3>3, <3>4 DEF Progress
  <2>2. CASE ~GoesOn
    BY <2>2 DEF WriteRecord, Progress
  <2> QED
    BY <2>1, <2>2
<1>6. at' \in {"write", "retire"}
  BY DEF WriteRecord
<1>7. ASSUME NEW i \in DOMAIN queue', queue'[i].offset /= 0
      PROVE  \A j \in 1..(i - 1) : queue'[j].stopped
  <2>1. i <= k
    <3>1. CASE i > k
      <4>1. i \in DOMAIN queue /\ queue'[i] = queue[i] /\ i > 1 /\ i >= k
        BY <1>1, <1>2, <3>1
      <4> QED
        BY <1>3, <1>7, <4>1
    <3> QED
      BY <1>1, <3>1
  <2>2. ASSUME NEW j \in 1..(i - 1) PROVE queue'[j].stopped
    <3>1. j \in DOMAIN queue /\ j < k /\ j /= k
      BY <1>1, <2>1
    <3> QED
      BY <1>2, <1>3, <3>1
  <2> QED
    BY <2>2
<1>8. ASSUME NEW i \in DOMAIN queue', queue'[i].offset /= 0,
             i = Len(queue') \/ queue'[i + 1].offset = 0
      PROVE  file' /= <<>> /\ Of(queue'[i], file'[Len(file')])
  <2>1. CASE ~Writes
    <3>1. Written(i) /\ queue'[i] = queue[i] /\ file' = file /\ queue' = queue
      BY <1>1, <1>2, <1>3, <2>1
    <3> QED
      BY <1>8, <3>1 DEF Written, Behind
  <2>2. CASE Writes
    <3>1. i = k
      <4>1. CASE i > k
        BY <1>1, <1>2, <1>3, <1>8, <4>1
      <4>2. CASE i < k
        <5>1. i + 1 \in DOMAIN queue /\ i /= Len(queue) /\ i + 1 <= k
          BY <1>1, <4>2
        <5>2. queue'[i + 1].offset /= 0
          <6>1. CASE i + 1 = k
            BY <1>2, <2>2, <6>1
          <6>2. CASE i + 1 /= k
            <7>1. i + 1 < k
              BY <1>1, <5>1, <6>2
            <7> QED
              BY <1>2, <1>3, <5>1, <6>2, <7>1
          <6> QED
            BY <6>1, <6>2
        <5> QED
          BY <1>1, <1>8, <5>1, <5>2
      <4> QED
        BY <1>1, <4>1, <4>2
    <3> DEFINE d == queue[k].data
    <3>2. d \in Seq(Items) /\ d /= <<>>
      BY <1>1, <2>2, ElementOf, RecordTypes DEF Writes
    <3>3. /\ file' = file \o d /\ Len(d) \in DOMAIN d /\ Len(file') = Len(file) + Len(d)
          /\ Len(d) >= 1 /\ Len(file) \in Nat
      BY <1>1, <1>2, <2>2, <3>2
    <3>4. Of(queue[k], d[Len(d)])
      BY <1>1, <1>3, <3>3 DEF Coherent
    <3>5. file'[Len(file')] = d[Len(d)] /\ file' /= <<>>
      <4> HIDE DEF d
      <4> QED
        BY <1>1, <3>2, <3>3
    <3> QED
      BY <1>2, <3>1, <3>4, <3>5 DEF Of
  <2> QED
    BY <2>1, <2>2
<1>9. ASSUME NEW i \in DOMAIN queue' PROVE Written(i)'
  BY <1>6, <1>7, <1>8 DEF Written, Behind, Of
<1> QED
  BY <1>4, <1>5, <1>9 DEF Layout, Coherent, Of

LEMMA RetireLayout ==
  ASSUME TypeOK, Modes, Layout, Retire
  PROVE  Layout'
<1>1. /\ queue \in Seq(Records) /\ queue' \in Seq(Records) /\ file \in Seq(Items)
      /\ Len(queue') = Len(queue) - 1 /\ SameButCounts(file, file')
      /\ \A p \in DOMAIN queue' : p + 1 \in DOMAIN queue /\ queue'[p] = queue[p + 1]
      /\ DOMAIN queue = 1..Len(queue) /\ DOMAIN queue' = 1..Len(queue')
      /\ Len(queue) \in Nat /\ Len(queue') \in Nat
  BY RetireTypes DEF TypeOK
<1>2. at = "retire" /\ at' = at
  BY DEF Retire
<1>3. \A i \in DOMAIN queue : Coherent(queue[i]) /\ Written(i)
  BY DEF Layout
<1>4. ASSUME NEW rec, Behind(rec) PROVE file' /= <<>> /\ Of(rec, file'[Len(file')])
  <2>1. file \in Seq(Items) /\ file /= <<>> /\ Len(file) \in DOMAIN file
    BY <1>1, <1>4 DEF Behind
  <2>2. /\ Len(file') = Len(file) /\ file'[Len(file)].what = file[Len(file)].what
        /\ file'[Len(file)].index = file[Len(file)].index
        /\ file'[Len(file)].user = file[Len(file)].user /\ file' /= <<>>
    BY <1>1, <2>1 DEF SameButCounts
  <2> QED
    BY <1>4, <2>2 DEF Behind, Of
<1>5. ASSUME NEW i \in DOMAIN queue', queue'[i].offset /= 0
      PROVE  /\ \A j \in 1..(i - 1) : queue'[j].stopped
             /\ i = Len(queue') \/ queue'[i + 1].offset = 0 => Behind(queue'[i])
  <2>1. /\ i + 1 \in DOMAIN queue /\ queue'[i] = queue[i + 1] /\ i \in Nat
        /\ Written(i + 1) /\ queue[i + 1].offset /= 0
    BY <1>1, <1>3, <1>5
  <2>2. \A j \in 1..i : queue[j].stopped
    BY <2>1 DEF Written
  <2>3. ASSUME NEW j \in 1..(i - 1) PROVE queue'[j].stopped
    <3>1. j \in DOMAIN queue' /\ j + 1 \in 1..i
      BY <1>1, <2>1, <2>3
    <3> QED
      BY <1>1, <2>2, <3>1
  <2>4. ASSUME i = Len(queue') \/ queue'[i + 1].offset = 0
        PROVE  i + 1 = Len(queue) \/ queue[(i + 1) + 1].offset = 0
    <3>1. CASE i /= Len(queue')
      <4>1. i + 1 \in DOMAIN queue'
        BY <1>1, <2>1, <3>1
      <4> QED
        BY <1>1, <2>4, <3>1, <4>1
    <3>2. CASE i = Len(queue')
      BY <1>1, <3>2
    <3> QED
      BY <3>1, <3>2
  <2> QED
    BY <2>1, <2>3, <2>4 DEF Written
<1>6. ASSUME NEW i \in DOMAIN queue' PROVE Written(i)'
  <2>1. queue'[i].offset /= 0 /\ (i = Len(queue') \/ queue'[i + 1].offset = 0)
          => file' /= <<>> /\ Of(queue'[i], file'[Len(file')])
    BY <1>4, <1>5
  <2> QED
    BY <1>2, <1>5, <2>1 DEF Written, Behind, Of
<1>7. \A i \in DOMAIN queue' : Coherent(queue'[i])
  BY <1>1, <1>3
<1> QED
  BY <1>2, <1>6, <1>7 DEF Layout, Progress, Coherent, Of

\* When the first record is not stopped no other is in the file.
LEMMA EndLayout ==
  ASSUME TypeOK, Modes, Layout, EventEnd
  PROVE  Layout'
<1>1. /\ queue \in Seq(Records) /\ DOMAIN queue = 1..Len(queue) /\ Len(queue) \in Nat
      /\ queue' = queue /\ file' = file /\ at' /= "write"
  BY DEF TypeOK, EventEnd, handleVars
<1>2. ASSUME NEW i \in DOMAIN queue, queue[i].offset /= 0
      PROVE  i = 1 /\ Written(i)
  <2>1. Written(i) /\ \A j \in 1..(i - 1) : queue[j].stopped
    BY <1>2 DEF Layout, Written
  <2>2. queue /= <<>> /\ ~queue[1].stopped
    BY <1>1, <1>2 DEF EventEnd
  <2>3. i = 1 \/ 1 \in 1..(i - 1)
    BY <1>1
  <2> QED
    BY <2>1, <2>2, <2>3
<1>3. ASSUME NEW i \in DOMAIN queue' PROVE Written(i)' /\ Coherent(queue'[i])
  BY <1>1, <1>2 DEF Written, Behind, Layout
<1> QED
  BY <1>1, <1>3 DEF Layout, Progress, Coherent, Of

LEMMA LayoutStep == TypeOK /\ Loops /\ Modes /\ Layout /\ [Next]_vars => Layout'
<1> SUFFICES ASSUME TypeOK, Loops, Modes, Layout, [Next]_vars PROVE Layout'
  OBVIOUS
<1> USE DEF handleVars, pastVars
<1>1. CASE EventLock
  <2>1. CASE owner' = owner
    <3>1. UNCHANGED <<queue, at, k, file>>
      BY <1>1, <2>1 DEF EventLock, BeginWriting, Modes, TypeOK
    <3> QED
      BY <3>1, LayoutKept
  <2>2. CASE owner' /= owner
    <3>1. PICK r \in pending : Enqueue(r.event, r.user) \/ Enqueue("flush", r.user)
      BY <1>1, <2>2 DEF EventLock
    <3>2. r.user \in Users
      BY DEF TypeOK, Requests
    <3>3. Grows /\ queue' \in Seq(Records)
      BY <3>1, <3>2, EnqueueGrows, EnqueueTypes
    <3>4. at = "idle" /\ at' \in {"write", "retire"} /\ k' = 1 /\ UNCHANGED file
      BY <1>1, <2>2 DEF EventLock, BeginWriting, Modes
    <3> QED
      BY <3>3, <3>4, LayoutBegins
  <2> QED
    BY <2>1, <2>2
<1>2. CASE StopLock
  <2>1. Grows /\ queue' \in Seq(Records)
    BY <1>2, StopGrows, StopTypes DEF StopLock
  <2>2. at = "idle" /\ at' \in {"write", "retire"} /\ k' = 1 /\ UNCHANGED file
    BY <1>2 DEF StopLock, BeginWriting, Modes
  <2> QED
    BY <2>1, <2>2, LayoutBegins
<1>3. CASE WriteRecord
  BY <1>3, WriteLayout
<1>4. CASE Retire
  BY <1>4, RetireLayout
<1>5. CASE EventEnd
  BY <1>5, EndLayout
<1>6. CASE RecordStart \/ EventCheck \/ RecordStop
  <2>1. UNCHANGED <<queue, at, k, file>>
    BY <1>6 DEF RecordStart, EventCheck, RecordStop
  <2> QED
    BY <2>1, LayoutKept
<1>7. CASE \/ FinishTable \/ FinishHeader \/ Crash \/ Recover \/ ScanSegment \/ ScanFragment
           \/ ScanFails \/ ScanEnd \/ FixHeader
  <2>1. queue' = <<>> /\ at' /= "write"
    <3>1. CASE FinishTable \/ FinishHeader
      BY <3>1 DEF FinishTable, FinishHeader, Modes
    <3>2. CASE Crash \/ ScanFails
      BY <3>2 DEF Crash, ScanFails, Forget
    <3>3. CASE Recover \/ ScanSegment \/ ScanFragment \/ ScanEnd \/ FixHeader
      BY <3>3 DEF Recover, ScanSegment, ScanFragment, ScanEnd, FixHeader, Modes
    <3> QED
      BY <1>7, <3>1, <3>2, <3>3
  <2> QED
    BY <2>1, LayoutEmpty
<1>8. CASE UNCHANGED vars
  BY <1>8, LayoutKept DEF vars
<1> QED
  BY <1>1, <1>2, <1>3, <1>4, <1>5, <1>6, <1>7, <1>8 DEF Next
-----------------------------------------------------------------------------
(* What the steps leave behind in the file.                                *)

LEMMA FileInit == Init => FileInv
BY DEF Init, FileInv, Layout, Progress, NoRows, TableOfRows, Contiguous

\* A change of counts keeps what is said of the items.
LEMMA CountsKeep ==
  ASSUME TypeOK, SameButCounts(file, file')
  PROVE  /\ Contiguous => Contiguous'
         /\ (\A p \in DOMAIN file : file[p].what /= "row")
              => \A p \in DOMAIN file' : file'[p].what /= "row"
<1>1. /\ DOMAIN file' = DOMAIN file /\ DOMAIN file = 1..Len(file) /\ Len(file) \in Nat
      /\ \A p \in DOMAIN file : /\ file'[p].what = file[p].what /\ file'[p].index = file[p].index
                                /\ file'[p].user = file[p].user
  BY DEF TypeOK, SameButCounts
<1>2. ASSUME Contiguous, NEW p \in DOMAIN file', file'[p].what = "fragment"
      PROVE  /\ p > 1 /\ file'[p - 1].what /= "row"
             /\ file'[p - 1].index = file'[p].index /\ file'[p - 1].user = file'[p].user
  <2>1. p \in DOMAIN file /\ file[p].what = "fragment"
    BY <1>1, <1>2
  <2>2. /\ p > 1 /\ file[p - 1].what /= "row"
        /\ file[p - 1].index = file[p].index /\ file[p - 1].user = file[p].user
    BY <1>2, <2>1 DEF Contiguous
  <2>3. p - 1 \in DOMAIN file
    BY <1>1, <2>1, <2>2
  <2> QED
    BY <1>1, <2>1, <2>2, <2>3
<1>3. Contiguous => Contiguous'
  BY <1>2 DEF Contiguous
<1> QED
  BY <1>1, <1>3

\* Items of one segment behind one another, the first of them a header or behind
\* an item of the same segment.
LEMMA AppendKeeps ==
  ASSUME TypeOK, Contiguous, NEW d \in Seq(Items), file' = file \o d,
         \A p \in DOMAIN d : d[p].what = "fragment" =>
            IF p > 1 THEN Of(d[p], d[p - 1])
            ELSE file /= <<>> /\ Of(d[p], file[Len(file)])
  PROVE  Contiguous'
<1>1. /\ file \in Seq(Items) /\ DOMAIN file = 1..Len(file) /\ Len(file) \in Nat
      /\ DOMAIN d = 1..Len(d) /\ Len(d) \in Nat
      /\ DOMAIN file' = 1..(Len(file) + Len(d))
      /\ \A p \in 1..Len(file) : file'[p] = file[p]
      /\ \A p \in 1..Len(d) : file'[Len(file) + p] = d[p]
  <2>1. file \in Seq(Items) /\ d \in Seq(Items)
    BY DEF TypeOK
  <2> QED
    BY <2>1
<1>2. ASSUME NEW p \in DOMAIN file', file'[p].what = "fragment"
      PROVE  /\ p > 1 /\ file'[p - 1].what /= "row"
             /\ file'[p - 1].index = file'[p].index /\ file'[p - 1].user = file'[p].user
  <2>1. CASE p \in DOMAIN file
    <3>1. file'[p] = file[p]
      BY <1>1, <2>1
    <3>2. /\ p > 1 /\ file[p - 1].what /= "row"
          /\ file[p - 1].index = file[p].index /\ file[p - 1].user = file[p].user
      BY <1>2, <2>1, <3>1 DEF Contiguous
    <3>3. p - 1 \in 1..Len(file)
      BY <1>1, <2>1, <3>2
    <3> QED
      BY <1>1, <3>1, <3>2, <3>3
  <2>2. CASE p \notin DOMAIN file
    <3> DEFINE q == p - Len(file)
    <3>1. q \in 1..Len(d) /\ p = Len(file) + q /\ q \in Nat
      BY <1>1, <2>2
    <3> HIDE DEF q
    <3>2. file'[p] = d[q]
      BY <1>1, <3>1
    <3>3. CASE q > 1
      <4>1. q - 1 \in 1..Len(d) /\ p - 1 = Len(file) + (q - 1) /\ p > 1
        BY <1>1, <3>1, <3>3
      <4>2. file'[p - 1] = d[q - 1]
        <5>1. file'[Len(file) + (q - 1)] = d[q - 1]
          BY <1>1, <4>1
        <5> QED
          BY <4>1, <5>1
      <4>3. Of(d[q], d[q - 1])
        BY <1>1, <1>2, <3>1, <3>2, <3>3
      <4> QED
        BY <3>2, <4>1, <4>2, <4>3 DEF Of
    <3>4. CASE ~(q > 1)
      <4>1. q = 1
        BY <3>1, <3>4
      <4>2. file /= <<>> /\ Of(d[1], file[Len(file)])
        BY <1>1, <1>2, <3>1, <3>2, <4>1
      <4>3. Len(file) >= 1 /\ p - 1 = Len(file) /\ p > 1
        BY <1>1, <3>1, <4>1, <4>2
      <4>4. file'[p - 1] = file[Len(file)]
        BY <1>1, <4>3
      <4> QED
        BY <3>2, <4>1, <4>2, <4>3, <4>4 DEF Of
    <3> QED
      BY <3>3, <3>4
  <2> QED
    BY <2>1, <2>2
<1> QED
  BY <1>2 DEF Contiguous

LEMMA WriteFile ==
  ASSUME TypeOK, Loops, Modes, FileInv, WriteRecord
  PROVE  Contiguous' /\ NoRows'
<1>1. /\ queue \in Seq(Records) /\ k \in DOMAIN queue /\ at = "write" /\ file \in Seq(Items)
      /\ DOMAIN queue = 1..Len(queue) /\ Len(queue) \in Nat
  BY DEF WriteRecord, TypeOK, Loops
<1>2. recording /\ recording' = recording /\ \A p \in DOMAIN file : file[p].what /= "row"
  BY <1>1 DEF FileInv, NoRows, Modes, WriteRecord
<1>3. CASE ~Writes
  <2>1. file' = file
    BY <1>3, WriteTypes
  <2> QED
    BY <1>2, <2>1 DEF FileInv, Contiguous, NoRows
<1>4. CASE Writes
  <2> DEFINE d == queue[k].data
  <2>1. file' = file \o d /\ d \in Seq(Items) /\ Coherent(queue[k])
    BY <1>1, <1>4, WriteTypes, ElementOf, RecordTypes DEF FileInv, Layout
  <2>2. \A p \in DOMAIN d : Of(queue[k], d[p])
    BY <2>1 DEF Coherent
  <2>3. ASSUME NEW p \in DOMAIN d, d[p].what = "fragment"
        PROVE  IF p > 1 THEN Of(d[p], d[p - 1]) ELSE file /= <<>> /\ Of(d[p], file[Len(file)])
    <3>1. CASE p > 1
      <4>1. p - 1 \in DOMAIN d
        BY <2>1, <3>1
      <4>2. Of(queue[k], d[p]) /\ Of(queue[k], d[p - 1])
        BY <2>2, <4>1
      <4> QED
        BY <3>1, <4>2 DEF Of
    <3>2. CASE ~(p > 1)
      <4>1. p = 1
        BY <2>1, <3>2
      <4>2. queue[k].offset /= 0
        BY <2>1, <2>3, <4>1 DEF Coherent
      <4>3. k = 1 /\ Written(1) /\ Progress
        BY <1>1, <4>2 DEF FileInv, Layout, Progress
      <4>4. 1 = Len(queue) \/ queue[1 + 1].offset = 0
        BY <1>1, <4>3 DEF Progress
      <4>5. Behind(queue[1])
        BY <4>2, <4>3, <4>4 DEF Written
      <4>6. Of(queue[1], d[p])
        BY <2>2, <4>3
      <4> QED
        BY <4>1, <4>5, <4>6 DEF Behind, Of
    <3> QED
      BY <3>1, <3>2
  <2>4. Contiguous'
    <3> HIDE DEF d
    <3> QED
      BY <2>1, <2>3, AppendKeeps DEF FileInv
  <2>5. ASSUME NEW p \in DOMAIN file' PROVE file'[p].what /= "row"
    <3>1. \A q \in DOMAIN d : d[q].what /= "row"
      BY <2>2 DEF Of
    <3> HIDE DEF d
    <3>2. (p \in DOMAIN file /\ file'[p] = file[p])
            \/ (\E q \in DOMAIN d : file'[p] = d[q])
      <4>1. /\ file \in Seq(Items) /\ d \in Seq(Items) /\ p \in 1..(Len(file) + Len(d))
            /\ file' = file \o d
        BY <1>1, <2>1
      <4>2. CASE p <= Len(file)
        BY <4>1, <4>2
      <4>3. CASE p > Len(file)
        <5> DEFINE q == p - Len(file)
        <5>1. q \in 1..Len(d) /\ p = Len(file) + q
          BY <4>1, <4>3
        <5>2. file'[Len(file) + q] = d[q]
          BY <4>1, <5>1
        <5>3. q \in DOMAIN d
          BY <4>1, <5>1
        <5> QED
          BY <5>1, <5>2, <5>3
      <4> QED
        BY <4>1, <4>2, <4>3
    <3> QED
      BY <1>2, <3>1, <3>2
  <2> QED
    BY <2>4, <2>5 DEF NoRows
<1> QED
  BY <1>3, <1>4

LEMMA TableFile ==
  ASSUME TypeOK, Modes, FileInv, FinishTable
  PROVE  Contiguous' /\ NoRows' /\ TableOfRows'
<1>1. /\ file' = file \o table /\ table' = <<>> /\ at' = "header"
      /\ table \in Seq(Items)
  BY DEF FinishTable, TypeOK
<1>2. \A p \in DOMAIN table : table[p].what /= "fragment"
  BY DEF FileInv, TableOfRows
<1>3. Contiguous'
  BY <1>1, <1>2, AppendKeeps DEF FileInv
<1> QED
  BY <1>1, <1>3 DEF NoRows, TableOfRows

\* Rows only are added to the table.
LEMMA TableStep ==
  ASSUME TypeOK, Loops, TableOfRows, Retire \/ ScanSegment \/ ScanFragment \/ FixHeader
  PROVE  TableOfRows'
<1>1. ASSUME NEW r, table' = Append(table, r), r.what = "row" PROVE TableOfRows'
  <2>1. table \in Seq(Items)
    BY DEF TypeOK
  <2>2. /\ DOMAIN table = 1..Len(table) /\ Len(table) \in Nat
        /\ DOMAIN table' = 1..(Len(table) + 1) /\ table'[Len(table) + 1] = r
        /\ \A p \in 1..Len(table) : table'[p] = table[p]
    BY <1>1, <2>1
  <2> QED
    BY <1>1, <2>2 DEF TableOfRows
<1>2. ASSUME NEW o, NEW c, table' = Recount(table, o, c) PROVE TableOfRows'
  <2>1. /\ DOMAIN table' = DOMAIN table
        /\ \A p \in DOMAIN table : table'[p] = IF p = o THEN [table[p] EXCEPT !.count = c] ELSE table[p]
    BY <1>2 DEF Recount
  <2>2. ASSUME NEW p \in DOMAIN table PROVE table'[p].what = table[p].what
    <3>1. table[p] \in Items
      BY ElementOf DEF TypeOK
    <3> QED
      BY <2>1, <3>1 DEF Items
  <2> QED
    BY <2>1, <2>2 DEF TableOfRows
<1>3. CASE Retire
  BY <1>1, <1>3 DEF Retire, Row
<1>4. CASE ScanSegment
  BY <1>1, <1>4 DEF ScanSegment, Row
<1>5. CASE ScanFragment
  BY <1>2, <1>5 DEF ScanFragment, Recount
<1>6. CASE FixHeader
  BY <1>2, <1>6 DEF FixHeader, Recount
<1> QED
  BY <1>3, <1>4, <1>5, <1>6

LEMMA FileStep == TypeOK /\ Loops /\ Modes /\ FileInv /\ [Next]_vars => FileInv'
<1> SUFFICES ASSUME TypeOK, Loops, Modes, FileInv, [Next]_vars PROVE FileInv'
  OBVIOUS
<1>1. Layout'
  BY LayoutStep DEF FileInv
<1>2. Contiguous /\ NoRows /\ TableOfRows
  BY DEF FileInv
<1> USE DEF handleVars, pastVars
<1>3. CASE WriteRecord
  <2>1. TableOfRows'
    BY <1>2, <1>3 DEF WriteRecord, TableOfRows
  <2> QED
    BY <1>1, <1>3, <2>1, WriteFile DEF FileInv
<1>4. CASE Retire
  <2>1. SameButCounts(file, file')
    BY <1>4, RetireTypes
  <2>2. recording /\ at /= "header"
    BY <1>4 DEF Retire, Modes
  <2>3. Contiguous' /\ NoRows'
    BY <1>2, <2>1, <2>2, CountsKeep DEF NoRows
  <2> QED
    BY <1>1, <1>2, <1>4, <2>3, TableStep DEF FileInv
<1>5. CASE FinishTable
  BY <1>1, <1>5, TableFile DEF FileInv
<1>6. CASE FixHeader
  <2>1. SameButCounts(file, file')
    BY <1>6, FixTypes
  <2>2. ~recording'
    BY <1>6 DEF FixHeader, Modes
  <2>3. Contiguous' /\ NoRows'
    BY <1>2, <2>1, <2>2, CountsKeep DEF NoRows
  <2> QED
    BY <1>1, <1>2, <1>6, <2>3, TableStep DEF FileInv
<1>7. CASE ScanSegment \/ ScanFragment
  <2>1. ~recording' /\ file' = file
    BY <1>7 DEF ScanSegment, ScanFragment, Modes
  <2> QED
    BY <1>1, <1>2, <1>7, <2>1, TableStep DEF FileInv, NoRows, Contiguous
<1>8. CASE RecordStart
  <2>1. file' = <<>> /\ table' = table
    BY <1>8 DEF RecordStart, Modes
  <2> QED
    BY <1>1, <1>2, <2>1 DEF FileInv, NoRows, Contiguous, TableOfRows
<1>9. CASE Crash \/ ScanFails \/ Recover
  <2>1. ~recording' /\ file' = file /\ table' = <<>>
    BY <1>9 DEF Crash, ScanFails, Recover, Forget
  <2> QED
    BY <1>1, <1>2, <2>1 DEF FileInv, NoRows, Contiguous, TableOfRows
<1>10. CASE FinishHeader \/ ScanEnd
  <2>1. ~recording' /\ file' = file /\ table' = table
    BY <1>10 DEF FinishHeader, ScanEnd, Modes
  <2> QED
    BY <1>1, <1>2, <2>1 DEF FileInv, NoRows, Contiguous, TableOfRows
<1>11. CASE EventCheck \/ EventLock \/ EventEnd \/ RecordStop \/ StopLock \/ UNCHANGED vars
  <2>1. file' = file /\ table' = table /\ recording' = recording
    BY <1>11 DEF EventCheck, EventLock, EventEnd, RecordStop, StopLock, vars
  <2>2. recording /\ at' /= "header" => at /= "header"
    BY <1>11 DEF EventCheck, EventLock, EventEnd, RecordStop, StopLock, vars, Modes
  <2> QED
    BY <1>1, <1>2, <2>1, <2>2 DEF FileInv, NoRows, Contiguous, TableOfRows
<1> QED
  BY <1>3, <1>4, <1>5, <1>6, <1>7, <1>8, <1>9, <1>10, <1>11 DEF Next
-----------------------------------------------------------------------------
(* The theorems.                                                           *)

LEMMA Invariance == Spec => [](TypeOK /\ Loops /\ Modes /\ FileInv)
<1>1. Init => TypeOK /\ Loops /\ Modes /\ FileInv
  BY TypesInit, ModesInit, FileInit
<1>2. TypeOK /\ Loops /\ Modes /\ FileInv /\ [Next]_vars => (TypeOK /\ Loops /\ Modes /\ FileInv)'
  <2>1. Modes => (at = "write" => recording)
    BY DEF Modes
  <2> QED
    BY <2>1, TypesStep, ModesStep, FileStep
<1> QED
  BY <1>1, <1>2, PTL DEF Spec

\* Types: of the records, the table and the file, whatever the users say, the
\* GUI does and the crashes leave behind.
THEOREM RecorderTyped == Spec => []TypeOK
BY Invariance, PTL

\* However many users speak at the same time, in whatever order their fragments
\* and the ends of their utterances arrive, and whenever the program crashes or
\* is recovered: no fragment in the file lies in another one's segment.
THEOREM ContiguousSafe == Spec => []Contiguous
<1>1. FileInv => Contiguous
  BY DEF FileInv
<1> QED
  BY <1>1, Invariance, PTL

\* A step changes no more of what is in the file than the counts in its headers.
LEMMA StepAppends ==
  TypeOK /\ Loops /\ Modes /\ [Next]_vars =>
    \/ UNCHANGED file
    \/ /\ Len(file) <= Len(file')
       /\ \A p \in DOMAIN file : file'[p] = [file[p] EXCEPT !.count = file'[p].count]
<1> DEFINE Appended == /\ Len(file) <= Len(file')
                       /\ \A p \in DOMAIN file : file'[p] = [file[p] EXCEPT !.count = file'[p].count]
<1> SUFFICES ASSUME TypeOK, Loops, Modes, [Next]_vars PROVE file' = file \/ Appended
  OBVIOUS
<1>1. file \in Seq(Items) /\ table \in Seq(Items)
  BY DEF TypeOK
<1>2. ASSUME NEW d \in Seq(Items), file' = file \o d PROVE Appended
  <2>1. /\ Len(file) <= Len(file') /\ \A p \in DOMAIN file : file'[p] = file[p]
    BY <1>1, <1>2
  <2>2. ASSUME NEW p \in DOMAIN file
        PROVE  file'[p] = [file[p] EXCEPT !.count = file'[p].count]
    <3>1. file[p] \in Items /\ file'[p] = file[p]
      BY <1>1, <2>1, ElementOf
    <3> QED
      BY <3>1 DEF Items
  <2> QED
    BY <2>1, <2>2
<1>3. ASSUME SameButCounts(file, file') PROVE Appended
  BY <1>1, <1>3 DEF SameButCounts
<1> HIDE DEF Appended
<1>4. CASE WriteRecord
  <2>1. CASE Writes
    <3>1. k \in DOMAIN queue /\ queue \in Seq(Records)
      BY <1>4 DEF WriteRecord, Loops, TypeOK
    <3>2. queue[k].data \in Seq(Items)
      BY <3>1, ElementOf, RecordTypes
    <3> QED
      BY <1>2, <1>4, <2>1, <3>2, WriteTypes
  <2>2. CASE ~Writes
    BY <1>4, <2>2, WriteTypes
  <2> QED
    BY <2>1, <2>2
<1>5. CASE FinishTable
  BY <1>1, <1>2, <1>5 DEF FinishTable
<1>6. CASE Retire \/ FixHeader
  BY <1>3, <1>6, RetireTypes, FixTypes
<1>7. CASE \/ RecordStart \/ EventCheck \/ EventLock \/ EventEnd \/ RecordStop \/ StopLock
           \/ FinishHeader \/ Crash \/ Recover \/ ScanSegment \/ ScanFragment \/ ScanFails
           \/ ScanEnd \/ UNCHANGED vars
  BY <1>7 DEF RecordStart, EventCheck, EventLock, EventEnd, RecordStop, StopLock, FinishHeader,
     Crash, Recover, ScanSegment, ScanFragment, ScanFails, ScanEnd, vars
<1> QED
  BY <1>4, <1>5, <1>6, <1>7 DEF Next

-----------------------------------------------------------------------------
(* The offsets.                                                            *)

IsHeader(o) == o \in DOMAIN file /\ file[o].what /= "fragment"

\* The offset of a record, and of a row of the table that a recovery builds, is
\* that of a header.
Heads ==
  /\ \A i \in DOMAIN queue : queue[i].offset /= 0 => IsHeader(queue[i].offset)
  /\ at \in {"scan", "fix"} => \A p \in DOMAIN table : IsHeader(table[p].no)

LEMMA HeaderStays ==
  ASSUME TypeOK, Loops, Modes, [Next]_vars, NEW o, IsHeader(o)
  PROVE  o \in DOMAIN file' /\ file'[o].what /= "fragment"
<1>1. CASE UNCHANGED file
  BY <1>1 DEF IsHeader
<1>2. CASE /\ Len(file) <= Len(file')
           /\ \A p \in DOMAIN file : file'[p] = [file[p] EXCEPT !.count = file'[p].count]
  <2>1. file \in Seq(Items) /\ file' \in Seq(Items)
    BY TypesStep DEF TypeOK, Modes
  <2>2. o \in DOMAIN file' /\ file[o] \in Items
    BY <1>2, <2>1 DEF IsHeader
  <2>3. file'[o] = [file[o] EXCEPT !.count = file'[o].count]
    BY <1>2 DEF IsHeader
  <2>4. file'[o].what = file[o].what
    <3> DEFINE it == file[o]
               c == file'[o].count
    <3>1. it \in Items /\ file'[o] = [it EXCEPT !.count = c]
      BY <2>2, <2>3
    <3> HIDE DEF it, c
    <3>2. file'[o].what = it.what
      BY <3>1 DEF Items
    <3> QED
      BY <3>2 DEF it
  <2> QED
    BY <2>2, <2>4 DEF IsHeader
<1> QED
  BY <1>1, <1>2, StepAppends

LEMMA WriteHeads ==
  ASSUME TypeOK, Loops, Modes, Layout, Heads, WriteRecord, NEW i \in DOMAIN queue',
         queue'[i].offset /= 0
  PROVE  queue'[i].offset \in DOMAIN file' /\ file'[queue'[i].offset].what /= "fragment"
<1>1. /\ queue \in Seq(Records) /\ k \in DOMAIN queue /\ DOMAIN queue' = DOMAIN queue
      /\ [Next]_vars /\ file \in Seq(Items)
  BY WriteTypes DEF WriteRecord, TypeOK, Loops, Next
<1>2. CASE queue'[i].offset = queue[i].offset
  BY <1>1, <1>2, HeaderStays DEF Heads
<1>3. CASE queue'[i].offset /= queue[i].offset
  <2>1. i = k /\ Writes
    BY <1>1, <1>3, WriteTypes
  <2> DEFINE d == queue[k].data
  <2>2. d \in Seq(Items) /\ Coherent(queue[k]) /\ queue[k] \in Records
    BY <1>1, ElementOf, RecordTypes DEF Layout
  <2>3. queue[k].offset = 0 /\ queue'[k].offset = Len(file) + 1 /\ file' = file \o d
    <3>1. queue'[k] = [queue[k] EXCEPT !.offset = IF @ = 0 THEN Len(file) + 1 ELSE @, !.data = <<>>]
      BY <1>1, <2>1 DEF WriteRecord
    <3>2. queue'[k].offset = IF queue[k].offset = 0 THEN Len(file) + 1 ELSE queue[k].offset
      <4> DEFINE rec == queue[k]
                 o == IF rec.offset = 0 THEN Len(file) + 1 ELSE rec.offset
      <4>1. rec \in Records /\ queue'[k] = [rec EXCEPT !.offset = o, !.data = <<>>]
        BY <2>2, <3>1
      <4> HIDE DEF rec, o
      <4>2. queue'[k].offset = o
        BY <4>1 DEF Records
      <4> QED
        BY <4>2 DEF rec, o
    <3>3. file' = file \o d
      BY <2>1, WriteTypes
    <3> QED
      BY <1>3, <2>1, <3>2, <3>3
  <2>4. d /= <<>> /\ d[1].what /= "fragment"
    BY <2>2, <2>3 DEF Coherent
  <2> HIDE DEF d
  <2>5. Len(file) + 1 \in DOMAIN file' /\ file'[Len(file) + 1] = d[1]
    BY <1>1, <2>2, <2>3, <2>4
  <2> QED
    BY <2>1, <2>3, <2>4, <2>5
<1> QED
  BY <1>2, <1>3

LEMMA RowHeads ==
  ASSUME TypeOK, Loops, Modes, Heads, ScanSegment \/ ScanFragment \/ FixHeader,
         NEW p \in DOMAIN table'
  PROVE  IsHeader(table'[p].no)
<1>1. table \in Seq(Items) /\ DOMAIN table = 1..Len(table) /\ Len(table) \in Nat
  BY DEF TypeOK
<1>2. \A q \in DOMAIN table : IsHeader(table[q].no) /\ table[q] \in Items
  BY <1>1, ElementOf DEF Heads, ScanSegment, ScanFragment, FixHeader
<1>3. CASE ScanSegment
  <2> DEFINE r == Row(file[k].type, file[k].user, segcount, k)
  <2>1. r.no = k /\ IsHeader(k)
    <3>1. k \in DOMAIN file
      BY <1>3 DEF ScanSegment, Loops, TypeOK
    <3> QED
      BY <1>3, <3>1 DEF ScanSegment, Row, IsHeader
  <2>2. table' = Append(table, r)
    BY <1>3 DEF ScanSegment
  <2> HIDE DEF r
  <2>3. /\ DOMAIN table' = 1..(Len(table) + 1) /\ table'[Len(table) + 1] = r
        /\ \A q \in 1..Len(table) : table'[q] = table[q]
    BY <1>1, <2>2
  <2> QED
    BY <1>1, <1>2, <2>1, <2>3
<1>4. ASSUME NEW o, NEW c, table' = Recount(table, o, c) PROVE IsHeader(table'[p].no)
  <2>1. p \in DOMAIN table /\ table'[p] = IF p = o THEN [table[p] EXCEPT !.count = c] ELSE table[p]
    BY <1>4 DEF Recount
  <2>2. table'[p].no = table[p].no
    <3> DEFINE it == table[p]
    <3>1. it \in Items /\ table'[p] = IF p = o THEN [it EXCEPT !.count = c] ELSE it
      BY <1>2, <2>1
    <3> HIDE DEF it
    <3>2. table'[p].no = it.no
      BY <3>1 DEF Items
    <3> QED
      BY <3>2 DEF it
  <2> QED
    BY <1>2, <2>1, <2>2
<1>5. CASE ScanFragment
  BY <1>4, <1>5 DEF ScanFragment, Recount
<1>6. CASE FixHeader
  BY <1>4, <1>6 DEF FixHeader, Recount
<1> QED
  BY <1>3, <1>5, <1>6

LEMMA HeadsStep == TypeOK /\ Loops /\ Modes /\ FileInv /\ Heads /\ [Next]_vars => Heads'
<1> SUFFICES ASSUME TypeOK, Loops, Modes, FileInv, Heads, [Next]_vars PROVE Heads'
  OBVIOUS
<1> DEFINE InQueue == \A i \in DOMAIN queue' : queue'[i].offset /= 0 => IsHeader(queue'[i].offset)
           InTable == at' \in {"scan", "fix"} => \A p \in DOMAIN table' : IsHeader(table'[p].no)
<1>1. InQueue /\ InTable => Heads'
  BY HeaderStays DEF Heads, IsHeader
<1>2. Layout
  BY DEF FileInv
<1>3. \A i \in DOMAIN queue : queue[i].offset /= 0 => IsHeader(queue[i].offset)
  BY DEF Heads
<1>4. Grows => InQueue
  BY <1>3 DEF Grows
<1> HIDE DEF InQueue
<1> USE DEF handleVars, pastVars
<1>5. CASE EventLock
  <2>1. InTable
    BY <1>5 DEF EventLock, BeginWriting, Heads
  <2>2. CASE queue' = queue
    BY <1>1, <1>3, <2>1, <2>2 DEF InQueue
  <2>3. CASE queue' /= queue
    <3>1. PICK r \in pending : Enqueue(r.event, r.user) \/ Enqueue("flush", r.user)
      BY <1>5, <2>3 DEF EventLock
    <3>2. r.user \in Users
      BY DEF TypeOK, Requests
    <3>3. Grows
      BY <1>2, <3>1, <3>2, EnqueueGrows
    <3> QED
      BY <1>1, <1>4, <2>1, <3>3
  <2> QED
    BY <2>2, <2>3
<1>6. CASE StopLock
  <2>1. Grows /\ InTable
    BY <1>2, <1>6, StopGrows DEF StopLock, BeginWriting
  <2> QED
    BY <1>1, <1>4, <2>1
<1>7. CASE WriteRecord
  <2>1. at' \notin {"scan", "fix"}
    BY <1>7 DEF WriteRecord
  <2> QED
    BY <1>2, <1>7, <2>1, WriteHeads DEF Heads, IsHeader
<1>8. CASE Retire
  <2>1. InTable
    BY <1>8 DEF Retire
  <2>2. InQueue
    BY <1>3, <1>8, RetireTypes DEF InQueue
  <2> QED
    BY <1>1, <2>1, <2>2
<1>9. CASE ScanSegment \/ ScanFragment \/ FixHeader
  <2>1. InTable
    BY <1>9, RowHeads
  <2>2. InQueue
    BY <1>3, <1>9 DEF ScanSegment, ScanFragment, FixHeader, InQueue
  <2> QED
    BY <1>1, <2>1, <2>2
<1>10. CASE \/ RecordStart \/ EventCheck \/ EventEnd \/ RecordStop \/ FinishTable \/ FinishHeader
            \/ ScanEnd \/ UNCHANGED vars
  <2>1. InTable
    BY <1>10 DEF RecordStart, EventCheck, EventEnd, RecordStop, FinishTable, FinishHeader,
       ScanEnd, vars, Heads
  <2>2. queue' = queue
    BY <1>10 DEF RecordStart, EventCheck, EventEnd, RecordStop, FinishTable, FinishHeader,
       ScanEnd, vars
  <2> QED
    BY <1>1, <1>3, <2>1, <2>2 DEF InQueue
<1>11. CASE Crash \/ ScanFails \/ Recover
  <2>1. InTable
    BY <1>11 DEF Crash, ScanFails, Recover, Forget
  <2>2. queue' = <<>> \/ queue' = queue
    BY <1>11 DEF Crash, ScanFails, Recover, Forget
  <2>3. InQueue
    BY <1>3, <2>2 DEF InQueue
  <2> QED
    BY <1>1, <2>1, <2>3
<1> QED
  BY <1>5, <1>6, <1>7, <1>8, <1>9, <1>10, <1>11 DEF Next

\* What is written over is a header: a fragment stays as it is.
LEMMA FragmentStays ==
  ASSUME TypeOK, Loops, Modes, Heads, [Next]_vars, file' /= file,
         NEW p \in DOMAIN file, file[p].what = "fragment"
  PROVE  file'[p] = file[p]
<1>1. /\ file \in Seq(Items) /\ table \in Seq(Items) /\ queue \in Seq(Records)
  BY DEF TypeOK
<1>2. ASSUME NEW d \in Seq(Items), file' = file \o d PROVE file'[p] = file[p]
  BY <1>1, <1>2
<1>3. ASSUME NEW o, NEW c, file' = [file EXCEPT ![o].count = c], o \in DOMAIN file => IsHeader(o)
      PROVE  file'[p] = file[p]
  BY <1>3 DEF IsHeader
<1>4. CASE WriteRecord
  <2>1. k \in DOMAIN queue /\ file' = file \o queue[k].data
    BY <1>1, <1>4, WriteTypes DEF WriteRecord, Loops
  <2>2. queue[k].data \in Seq(Items)
    BY <1>1, <2>1, ElementOf, RecordTypes
  <2> QED
    BY <1>2, <2>1, <2>2
<1>5. CASE FinishTable
  BY <1>1, <1>2, <1>5 DEF FinishTable
<1>6. CASE Retire
  <2>1. 1 \in DOMAIN queue /\ file' = [file EXCEPT ![queue[1].offset].count = queue[1].count]
    BY <1>1, <1>6 DEF Retire
  <2>2. queue[1].offset \in DOMAIN file => IsHeader(queue[1].offset)
    BY <1>1, <2>1 DEF Heads
  <2> QED
    BY <1>3, <2>1, <2>2
<1>7. CASE FixHeader
  <2>1. k \in DOMAIN table /\ file' = [file EXCEPT ![table[k].no].count = table[k].count]
    BY <1>1, <1>7 DEF FixHeader, Loops, TypeOK
  <2>2. IsHeader(table[k].no)
    BY <1>7, <2>1 DEF Heads, FixHeader
  <2> QED
    BY <1>3, <2>1, <2>2
<1>8. ~(\/ RecordStart \/ EventCheck \/ EventLock \/ EventEnd \/ RecordStop \/ StopLock
        \/ FinishHeader \/ Crash \/ Recover \/ ScanSegment \/ ScanFragment \/ ScanFails
        \/ ScanEnd \/ UNCHANGED vars)
  BY DEF RecordStart, EventCheck, EventLock, EventEnd, RecordStop, StopLock, FinishHeader,
     Crash, Recover, ScanSegment, ScanFragment, ScanFails, ScanEnd, vars
<1> QED
  BY <1>4, <1>5, <1>6, <1>7, <1>8 DEF Next

LEMMA HeadsSafe == Spec => []Heads
<1>1. Init => Heads
  BY DEF Init, Heads
<1> QED
  BY <1>1, HeadsStep, Invariance, PTL DEF Spec

\* The recorder only appends to its file and rewrites counts in headers: a crash
\* at any point can tear the end of the file but nothing before it.
THEOREM AppendOnly == Spec => NothingOverwritten
<1>1. ASSUME TypeOK, Loops, Modes, Heads, [Next]_vars
      PROVE  [/\ Len(file) <= Len(file')
              /\ \A p \in DOMAIN file :
                   IF file[p].what = "fragment" THEN file'[p] = file[p]
                   ELSE file'[p] = [file[p] EXCEPT !.count = file'[p].count]]_file
  BY <1>1, StepAppends, FragmentStays
<1> QED
  BY <1>1, Invariance, HeadsSafe, PTL DEF Spec, NothingOverwritten
-----------------------------------------------------------------------------
(* The file as a sequence of utterances.                                   *)

\* pos says where the segments and rows of the file are, and its end behind
\* them: how many fragments the i-th has.
Size(pos, i) == pos[i + 1] - pos[i] - 1

\* The i-th segment: the i-th utterance or, when it is the last, a beginning of
\* it.
Block(i, n, pos) ==
  /\ file[pos[i]].what = "segment" /\ file[pos[i]].user = spoken[i].user
  /\ Size(pos, i) <= Len(spoken[i].frags)
  /\ i < n => Size(pos, i) = Len(spoken[i].frags)
  /\ \A j \in 1..Size(pos, i) : /\ file[pos[i] + j].what = "fragment"
                                /\ file[pos[i] + j].no = spoken[i].frags[j]

\* n segments and, behind them, rows.
Tiled(n, m, pos) ==
  /\ n \in Nat /\ m \in Nat /\ n <= m /\ n <= Len(spoken)
  /\ pos \in [1..(m + 1) -> Nat] /\ pos[1] = 1 /\ pos[m + 1] = Len(file) + 1
  /\ \A i, j \in 1..(m + 1) : i < j => pos[i] < pos[j]
  /\ \A p \in DOMAIN file : \E i \in 1..m : pos[i] <= p /\ p < pos[i + 1]
  /\ \A i \in 1..n : Block(i, n, pos)
  /\ \A i \in (n + 1)..m : pos[i + 1] = pos[i] + 1 /\ file[pos[i]].what = "row"

Running == disk.headid = "none" \/ (recording /\ at /= "header")

\* The row of a segment that was retired.
Entry(r, pos) ==
  /\ table[r].no = pos[r] /\ table[r].user = spoken[r].user
  /\ file[pos[r]].count = Size(pos, r) /\ Size(pos, r) = Len(spoken[r].frags)

\* A record of which nothing, or the first size fragments, have been written.
Fresh(rec, frags) ==
  /\ rec.offset = 0 /\ Len(rec.data) = Len(frags) + 1
  /\ rec.data[1].what = "segment"
  /\ \A j \in 1..Len(frags) : rec.data[j + 1].what = "fragment" /\ rec.data[j + 1].no = frags[j]

Begun(rec, frags, start, size) ==
  /\ rec.offset = start /\ Len(frags) = size + Len(rec.data)
  /\ \A j \in 1..Len(rec.data) : rec.data[j].what = "fragment" /\ rec.data[j].no = frags[size + j]

\* The q-th record is about the i-th utterance.
Waits(q, i, n, pos) ==
  /\ queue[q].index = i - 1 /\ queue[q].user = spoken[i].user
  /\ queue[q].count = Len(spoken[i].frags)
  /\ i > n => Fresh(queue[q], spoken[i].frags)
  /\ i <= n => Begun(queue[q], spoken[i].frags, pos[i], Size(pos, i))

\* The utterances in the order in which they began: those retired, those in the
\* queue that have been begun, those of which nothing has been written.
Queued(n, m, pos) ==
  /\ n = m /\ segcount = Len(spoken) /\ segcount = Len(table) + Len(queue) /\ Len(table) <= n
  /\ \A r \in 1..Len(table) : Entry(r, pos)
  /\ \A q \in 1..Len(queue) : Waits(q, Len(table) + q, n, pos)

About(r, n, pos) == table[r].no = pos[r] /\ (r <= n => table[r].user = spoken[r].user)

\* A recovery that has read k - 1 items.
Scanned(n, m, pos) ==
  at = "scan" =>
    /\ segcount <= m /\ (segcount = 0 => k = 1) /\ k <= Len(file) + 1
    /\ segcount > 0 => /\ pos[segcount] < k /\ k <= pos[segcount + 1]
                       /\ table[segcount].type = file[k - 1].type
                       /\ table[segcount].count = k - pos[segcount] - 1
    /\ \A r \in 1..segcount : /\ About(r, n, pos)
                              /\ r < segcount => table[r].count = Size(pos, r)

\* A recovery that gives the first k - 1 segments, or all of them, their counts.
Fixed(n, m, pos) ==
  at = "fix" \/ (at = "table" /\ ~recording) =>
    /\ segcount = m /\ Len(table) = m
    /\ \A r \in 1..m :
         /\ About(r, n, pos)
         /\ at = "table" \/ r < k => file[pos[r]].count = Size(pos, r)
         /\ at = "fix" /\ r >= k => table[r].count = Size(pos, r)

\* Every utterance is there to its end.
Whole(n, pos) == n = Len(spoken) /\ \A r \in 1..n : Size(pos, r) = Len(spoken[r].frags)

\* A table of count rows from the item first on.
Listed(n, pos, first, count) ==
  /\ n <= count
  /\ \A r \in 1..count :
       /\ r <= n => /\ file[first + r - 1].no = pos[r]
                    /\ file[first + r - 1].user = spoken[r].user
                    /\ file[pos[r]].count = Size(pos, r)
       /\ r > n => file[file[first + r - 1].no].count = 0
  /\ crashes = 0 => count = n /\ Whole(n, pos)

Ended(n, pos) ==
  /\ at = "header" => Listed(n, pos, segtable, segcount)
  /\ Finished => Listed(n, pos, disk.segtable, disk.segcount)

\* What the file holds: while it is recorded and afterwards.
Story(n, m, pos) ==
  /\ Tiled(n, m, pos)
  /\ Running => Queued(n, m, pos)
  /\ ~Running /\ FragmentsFit => Scanned(n, m, pos) /\ Fixed(n, m, pos) /\ Ended(n, pos)

\* There is a recording or a recovery only of a file that is not finished, and
\* the program that has not crashed is the one that records it.
Phases ==
  /\ at /= "idle" \/ recording => disk.headid = "TEMPRECD"
  /\ crashes = 0 /\ disk.headid = "TEMPRECD" => recording

\* Nothing that can be written is kept back.
Flushed ==
  /\ at = "write" => \A q \in DOMAIN queue : q < k => queue[q].data = <<>>
  /\ at \in {"idle", "retire"} => \A q \in DOMAIN queue : queue[q].offset /= 0 => queue[q].data = <<>>
  /\ at = "retire" => \A q \in DOMAIN queue :
        (\A j \in 1..q : queue[j].stopped) => queue[q].offset /= 0

StoryInv == Phases /\ Flushed /\ \E n, m, pos : Story(n, m, pos)
Base == TypeOK /\ Loops /\ Modes /\ FileInv /\ Heads
-----------------------------------------------------------------------------
(* Where things are.                                                       *)

LEMMA Utterance ==
  ASSUME NEW s \in Seq([user : Users, frags : Seq(Nat)]), NEW i \in 1..Len(s)
  PROVE  /\ s[i].user \in Users /\ s[i].frags \in Seq(Nat) /\ Len(s[i].frags) \in Nat
         /\ DOMAIN s[i].frags = 1..Len(s[i].frags)
         /\ s[i] = [user |-> s[i].user, frags |-> s[i].frags]
<1>1. PICK r \in [user : Users, frags : Seq(Nat)] : r = s[i]
  <2> DEFINE U == [user : Users, frags : Seq(Nat)]
  <2>1. s \in Seq(U)
    OBVIOUS
  <2> HIDE DEF U
  <2>2. s[i] \in U
    BY <2>1
  <2> QED
    BY <2>2 DEF U
<1>2. r.user \in Users /\ r.frags \in Seq(Nat) /\ r = [user |-> r.user, frags |-> r.frags]
  OBVIOUS
<1> QED
  BY <1>1, <1>2

LEMMA SpokenTyped ==
  ASSUME TypeOK
  PROVE  /\ spoken \in Seq([user : Users, frags : Seq(Nat)]) /\ Len(spoken) \in Nat
         /\ DOMAIN spoken = 1..Len(spoken)
<1>1. spoken \in Seq([user : Users, frags : Seq(Nat)])
  BY DEF TypeOK
<1> QED
  BY <1>1

LEMMA Waiting ==
  ASSUME TypeOK, NEW q \in 1..Len(queue)
  PROVE  /\ q \in DOMAIN queue /\ queue[q] \in Records /\ queue[q].data \in Seq(Items)
         /\ Len(queue[q].data) \in Nat /\ DOMAIN queue[q].data = 1..Len(queue[q].data)
         /\ queue[q].offset \in Nat /\ queue[q].count \in Nat
<1>1. q \in DOMAIN queue /\ queue \in Seq(Records)
  BY DEF TypeOK
<1>2. queue[q] \in Records
  BY <1>1, ElementOf
<1> QED
  BY <1>1, <1>2, RecordTypes

\* What is known of pos.
LEMMA Spots ==
  ASSUME TypeOK, NEW n, NEW m, NEW pos, Tiled(n, m, pos), NEW i \in 1..m
  PROVE  /\ pos[i] \in Nat /\ pos[i + 1] \in Nat /\ pos[i] >= 1 /\ pos[i] < pos[i + 1]
         /\ pos[i + 1] <= Len(file) + 1 /\ pos[i] \in DOMAIN file /\ Size(pos, i) \in Nat
         /\ \A j \in 1..Size(pos, i) : pos[i] + j \in DOMAIN file
<1>1. /\ m \in Nat /\ pos \in [1..(m + 1) -> Nat] /\ pos[1] = 1 /\ pos[m + 1] = Len(file) + 1
      /\ \A a, b \in 1..(m + 1) : a < b => pos[a] < pos[b]
  BY DEF Tiled
<1>2. i \in Nat /\ i \in 1..(m + 1) /\ i + 1 \in 1..(m + 1) /\ 1 \in 1..(m + 1) /\ m + 1 \in 1..(m + 1)
  BY <1>1
<1>3. pos[i] \in Nat /\ pos[i + 1] \in Nat
  BY <1>1, <1>2
<1>4. pos[i] < pos[i + 1]
  BY <1>1, <1>2
<1>5. i = 1 \/ pos[1] < pos[i]
  BY <1>1, <1>2
<1>6. i + 1 = m + 1 \/ pos[i + 1] < pos[m + 1]
  BY <1>1, <1>2
<1>7. DOMAIN file = 1..Len(file) /\ Len(file) \in Nat
  BY DEF TypeOK
<1>8. pos[i] >= 1 /\ pos[i + 1] <= Len(file) + 1 /\ pos[i] \in DOMAIN file
  BY <1>1, <1>3, <1>4, <1>5, <1>6, <1>7
<1>9. Size(pos, i) \in Nat
  BY <1>3, <1>4 DEF Size
<1>10. \A j \in 1..Size(pos, i) : pos[i] + j \in DOMAIN file
  BY <1>3, <1>4, <1>7, <1>8 DEF Size
<1> QED
  BY <1>3, <1>4, <1>8, <1>9, <1>10

\* What a step may do to what was said as long as n segments are in the file.
SpokenGrows(n) ==
  /\ Len(spoken') >= Len(spoken)
  /\ \A i \in 1..Len(spoken) :
       /\ spoken'[i].user = spoken[i].user
       /\ Len(spoken'[i].frags) >= Len(spoken[i].frags)
       /\ \A j \in 1..Len(spoken[i].frags) : spoken'[i].frags[j] = spoken[i].frags[j]
       /\ i < n => spoken'[i] = spoken[i]

\* A step that changes counts in the file.
SameItems ==
  /\ Len(file') = Len(file)
  /\ \A p \in DOMAIN file : /\ file'[p].what = file[p].what /\ file'[p].user = file[p].user
                            /\ file'[p].no = file[p].no /\ file'[p].type = file[p].type

LEMMA TiledKept ==
  ASSUME TypeOK, TypeOK', NEW n, NEW m, NEW pos, Tiled(n, m, pos), SpokenGrows(n), SameItems
  PROVE  Tiled(n, m, pos)'
<1>1. /\ n \in Nat /\ m \in Nat /\ n <= m /\ n <= Len(spoken) /\ Len(spoken) \in Nat
      /\ DOMAIN file = 1..Len(file) /\ DOMAIN file' = 1..Len(file')
      /\ Len(file') = Len(file) /\ Len(spoken') >= Len(spoken) /\ Len(spoken') \in Nat
  BY SMTT(30) DEF Tiled, TypeOK, SpokenGrows, SameItems
<1>2. ASSUME NEW i \in 1..n PROVE Block(i, n, pos)'
  <2>1. i \in 1..m /\ i \in 1..Len(spoken) /\ i \in 1..Len(spoken')
    BY <1>1
  <2>2. /\ pos[i] \in DOMAIN file /\ Size(pos, i) \in Nat
        /\ \A j \in 1..Size(pos, i) : pos[i] + j \in DOMAIN file
    BY <2>1, Spots
  <2>3. Block(i, n, pos)
    BY DEF Tiled
  <2>4. /\ Len(spoken[i].frags) \in Nat /\ Len(spoken'[i].frags) \in Nat
        /\ spoken'[i].user = spoken[i].user
        /\ Len(spoken'[i].frags) >= Len(spoken[i].frags)
        /\ \A j \in 1..Len(spoken[i].frags) : spoken'[i].frags[j] = spoken[i].frags[j]
        /\ i < n => spoken'[i] = spoken[i]
    <3>1. spoken \in Seq([user : Users, frags : Seq(Nat)]) /\ spoken' \in Seq([user : Users, frags : Seq(Nat)])
      BY DEF TypeOK
    <3>2. Len(spoken'[i].frags) \in Nat /\ Len(spoken[i].frags) \in Nat
      BY <2>1, <3>1, Utterance
    <3> QED
      BY <2>1, <3>2 DEF SpokenGrows
  <2>5. file'[pos[i]].what = "segment" /\ file'[pos[i]].user = spoken'[i].user
    BY <2>2, <2>3, <2>4 DEF Block, SameItems
  <2>6. Size(pos, i) <= Len(spoken'[i].frags) /\ (i < n => Size(pos, i) = Len(spoken'[i].frags))
    BY <2>2, <2>3, <2>4 DEF Block
  <2>7. ASSUME NEW j \in 1..Size(pos, i)
        PROVE  file'[pos[i] + j].what = "fragment" /\ file'[pos[i] + j].no = spoken'[i].frags[j]
    <3>1. j \in 1..Len(spoken[i].frags) /\ pos[i] + j \in DOMAIN file
      BY <2>2, <2>3, <2>4 DEF Block
    <3>2. file[pos[i] + j].what = "fragment" /\ file[pos[i] + j].no = spoken[i].frags[j]
      BY <2>3 DEF Block
    <3> QED
      BY <2>4, <3>1, <3>2 DEF SameItems
  <2> QED
    BY <2>5, <2>6, <2>7 DEF Block, Size
<1>3. ASSUME NEW i \in (n + 1)..m PROVE file'[pos[i]].what = "row" /\ pos[i + 1] = pos[i] + 1
  <2>1. i \in 1..m /\ file[pos[i]].what = "row" /\ pos[i + 1] = pos[i] + 1
    <3>1. i \in 1..m
      BY <1>1
    <3>2. \A j \in (n + 1)..m : pos[j + 1] = pos[j] + 1 /\ file[pos[j]].what = "row"
      BY DEF Tiled
    <3> QED
      BY <3>1, <3>2
  <2>2. pos[i] \in DOMAIN file
    BY <2>1, Spots
  <2> QED
    BY <2>1, <2>2 DEF SameItems
<1>4. n <= Len(spoken')
  BY <1>1
<1>5. /\ pos \in [1..(m + 1) -> Nat] /\ pos[1] = 1 /\ pos[m + 1] = Len(file') + 1
      /\ \A i, j \in 1..(m + 1) : i < j => pos[i] < pos[j]
      /\ \A p \in DOMAIN file' : \E i \in 1..m : pos[i] <= p /\ p < pos[i + 1]
  BY <1>1 DEF Tiled
<1> QED
  BY <1>1, <1>2, <1>3, <1>4, <1>5 DEF Tiled

\* Nothing was said.
LEMMA SpokenSame ==
  ASSUME TypeOK, spoken' = spoken, NEW n PROVE SpokenGrows(n)
<1>1. \A i \in 1..Len(spoken) : Len(spoken[i].frags) \in Nat
  BY SpokenTyped, Utterance
<1>2. Len(spoken) \in Nat
  BY SpokenTyped
<1> QED
  BY <1>1, <1>2 DEF SpokenGrows

LEMMA CountsSame ==
  ASSUME TypeOK, SameButCounts(file, file') PROVE SameItems
<1>1. Len(file') = Len(file)
  BY DEF SameButCounts
<1>2. ASSUME NEW p \in DOMAIN file
      PROVE  /\ file'[p].what = file[p].what /\ file'[p].user = file[p].user
             /\ file'[p].no = file[p].no /\ file'[p].type = file[p].type
  <2> DEFINE it == file[p]
             c == file'[p].count
  <2>1. it \in Items /\ file'[p] = [it EXCEPT !.count = c]
    BY <1>2, ElementOf DEF TypeOK, SameButCounts
  <2> HIDE DEF it, c
  <2>2. /\ file'[p].what = it.what /\ file'[p].user = it.user
        /\ file'[p].no = it.no /\ file'[p].type = it.type
    BY <2>1 DEF Items
  <2> QED
    BY <2>2 DEF it
<1> QED
  BY <1>1, <1>2 DEF SameItems
-----------------------------------------------------------------------------
(* What is said is written down.                                           *)

LEMMA QueueTyped ==
  ASSUME TypeOK
  PROVE  /\ queue \in Seq(Records) /\ Len(queue) \in Nat /\ DOMAIN queue = 1..Len(queue)
         /\ table \in Seq(Items) /\ Len(table) \in Nat /\ DOMAIN table = 1..Len(table)
         /\ file \in Seq(Items) /\ Len(file) \in Nat /\ DOMAIN file = 1..Len(file)
         /\ said \in Nat /\ said + 1 \in Nat /\ segcount \in Nat
<1>1. queue \in Seq(Records) /\ table \in Seq(Items) /\ file \in Seq(Items) /\ said \in Nat /\ segcount \in Nat
  BY DEF TypeOK
<1> QED
  BY <1>1

\* Between two events one record at most has been begun.
LEMMA OneBegun ==
  ASSUME Base, at = "idle", NEW n, NEW m, NEW pos, Tiled(n, m, pos), Queued(n, m, pos)
  PROVE  n <= Len(table) + 1 /\ n \in Nat
<1>1. TypeOK /\ Layout /\ n \in Nat /\ n <= Len(spoken) /\ n = m
      /\ Len(spoken) = Len(table) + Len(queue)
  BY DEF Base, FileInv, Tiled, Queued
<1>2. Len(table) \in Nat /\ Len(queue) \in Nat /\ DOMAIN queue = 1..Len(queue)
  BY <1>1, QueueTyped
<1>3. ASSUME n > Len(table) + 1 PROVE FALSE
  <2> DEFINE q == n - Len(table)
  <2>1. q \in 1..Len(queue) /\ Len(table) + q = n /\ q > 1
    BY <1>1, <1>2, <1>3
  <2> HIDE DEF q
  <2>2. Waits(q, n, n, pos)
    BY <2>1 DEF Queued
  <2>3. queue[q].offset = pos[n]
    BY <1>1, <2>2 DEF Waits, Begun
  <2>4. n \in 1..m
    BY <1>1, <1>2, <1>3
  <2>5. pos[n] >= 1 /\ pos[n] \in Nat
    BY <1>1, <2>4, Spots
  <2>6. Written(q)
    BY <1>1, <1>2, <2>1 DEF Layout
  <2> QED
    BY <2>1, <2>3, <2>5, <2>6 DEF Written
<1> QED
  BY <1>1, <1>2, <1>3

LEMMA BeginStory ==
  ASSUME Base, NEW n, NEW m, NEW pos, Tiled(n, m, pos), Queued(n, m, pos),
         UNCHANGED <<file, table>>, NEW u \in Users, NEW t \in Types, Begin(u, t)
  PROVE  SpokenGrows(n) /\ Queued(n, m, pos)'
<1>1. /\ TypeOK /\ n \in Nat /\ n = m /\ n <= Len(spoken) /\ segcount = Len(spoken)
      /\ Len(spoken) = Len(table) + Len(queue) /\ Len(table) <= n
      /\ \A q \in 1..Len(queue) : Waits(q, Len(table) + q, n, pos)
      /\ \A r \in 1..Len(table) : Entry(r, pos)
  BY DEF Base, Tiled, Queued
<1>2. /\ queue \in Seq(Records) /\ Len(queue) \in Nat /\ Len(table) \in Nat /\ said + 1 \in Nat
      /\ spoken \in Seq([user : Users, frags : Seq(Nat)]) /\ Len(spoken) \in Nat
  BY <1>1, QueueTyped, SpokenTyped
<1> DEFINE h == SegmentHeader(u, t, segcount)
           f == Fragment(u, t, segcount)
           rec == [user |-> u, type |-> t, index |-> segcount, count |-> 1, offset |-> 0,
                   data |-> <<h, f>>, stopped |-> (t = "text")]
           new == [user |-> u, frags |-> <<said + 1>>]
<1>3. /\ rec.index = segcount /\ rec.user = u /\ rec.count = 1 /\ rec.offset = 0
      /\ rec.data = <<h, f>>
  OBVIOUS
<1>4. h.what = "segment" /\ f.what = "fragment" /\ f.no = said + 1
  BY DEF SegmentHeader, Fragment
<1>5. queue' = Append(queue, rec) /\ spoken' = Append(spoken, new) /\ segcount' = segcount + 1
  BY DEF Begin
<1>6. new.user = u /\ new.frags = <<said + 1>> /\ Len(<<said + 1>>) = 1 /\ <<said + 1>>[1] = said + 1
  OBVIOUS
<1> HIDE DEF rec, new, h, f
<1>7. Fresh(rec, new.frags)
  BY <1>3, <1>4, <1>6 DEF Fresh
<1>8. /\ Len(queue') = Len(queue) + 1 /\ queue'[Len(queue) + 1] = rec
      /\ \A q \in 1..Len(queue) : queue'[q] = queue[q]
  BY <1>2, <1>5
<1>9. /\ Len(spoken') = Len(spoken) + 1 /\ spoken'[Len(spoken) + 1] = new
      /\ \A i \in 1..Len(spoken) : spoken'[i] = spoken[i]
  BY <1>2, <1>5
<1>10. SpokenGrows(n)
  <2>1. \A i \in 1..Len(spoken) : Len(spoken[i].frags) \in Nat
    BY <1>2, Utterance
  <2> QED
    BY <1>2, <1>9, <2>1 DEF SpokenGrows
<1>11. ASSUME NEW q \in 1..Len(queue') PROVE Waits(q, Len(table) + q, n, pos)'
  <2>1. CASE q \in 1..Len(queue)
    <3>1. Len(table) + q \in 1..Len(spoken)
      BY <1>1, <1>2, <2>1
    <3>2. queue'[q] = queue[q] /\ spoken'[Len(table) + q] = spoken[Len(table) + q]
      BY <1>8, <1>9, <2>1, <3>1
    <3> QED
      BY <1>1, <2>1, <3>2 DEF Waits
  <2>2. CASE q = Len(queue) + 1
    <3>1. Len(table) + q = Len(spoken) + 1 /\ (Len(table) + q) - 1 = segcount /\ Len(table) + q > n
          /\ ~(Len(table) + q <= n)
      BY <1>1, <1>2, <2>2
    <3>2. queue'[q] = rec /\ spoken'[Len(table) + q] = new
      BY <1>8, <1>9, <2>2, <3>1
    <3> QED
      BY <1>3, <1>6, <1>7, <3>1, <3>2 DEF Waits
  <2> QED
    BY <1>2, <1>8, <2>1, <2>2
<1>12. ASSUME NEW r \in 1..Len(table) PROVE Entry(r, pos)'
  <2>1. r \in 1..Len(spoken)
    BY <1>1, <1>2
  <2>2. spoken'[r] = spoken[r]
    BY <1>9, <2>1
  <2> QED
    BY <1>1, <2>2 DEF Entry
<1>13. segcount' = Len(spoken') /\ segcount' = Len(table) + Len(queue')
  BY <1>1, <1>2, <1>5, <1>8, <1>9
<1>14. table' = table
  OBVIOUS
<1> QED
  BY <1>1, <1>10, <1>11, <1>12, <1>13, <1>14 DEF Queued

\* A record with one more fragment.
Longer(rec, new, f) ==
  /\ new.index = rec.index /\ new.user = rec.user /\ new.offset = rec.offset
  /\ new.count = rec.count + 1 /\ new.data = Append(rec.data, f)

LEMMA GrownIsLonger ==
  ASSUME NEW rec \in Records, NEW f \in Items, NEW b, NEW d, d = Append(rec.data, f)
  PROVE  Longer(rec, Grown(rec, d, b), f)
<1>1. LET new == Grown(rec, d, b)
      IN  /\ new.index = rec.index /\ new.user = rec.user /\ new.offset = rec.offset
          /\ new.count = rec.count + 1 /\ new.data = d
  BY DEF Grown, Records
<1> QED
  BY <1>1 DEF Longer

LEMMA LongerData ==
  ASSUME NEW rec \in Records, NEW frags \in Seq(Nat), NEW x \in Nat,
         NEW f \in Items, f.what = "fragment", f.no = x,
         NEW new, Longer(rec, new, f), NEW more, more = Append(frags, x)
  PROVE  /\ Fresh(rec, frags) => Fresh(new, more)
         /\ \A start : \A size \in Nat : Begun(rec, frags, start, size) => Begun(new, more, start, size)
<1>1. rec.data \in Seq(Items) /\ rec.count \in Nat
  BY RecordTypes
<1>2. PICK d : d = Append(rec.data, f)
  OBVIOUS
<1>3. new.offset = rec.offset /\ new.data = d
  BY <1>2 DEF Longer
<1>4. /\ Len(d) = Len(rec.data) + 1 /\ d[Len(rec.data) + 1] = f /\ Len(rec.data) \in Nat
      /\ \A j \in 1..Len(rec.data) : d[j] = rec.data[j]
  BY <1>1, <1>2
<1>5. /\ Len(more) = Len(frags) + 1 /\ more[Len(frags) + 1] = x /\ Len(frags) \in Nat
      /\ \A j \in 1..Len(frags) : more[j] = frags[j]
  OBVIOUS
<1>6. ASSUME Fresh(rec, frags) PROVE Fresh(new, more)
  <2>1. /\ rec.offset = 0 /\ Len(rec.data) = Len(frags) + 1 /\ rec.data[1].what = "segment"
        /\ \A j \in 1..Len(frags) : rec.data[j + 1].what = "fragment" /\ rec.data[j + 1].no = frags[j]
    BY <1>6 DEF Fresh
  <2>2. Len(d) = Len(more) + 1 /\ d[1].what = "segment"
    BY <1>4, <1>5, <2>1
  <2>3. ASSUME NEW j \in 1..Len(more) PROVE d[j + 1].what = "fragment" /\ d[j + 1].no = more[j]
    <3>1. CASE j \in 1..Len(frags)
      <4>1. j + 1 \in 1..Len(rec.data)
        BY <1>5, <2>1, <3>1
      <4>2. d[j + 1] = rec.data[j + 1] /\ more[j] = frags[j]
        BY <1>4, <1>5, <3>1, <4>1
      <4>3. rec.data[j + 1].what = "fragment" /\ rec.data[j + 1].no = frags[j]
        BY <2>1, <3>1
      <4> QED
        BY <4>2, <4>3, Zenon
    <3>2. CASE j = Len(frags) + 1
      BY <1>4, <1>5, <2>1, <3>2
    <3> QED
      BY <1>5, <3>1, <3>2
  <2> QED
    BY <1>3, <2>1, <2>2, <2>3 DEF Fresh
<1>7. ASSUME NEW start, NEW size \in Nat, Begun(rec, frags, start, size)
      PROVE  Begun(new, more, start, size)
  <2>1. /\ rec.offset = start /\ Len(frags) = size + Len(rec.data)
        /\ \A j \in 1..Len(rec.data) : rec.data[j].what = "fragment" /\ rec.data[j].no = frags[size + j]
    BY <1>7 DEF Begun
  <2>2. Len(more) = size + Len(d)
    BY <1>4, <1>5, <2>1
  <2>3. ASSUME NEW j \in 1..Len(d) PROVE d[j].what = "fragment" /\ d[j].no = more[size + j]
    <3>1. CASE j \in 1..Len(rec.data)
      <4>1. size + j \in 1..Len(frags)
        BY <1>4, <2>1, <3>1
      <4> QED
        BY <1>4, <1>5, <2>1, <3>1, <4>1
    <3>2. CASE j = Len(rec.data) + 1
      <4>1. size + j = Len(frags) + 1
        BY <1>4, <2>1, <3>2
      <4> QED
        BY <1>4, <1>5, <3>2, <4>1
    <3>3. j \in 1..Len(rec.data) \/ j = Len(rec.data) + 1
      <4>1. j \in 1..(Len(rec.data) + 1) /\ Len(rec.data) \in Nat
        BY <1>4
      <4> QED
        BY <4>1
    <3> QED
      BY <3>1, <3>2, <3>3
  <2> QED
    BY <1>3, <2>1, <2>2, <2>3 DEF Begun
<1> QED
  BY <1>6, <1>7

LEMMA ContinueStory ==
  ASSUME Base, at = "idle", NEW n, NEW m, NEW pos, Tiled(n, m, pos), Queued(n, m, pos),
         UNCHANGED <<file, table>>,
         NEW u \in Users, NEW t \in Types, NEW i \in Open(u), Continue(u, t, i)
  PROVE  SpokenGrows(n) /\ Queued(n, m, pos)'
<1>1. /\ TypeOK /\ n \in Nat /\ n = m /\ n <= Len(spoken) /\ segcount = Len(spoken)
      /\ Len(spoken) = Len(table) + Len(queue) /\ Len(table) <= n
      /\ \A q \in 1..Len(queue) : Waits(q, Len(table) + q, n, pos)
      /\ \A r \in 1..Len(table) : Entry(r, pos)
  BY DEF Base, Tiled, Queued
<1>2. /\ queue \in Seq(Records) /\ Len(queue) \in Nat /\ Len(table) \in Nat
      /\ said \in Nat /\ said + 1 \in Nat /\ DOMAIN queue = 1..Len(queue)
      /\ spoken \in Seq([user : Users, frags : Seq(Nat)]) /\ Len(spoken) \in Nat
      /\ DOMAIN spoken = 1..Len(spoken)
  BY <1>1, QueueTyped, SpokenTyped
<1>3. n <= Len(table) + 1
  BY OneBegun
<1>4. i \in 1..Len(queue) /\ queue[i] \in Records
  BY <1>2, OpenIsQueued, ElementOf
<1> DEFINE x == Len(table) + i
<1>5. x \in 1..Len(spoken) /\ x \in Nat /\ x >= n /\ Waits(i, x, n, pos)
  <2>1. x \in 1..Len(spoken) /\ x \in Nat /\ x >= n
    BY <1>1, <1>2, <1>3, <1>4
  <2>2. Waits(i, Len(table) + i, n, pos)
    BY <1>1, <1>4
  <2> QED
    BY <2>1, <2>2
<1>6. x = queue[i].index + 1
  BY <1>5 DEF Waits
<1> HIDE DEF x
<1>7. PICK f \in Items : f = Fragment(u, t, queue[i].index) /\ f.what = "fragment" /\ f.no = said + 1
  BY <1>1, <1>2, <1>4, ItemTypes, RecordTypes DEF Fragment
<1>8. PICK new : new = Grown(queue[i], Append(queue[i].data, f), t = "text")
  OBVIOUS
<1>9. /\ Len(queue') = Len(queue) /\ queue'[i] = new
      /\ \A q \in 1..Len(queue) : q /= i => queue'[q] = queue[q]
  <2>1. DOMAIN queue' = DOMAIN queue /\ queue' \in Seq(Records)
    BY <1>1, <1>2, <1>4, ContinueTypes
  <2> QED
    BY <1>2, <1>4, <1>7, <1>8, <2>1 DEF Continue, Grown
<1>10. PICK frags \in Seq(Nat) : frags = spoken[x].frags
  BY <1>2, <1>5, Utterance
<1>11. PICK more : more = Append(frags, said + 1)
  OBVIOUS
<1>12. /\ Len(spoken') = Len(spoken)
       /\ spoken'[x].user = spoken[x].user /\ spoken'[x].frags = more
       /\ \A j \in 1..Len(spoken) : j /= x => spoken'[j] = spoken[j]
  <2>1. spoken' = [spoken EXCEPT ![x].frags = Append(@, said + 1)]
    BY <1>6 DEF Continue
  <2>2. /\ DOMAIN spoken' = 1..Len(spoken)
        /\ \A j \in 1..Len(spoken) : j /= x => spoken'[j] = spoken[j]
        /\ spoken'[x] = [spoken[x] EXCEPT !.frags = Append(@, said + 1)]
    BY <1>2, <1>5, <2>1
  <2>3. PICK r : r = spoken[x] /\ r = [user |-> r.user, frags |-> r.frags]
    BY <1>2, <1>5, Utterance
  <2>4. spoken'[x].user = r.user /\ spoken'[x].frags = Append(r.frags, said + 1)
    BY <2>2, <2>3
  <2>5. spoken' \in Seq([user : Users, frags : Seq(Nat)])
    BY <1>1, <1>2, <1>4, ContinueTypes
  <2>6. Len(spoken') = Len(spoken)
    BY <1>2, <2>2, <2>5
  <2> QED
    BY <1>10, <1>11, <2>2, <2>3, <2>4, <2>6
<1>13. Len(more) = Len(frags) + 1 /\ Len(frags) \in Nat /\ \A j \in 1..Len(frags) : more[j] = frags[j]
  BY <1>2, <1>11
<1>14. SpokenGrows(n)
  <2>1. ASSUME NEW j \in 1..Len(spoken)
        PROVE  /\ spoken'[j].user = spoken[j].user
               /\ Len(spoken'[j].frags) >= Len(spoken[j].frags)
               /\ \A l \in 1..Len(spoken[j].frags) : spoken'[j].frags[l] = spoken[j].frags[l]
               /\ j < n => spoken'[j] = spoken[j]
    <3>1. CASE j = x
      BY <1>1, <1>5, <1>10, <1>12, <1>13, <3>1
    <3>2. CASE j /= x
      <4>1. Len(spoken[j].frags) \in Nat /\ spoken'[j] = spoken[j]
        BY <1>2, <1>12, <3>2, Utterance
      <4> QED
        BY <4>1
    <3> QED
      BY <3>1, <3>2
  <2> QED
    BY <1>2, <1>12, <2>1 DEF SpokenGrows
<1>15. ASSUME NEW q \in 1..Len(queue') PROVE Waits(q, Len(table) + q, n, pos)'
  <2>1. q \in 1..Len(queue) /\ Waits(q, Len(table) + q, n, pos) /\ Len(table) + q \in 1..Len(spoken)
    <3>1. q \in 1..Len(queue)
      BY <1>9
    <3>2. Len(table) + q \in 1..Len(spoken)
      BY <1>1, <1>2, <3>1
    <3> QED
      BY <1>1, <3>1, <3>2
  <2>2. CASE q /= i
    <3>1. Len(table) + q /= x
      BY <1>2, <1>4, <2>1, <2>2 DEF x
    <3>2. queue'[q] = queue[q] /\ spoken'[Len(table) + q] = spoken[Len(table) + q]
      BY <1>9, <1>12, <2>1, <2>2, <3>1
    <3> QED
      BY <2>1, <3>2 DEF Waits
  <2>3. CASE q = i
    <3>1. queue[i].count = Len(frags) /\ queue[i].user = spoken[x].user /\ queue[i].index = x - 1
      BY <1>5, <1>10 DEF Waits
    <3>2. /\ new.index = queue[i].index /\ new.user = queue[i].user /\ new.count = Len(more)
          /\ Longer(queue[i], new, f)
      <4>1. PICK rec \in Records : rec = queue[i]
        BY <1>4
      <4>2. PICK d, b : d = Append(rec.data, f) /\ new = Grown(rec, d, b)
        BY <1>8, <4>1
      <4>3. Longer(rec, new, f)
        BY <4>2, GrownIsLonger
      <4>4. new.index = rec.index /\ new.user = rec.user /\ new.count = rec.count + 1
        BY <4>3 DEF Longer
      <4>5. Len(more) = Len(frags) + 1
        BY <1>11, <1>2
      <4> QED
        BY <3>1, <4>1, <4>3, <4>4, <4>5
    <3>6. /\ Fresh(queue[i], frags) => Fresh(new, more)
          /\ \A start : \A size \in Nat : Begun(queue[i], frags, start, size)
                                            => Begun(new, more, start, size)
      <4>1. PICK rec \in Records : rec = queue[i]
        BY <1>4
      <4>2. PICK y \in Nat : y = said + 1
        BY <1>2
      <4>3. f.what = "fragment" /\ f.no = y /\ Longer(rec, new, f) /\ more = Append(frags, y)
        BY <1>7, <1>11, <3>2, <4>1, <4>2
      <4>4. /\ Fresh(rec, frags) => Fresh(new, more)
            /\ \A start : \A size \in Nat : Begun(rec, frags, start, size) => Begun(new, more, start, size)
        BY <4>3, LongerData
      <4> QED
        BY <4>1, <4>4
    <3>3. x > n => Fresh(new, more)
      BY <1>5, <1>10, <3>6 DEF Waits
    <3>4. x <= n => Begun(new, more, pos[x], Size(pos, x))
      <4>1. ASSUME x <= n PROVE x \in 1..m
        BY <1>1, <1>5, <4>1
      <4>2. x <= n => Size(pos, x) \in Nat
        BY <1>1, <4>1, Spots
      <4> QED
        BY <1>5, <1>10, <3>6, <4>2 DEF Waits
    <3>5. queue'[q] = new /\ Len(table) + q = x /\ spoken'[x].frags = more /\ spoken'[x].user = spoken[x].user
      BY <1>9, <1>12, <2>3 DEF x
    <3> QED
      BY <3>1, <3>2, <3>3, <3>4, <3>5 DEF Waits, Size
  <2> QED
    BY <2>2, <2>3
<1>16. ASSUME NEW r \in 1..Len(table) PROVE Entry(r, pos)'
  <2>1. r \in 1..Len(spoken) /\ r /= x
    BY <1>1, <1>2, <1>4, SMTT(30) DEF x
  <2>2. spoken'[r] = spoken[r]
    BY <1>12, <2>1
  <2> QED
    BY <1>1, <2>2 DEF Entry
<1>17. segcount' = Len(spoken') /\ segcount' = Len(table) + Len(queue')
  BY <1>1, <1>2, <1>9, <1>12 DEF Continue
<1>18. table' = table
  OBVIOUS
<1> QED
  BY <1>1, <1>14, <1>15, <1>16, <1>17, <1>18 DEF Queued

LEMMA StopStory ==
  ASSUME Base, NEW n, NEW m, NEW pos, Tiled(n, m, pos), Queued(n, m, pos),
         UNCHANGED <<file, table>>, NEW S, StopRecords(S)
  PROVE  SpokenGrows(n) /\ Queued(n, m, pos)'
<1>1. TypeOK
  BY DEF Base
<1>2. /\ queue \in Seq(Records) /\ Len(queue) \in Nat /\ DOMAIN queue = 1..Len(queue)
      /\ spoken' = spoken /\ segcount' = segcount /\ table' = table /\ file' = file
  BY <1>1, QueueTyped DEF StopRecords
<1>3. /\ queue' \in Seq(Records) /\ DOMAIN queue' = DOMAIN queue
      /\ \A p \in DOMAIN queue : queue'[p] = [queue[p] EXCEPT !.stopped = queue'[p].stopped]
  BY <1>1, StopTypes
<1>4. Len(queue') = Len(queue)
  BY <1>2, <1>3
<1>5. ASSUME NEW q \in 1..Len(queue)
      PROVE  /\ queue'[q].index = queue[q].index /\ queue'[q].user = queue[q].user
             /\ queue'[q].count = queue[q].count /\ queue'[q].offset = queue[q].offset
             /\ queue'[q].data = queue[q].data
  <2>1. PICK rec \in Records : rec = queue[q]
    BY <1>2, ElementOf
  <2>2. PICK b : queue'[q] = [rec EXCEPT !.stopped = b]
    BY <1>2, <1>3, <2>1
  <2> QED
    BY <2>1, <2>2 DEF Records
<1>6. ASSUME NEW q \in 1..Len(queue') PROVE Waits(q, Len(table) + q, n, pos)'
  <2>1. Waits(q, Len(table) + q, n, pos)
    BY <1>4 DEF Queued
  <2> QED
    BY <1>2, <1>4, <1>5, <2>1, SMTT(30) DEF Waits, Fresh, Begun
<1>7. Queued(n, m, pos)'
  BY <1>2, <1>4, <1>6 DEF Queued, Entry
<1> QED
  BY <1>1, <1>2, <1>7, SpokenSame

LEMMA EnqueueStory ==
  ASSUME Base, at = "idle", NEW n, NEW m, NEW pos, Tiled(n, m, pos), Queued(n, m, pos),
         UNCHANGED <<file, table>>, NEW e, NEW u \in Users, Enqueue(e, u)
  PROVE  SpokenGrows(n) /\ Queued(n, m, pos)'
<1>1. ASSUME NEW t \in Types, Data(u, t) PROVE SpokenGrows(n) /\ Queued(n, m, pos)'
  <2>1. CASE Open(u) = {}
    BY <1>1, <2>1, BeginStory DEF Data
  <2>2. CASE Open(u) /= {}
    <3>1. PICK i \in Open(u) : Continue(u, t, i)
      BY <1>1, <2>2 DEF Data
    <3> QED
      BY <3>1, ContinueStory
  <2> QED
    BY <2>1, <2>2
<1> QED
  BY <1>1, StopStory DEF Enqueue, Types
-----------------------------------------------------------------------------
(* The writing loop.                                                       *)

LEMMA Appending ==
  ASSUME NEW s \in Seq(Items), NEW d \in Seq(Items), NEW t, t = s \o d
  PROVE  /\ Len(t) = Len(s) + Len(d) /\ Len(s) \in Nat /\ Len(d) \in Nat
         /\ DOMAIN s = 1..Len(s) /\ DOMAIN t = 1..(Len(s) + Len(d))
         /\ \A p \in 1..Len(s) : t[p] = s[p]
         /\ \A p \in 1..Len(d) : t[Len(s) + p] = d[p]
OBVIOUS

\* The last segment, l, gets longer by d, or d is a new one.
Adds(n, pos, d, l, new) ==
  /\ d \in Seq(Items) /\ d /= <<>> /\ file' = file \o d
  /\ l = n \/ l = n + 1
  /\ l \in 1..Len(spoken)
  /\ new \in [1..(l + 1) -> Nat] /\ (\A i \in 1..l : new[i] = pos[i])
  /\ new[l + 1] = Len(file) + Len(d) + 1

WholeBefore(n, pos, l) == \A i \in 1..n : i < l => Size(pos, i) = Len(spoken[i].frags)

LEMMA TiledGrows ==
  ASSUME TypeOK, NEW n, NEW pos, Tiled(n, n, pos), spoken' = spoken,
         NEW d, NEW l, NEW new, Adds(n, pos, d, l, new), WholeBefore(n, pos, l),
         Block(l, l, new)'
  PROVE  Tiled(l, l, new)'
<1>0. /\ d \in Seq(Items) /\ d /= <<>> /\ file' = file \o d
      /\ l = n \/ l = n + 1
      /\ n \in Nat /\ l \in 1..Len(spoken) /\ Len(spoken) \in Nat
      /\ new \in [1..(l + 1) -> Nat] /\ (\A i \in 1..l : new[i] = pos[i])
      /\ new[l + 1] = Len(file) + Len(d) + 1
      /\ \A i \in 1..n : i < l => Size(pos, i) = Len(spoken[i].frags)
  BY SpokenTyped DEF Adds, WholeBefore, Tiled
<1>1. /\ n \in Nat /\ l \in Nat /\ n <= l /\ Len(file) \in Nat /\ Len(d) \in Nat /\ Len(d) >= 1
      /\ DOMAIN file = 1..Len(file) /\ Len(file') = Len(file) + Len(d)
      /\ DOMAIN file' = 1..(Len(file) + Len(d))
      /\ \A p \in 1..Len(file) : file'[p] = file[p]
  <2>1. /\ file \in Seq(Items) /\ Len(file) \in Nat /\ Len(d) \in Nat /\ DOMAIN file = 1..Len(file)
        /\ Len(file') = Len(file) + Len(d) /\ DOMAIN file' = 1..(Len(file) + Len(d))
        /\ \A p \in 1..Len(file) : file'[p] = file[p]
    BY <1>0, QueueTyped, Appending
  <2>2. Len(d) >= 1
    <3>1. d \in Seq(Items) /\ d /= <<>>
      BY <1>0
    <3> QED
      BY <3>1
  <2>3. l \in Nat /\ n <= l
    BY <1>0
  <2> QED
    BY <1>0, <2>1, <2>2, <2>3
<1>10. n \in Nat /\ l \in Nat /\ n <= l /\ l <= n + 1 /\ l >= 1
  BY <1>0
<1>2. /\ pos \in [1..(n + 1) -> Nat] /\ pos[1] = 1 /\ pos[n + 1] = Len(file) + 1
      /\ \A i, j \in 1..(n + 1) : i < j => pos[i] < pos[j]
      /\ \A p \in DOMAIN file : \E i \in 1..n : pos[i] <= p /\ p < pos[i + 1]
      /\ \A i \in 1..n : Block(i, n, pos)
  BY DEF Tiled
<1>3. \A i \in 1..l : pos[i] \in Nat /\ pos[i] <= Len(file) + 1
  <2>1. ASSUME NEW i \in 1..l PROVE pos[i] \in Nat /\ pos[i] <= Len(file) + 1
    <3>1. i \in 1..(n + 1) /\ n + 1 \in 1..(n + 1)
      BY <1>10
    <3>2. pos[i] \in Nat
      BY <1>2, <3>1
    <3>3. i = n + 1 \/ pos[i] < pos[n + 1]
      BY <1>1, <1>2, <3>1
    <3> QED
      <4>1. pos[n + 1] = Len(file) + 1 /\ Len(file) \in Nat
        BY <1>1, <1>2
      <4> QED
        BY <3>2, <3>3, <4>1
  <2> QED
    BY <2>1
<1>4. new[1] = 1 /\ new[l + 1] = Len(file') + 1
  <2>1. 1 \in 1..l
    BY <1>10
  <2> QED
    BY <1>0, <1>1, <1>2, <2>1
<1>5. ASSUME NEW i \in 1..(l + 1), NEW j \in 1..(l + 1), i < j PROVE new[i] < new[j]
  <2>1. i \in 1..l /\ new[i] = pos[i]
    BY <1>0, <1>1, <1>5
  <2>2. CASE j = l + 1
    BY <1>0, <1>1, <1>3, <2>1, <2>2
  <2>3. CASE j /= l + 1
    <3>1. j \in 1..l /\ i \in 1..(n + 1) /\ j \in 1..(n + 1)
      BY <1>10, <2>1, <2>3
    <3>2. new[j] = pos[j]
      BY <1>0, <3>1
    <3> QED
      BY <1>2, <1>5, <2>1, <3>1, <3>2
  <2> QED
    BY <2>2, <2>3
<1>6. ASSUME NEW p \in DOMAIN file' PROVE \E i \in 1..l : new[i] <= p /\ p < new[i + 1]
  <2>1. CASE p \in DOMAIN file
    <3>1. PICK i \in 1..n : pos[i] <= p /\ p < pos[i + 1]
      BY <1>2, <2>1
    <3>2. i \in 1..l /\ new[i] <= p
      BY <1>0, <1>1, <3>1, SMTT(30)
    <3>3. p < new[i + 1]
      <4>1. CASE i < l
        <5>1. i + 1 \in 1..l
          BY <1>1, <3>2, <4>1
        <5> QED
          BY <1>0, <3>1, <5>1
      <4>2. CASE i = l
        BY <1>0, <1>1, <2>1, <4>2
      <4> QED
        BY <1>1, <3>2, <4>1, <4>2
    <3> QED
      BY <3>2, <3>3
  <2>2. CASE p \notin DOMAIN file
    <3>1. p >= Len(file) + 1 /\ p < new[l + 1] /\ l \in 1..l
      BY <1>0, <1>1, <1>10, <2>2
    <3>2. new[l] <= p
      <4>1. new[l] = pos[l] /\ pos[l] \in Nat /\ pos[l] <= Len(file) + 1
        BY <1>0, <1>3, <3>1
      <4> QED
        BY <1>1, <3>1, <4>1
    <3> QED
      BY <3>1, <3>2
  <2> QED
    BY <2>1, <2>2
<1>7. ASSUME NEW i \in 1..l PROVE Block(i, l, new)'
  <2>1. CASE i /= l
    <3>1. i \in 1..n /\ i < l /\ i + 1 \in 1..l
      BY <1>10, <2>1
    <3>2. Block(i, n, pos) /\ Size(pos, i) = Len(spoken[i].frags)
      BY <1>0, <1>2, <3>1
    <3>3. new[i] = pos[i] /\ new[i + 1] = pos[i + 1] /\ Size(new, i) = Size(pos, i)
      BY <1>0, <3>1 DEF Size
    <3>4. pos[i] \in DOMAIN file /\ \A j \in 1..Size(pos, i) : pos[i] + j \in DOMAIN file
      BY <3>1, Spots
    <3>5. Size(pos, i) <= Len(spoken[i].frags)
      BY <3>2 DEF Block
    <3>6. /\ file[pos[i]].what = "segment" /\ file[pos[i]].user = spoken[i].user
          /\ \A j \in 1..Size(pos, i) : /\ file[pos[i] + j].what = "fragment"
                                        /\ file[pos[i] + j].no = spoken[i].frags[j]
      BY <3>2 DEF Block
    <3>7. /\ file'[new[i]] = file[pos[i]]
          /\ \A j \in 1..Size(pos, i) : file'[new[i] + j] = file[pos[i] + j]
      BY <1>1, <3>3, <3>4
    <3>8. Size(new, i)' = Size(pos, i) /\ Size(pos, i) = Len(spoken'[i].frags)
      BY <3>2, <3>3 DEF Size
    <3>9. Size(pos, i) <= Len(spoken'[i].frags)
      BY <3>5
    <3> QED
      BY <3>3, <3>6, <3>7, <3>8, <3>9 DEF Block
  <2> QED
    BY <2>1
<1>8. \A i \in (l + 1)..l : new[i + 1] = new[i] + 1 /\ file'[new[i]].what = "row"
  BY <1>1
<1>9. l <= Len(spoken') /\ l <= l /\ l \in Nat /\ new \in [1..(l + 1) -> Nat]
  BY <1>0, <1>10
<1> QED
  BY <1>4, <1>5, <1>6, <1>7, <1>8, <1>9 DEF Tiled

\* Those that have been begun come first in the queue.
LEMMA WriteAt ==
  ASSUME Base, NEW n, NEW m, NEW pos, Tiled(n, m, pos), Queued(n, m, pos), WriteRecord
  PROVE  /\ k \in 1..Len(queue) /\ n \in Nat /\ n = m
         /\ Len(table) + k = n + 1 \/ (Len(table) + k <= n /\ k = 1 /\ Len(table) + k = n)
         /\ Waits(k, Len(table) + k, n, pos)
         /\ Coherent(queue[k])
<1>1. TypeOK /\ Loops /\ Layout /\ at = "write" /\ n \in Nat /\ n = m /\ n <= Len(spoken)
      /\ Len(spoken) = Len(table) + Len(queue) /\ Len(table) <= n
      /\ \A q \in 1..Len(queue) : Waits(q, Len(table) + q, n, pos)
  BY DEF Base, FileInv, Tiled, Queued, WriteRecord
<1>2. Len(queue) \in Nat /\ Len(table) \in Nat /\ DOMAIN queue = 1..Len(queue)
  BY <1>1, QueueTyped
<1>3. k \in 1..Len(queue) /\ k \in Nat /\ Coherent(queue[k])
  BY <1>1, <1>2 DEF Loops, Layout
<1>4. \A q \in 1..Len(queue) : /\ q < k => queue[q].offset /= 0
                               /\ q > 1 /\ q >= k => queue[q].offset = 0
  BY <1>1, <1>2 DEF Layout, Progress
<1>5. ASSUME NEW q \in 1..Len(queue), Len(table) + q <= n PROVE queue[q].offset /= 0
  <2>1. Len(table) + q \in 1..m
    BY <1>1, <1>2, <1>5
  <2>2. pos[Len(table) + q] \in Nat /\ pos[Len(table) + q] >= 1
    BY <1>1, <2>1, Spots
  <2>3. Waits(q, Len(table) + q, n, pos)
    BY <1>1
  <2>4. queue[q].offset = pos[Len(table) + q]
    BY <1>5, <2>3 DEF Waits, Begun
  <2> QED
    BY <2>2, <2>4
<1>6. ASSUME NEW q \in 1..Len(queue), Len(table) + q > n PROVE queue[q].offset = 0
  <2>1. Waits(q, Len(table) + q, n, pos)
    BY <1>1
  <2> QED
    BY <1>6, <2>1 DEF Waits, Fresh
<1>7. CASE Len(table) + k > n
  <2>1. k = 1 \/ Len(table) + (k - 1) <= n
    <3>1. ASSUME k /= 1, Len(table) + (k - 1) > n PROVE FALSE
      <4>1. k - 1 \in 1..Len(queue) /\ k - 1 < k
        BY <1>2, <1>3, <3>1
      <4> QED
        BY <1>4, <1>6, <3>1, <4>1
    <3> QED
      BY <1>1, <1>2, <1>3, <3>1
  <2>2. Len(table) + k = n + 1
    BY <1>1, <1>2, <1>3, <1>7, <2>1
  <2> QED
    BY <1>1, <1>3, <2>2
<1>8. CASE Len(table) + k <= n
  <2>1. k = 1
    BY <1>3, <1>4, <1>5, <1>8
  <2>2. Len(table) + k = n
    <3>1. ASSUME Len(table) + 1 < n PROVE FALSE
      <4>1. 2 \in 1..Len(queue) /\ Len(table) + 2 <= n
        BY <1>1, <1>2, <3>1
      <4> QED
        BY <1>4, <1>5, <2>1, <4>1
    <3> QED
      BY <1>1, <1>2, <1>8, <2>1, <3>1
  <2> QED
    BY <1>1, <1>3, <1>8, <2>1, <2>2
<1> QED
  BY <1>1, <1>2, <1>3, <1>7, <1>8

\* What is written: the rest of a segment or all of one.
LEMMA WrittenBlock ==
  ASSUME Base, NEW n, NEW pos, Tiled(n, n, pos), Queued(n, n, pos), WriteRecord,
         NEW d, NEW l, NEW new, Adds(n, pos, d, l, new), d = queue[k].data, l = Len(table) + k
  PROVE  Block(l, l, new)' /\ Size(new, l) = Len(spoken[l].frags)
<1>0. /\ file' = file \o d /\ (l = n \/ l = n + 1) /\ l \in 1..Len(spoken)
      /\ new \in [1..(l + 1) -> Nat] /\ new[l] = pos[l] /\ new[l + 1] = Len(file) + Len(d) + 1
  <2>1. l \in 1..Len(spoken) /\ Len(spoken) \in Nat
    BY SpokenTyped DEF Base, Adds
  <2>2. l \in 1..l
    BY <2>1
  <2> QED
    BY <2>1, <2>2 DEF Adds
<1>1. /\ TypeOK /\ n \in Nat /\ k \in 1..Len(queue) /\ Waits(k, l, n, pos) /\ Coherent(queue[k])
      /\ spoken' = spoken
  BY <1>0, WriteAt DEF Base, WriteRecord, pastVars
<1>2. /\ Len(file) \in Nat /\ DOMAIN file = 1..Len(file) /\ file \in Seq(Items)
      /\ d \in Seq(Items) /\ Len(d) \in Nat /\ DOMAIN d = 1..Len(d) /\ k \in Nat /\ l \in Nat
  BY <1>0, <1>1, QueueTyped, Waiting
<1>3. PICK frags \in Seq(Nat) : frags = spoken[l].frags /\ Len(frags) \in Nat
  BY <1>0, <1>1, SpokenTyped, Utterance
<1>4. /\ \A p \in 1..Len(file) : file'[p] = file[p]
      /\ \A p \in 1..Len(d) : file'[Len(file) + p] = d[p]
  BY <1>0, <1>2, Appending
<1>5. pos[n + 1] = Len(file) + 1
  BY DEF Tiled
<1>8. ASSUME Size(new, l) = Len(spoken[l].frags), Len(spoken[l].frags) \in Nat,
             file'[new[l]].what = "segment", file'[new[l]].user = spoken[l].user,
             \A j \in 1..Size(new, l) : /\ file'[new[l] + j].what = "fragment"
                                        /\ file'[new[l] + j].no = spoken[l].frags[j]
      PROVE  Block(l, l, new)' /\ Size(new, l) = Len(spoken[l].frags)
  <2>1. Size(new, l) <= Len(spoken[l].frags)
    BY <1>8
  <2>2. Size(new, l)' = Size(new, l)
    BY DEF Size
  <2> QED
    BY <1>1, <1>8, <2>1, <2>2 DEF Block
<1>6. CASE l = n + 1
  <2>1. Fresh(queue[k], frags)
    BY <1>1, <1>3, <1>6 DEF Waits
  <2>2. /\ Len(d) = Len(frags) + 1 /\ d[1].what = "segment"
        /\ \A j \in 1..Len(frags) : d[j + 1].what = "fragment" /\ d[j + 1].no = frags[j]
    BY <2>1 DEF Fresh
  <2>3. d[1].user = spoken[l].user
    <3>1. 1 \in DOMAIN queue[k].data
      BY <1>2, <1>3, <2>2
    <3>2. Of(queue[k], d[1])
      BY <1>1, <3>1 DEF Coherent
    <3> QED
      BY <1>1, <3>2 DEF Of, Waits
  <2>4. new[l] = Len(file) + 1 /\ Size(new, l) = Len(frags)
    <3>1. new[l] = Len(file) + 1
      BY <1>0, <1>5, <1>6
    <3> QED
      BY <1>0, <1>2, <1>3, <2>2, <3>1 DEF Size
  <2>5. file'[new[l]] = d[1]
    BY <1>2, <1>3, <1>4, <2>2, <2>4
  <2>6. ASSUME NEW j \in 1..Len(frags)
        PROVE  file'[new[l] + j].what = "fragment" /\ file'[new[l] + j].no = frags[j]
    <3>1. j + 1 \in 1..Len(d) /\ new[l] + j = Len(file) + (j + 1)
      BY <1>2, <1>3, <2>2, <2>4
    <3>2. file'[new[l] + j] = d[j + 1]
      BY <1>4, <3>1
    <3> QED
      BY <2>2, <3>2
  <2> QED
    <3>1. Size(new, l) = Len(spoken[l].frags) /\ Len(spoken[l].frags) \in Nat
      BY <1>3, <2>4
    <3>2. file'[new[l]].what = "segment" /\ file'[new[l]].user = spoken[l].user
      BY <2>2, <2>3, <2>5
    <3>3. \A j \in 1..Size(new, l) : /\ file'[new[l] + j].what = "fragment"
                                     /\ file'[new[l] + j].no = spoken[l].frags[j]
      BY <1>3, <2>4, <2>6
    <3> QED
      BY <1>8, <3>1, <3>2, <3>3
<1>7. CASE l = n
  <2>1. Begun(queue[k], frags, pos[l], Size(pos, l))
    BY <1>1, <1>3, <1>7 DEF Waits
  <2>2. /\ Len(frags) = Size(pos, l) + Len(d)
        /\ \A j \in 1..Len(d) : d[j].what = "fragment" /\ d[j].no = frags[Size(pos, l) + j]
    BY <2>1 DEF Begun
  <2>3. Block(l, n, pos) /\ l \in 1..n
    BY <1>0, <1>1, <1>7 DEF Tiled
  <2>4. /\ pos[l] \in Nat /\ pos[l] \in DOMAIN file /\ Size(pos, l) \in Nat
        /\ \A j \in 1..Size(pos, l) : pos[l] + j \in DOMAIN file
    BY <1>1, <2>3, Spots
  <2>5. Size(new, l) = Len(frags) /\ pos[l] + Size(pos, l) = Len(file)
    <3>1. Size(new, l) = (Len(file) + Len(d) + 1) - pos[l] - 1 /\ Size(pos, l) = (Len(file) + 1) - pos[l] - 1
      BY <1>0, <1>5, <1>7 DEF Size
    <3>2. /\ Len(file) \in Nat /\ Len(d) \in Nat /\ pos[l] \in Nat
          /\ Len(frags) = Size(pos, l) + Len(d)
      BY <1>2, <2>2, <2>4
    <3>3. PICK lf \in Nat, ld \in Nat, pl \in Nat : lf = Len(file) /\ ld = Len(d) /\ pl = pos[l]
      BY <3>2
    <3>4. PICK sn, sp, lr : sn = Size(new, l) /\ sp = Size(pos, l) /\ lr = Len(frags)
      OBVIOUS
    <3>5. sn = (lf + ld + 1) - pl - 1 /\ sp = (lf + 1) - pl - 1 /\ lr = sp + ld
      BY <3>1, <3>2, <3>3, <3>4
    <3>6. sn = lr /\ pl + sp = lf
      BY <3>5
    <3> QED
      BY <3>3, <3>4, <3>6
  <2>6. file'[new[l]].what = "segment" /\ file'[new[l]].user = spoken[l].user
    BY <1>0, <1>2, <1>4, <2>3, <2>4 DEF Block
  <2>7. ASSUME NEW j \in 1..Len(frags)
        PROVE  file'[new[l] + j].what = "fragment" /\ file'[new[l] + j].no = frags[j]
    <3>1. CASE j \in 1..Size(pos, l)
      <4>1. file[pos[l] + j].what = "fragment" /\ file[pos[l] + j].no = frags[j]
        BY <1>3, <2>3, <3>1 DEF Block
      <4>2. file'[new[l] + j] = file[pos[l] + j]
        BY <1>0, <1>2, <1>4, <2>4, <3>1
      <4> QED
        BY <4>1, <4>2
    <3>2. CASE j \notin 1..Size(pos, l)
      <4> DEFINE x == j - Size(pos, l)
      <4>1. x \in 1..Len(d) /\ Size(pos, l) + x = j /\ new[l] + j = Len(file) + x
        <5>1. /\ Size(pos, l) \in Nat /\ pos[l] \in Nat /\ Len(d) \in Nat /\ Len(file) \in Nat
              /\ Len(frags) = Size(pos, l) + Len(d) /\ new[l] = pos[l]
              /\ pos[l] + Size(pos, l) = Len(file)
          BY <1>0, <1>2, <2>2, <2>4, <2>5
        <5>2. j \in Nat /\ j > Size(pos, l) /\ j <= Len(frags)
          BY <1>3, <3>2, <5>1
        <5>3. PICK lf \in Nat, ld \in Nat, pl \in Nat, sp \in Nat, lr \in Nat :
                lf = Len(file) /\ ld = Len(d) /\ pl = pos[l] /\ sp = Size(pos, l) /\ lr = Len(frags)
          BY <1>3, <5>1
        <5>4. lr = sp + ld /\ pl + sp = lf /\ j \in Nat /\ j > sp /\ j <= lr
          BY <5>1, <5>2, <5>3
        <5>5. j - sp \in 1..ld /\ sp + (j - sp) = j /\ pl + j = lf + (j - sp)
          BY <5>4
        <5> QED
          BY <5>1, <5>3, <5>5
      <4> HIDE DEF x
      <4>2. file'[new[l] + j] = d[x]
        BY <1>4, <4>1
      <4> QED
        BY <2>2, <4>1, <4>2
    <3> QED
      BY <3>1, <3>2
  <2> QED
    <3>1. Size(new, l) = Len(spoken[l].frags) /\ Len(spoken[l].frags) \in Nat
      BY <1>3, <2>5
    <3>3. \A j \in 1..Size(new, l) : /\ file'[new[l] + j].what = "fragment"
                                     /\ file'[new[l] + j].no = spoken[l].frags[j]
      BY <1>3, <2>5, <2>7
    <3> QED
      BY <1>8, <2>6, <3>1, <3>3
<1> QED
  BY <1>0, <1>6, <1>7

\* What WriteRecord does to the record.
LEMMA WriteGives ==
  ASSUME TypeOK, Loops, WriteRecord, Writes
  PROVE  /\ file' = file \o queue[k].data /\ Len(queue') = Len(queue)
         /\ queue'[k].offset = (IF queue[k].offset = 0 THEN Len(file) + 1 ELSE queue[k].offset)
         /\ queue'[k].data = <<>> /\ queue'[k].count = queue[k].count
         /\ queue'[k].user = queue[k].user /\ queue'[k].index = queue[k].index
         /\ \A q \in 1..Len(queue) : q /= k => queue'[q] = queue[q]
<1>1. /\ queue \in Seq(Records) /\ Len(queue) \in Nat /\ DOMAIN queue = 1..Len(queue)
      /\ k \in DOMAIN queue
  BY QueueTyped DEF Loops, WriteRecord
<1>2. /\ queue' \in Seq(Records) /\ DOMAIN queue' = DOMAIN queue
      /\ \A p \in DOMAIN queue : p /= k => queue'[p] = queue[p]
      /\ file' = file \o queue[k].data
  BY WriteTypes
<1>3. Len(queue') = Len(queue)
  BY <1>1, <1>2
<1>4. PICK rec \in Records : rec = queue[k]
  BY <1>1, ElementOf
<1>5. PICK o : o = IF rec.offset = 0 THEN Len(file) + 1 ELSE rec.offset
  OBVIOUS
<1>6. queue'[k] = [rec EXCEPT !.offset = o, !.data = <<>>]
  BY <1>1, <1>4, <1>5 DEF WriteRecord
<1>7. /\ queue'[k].offset = o /\ queue'[k].data = <<>> /\ queue'[k].count = rec.count
      /\ queue'[k].user = rec.user /\ queue'[k].index = rec.index
  BY <1>6 DEF Records
<1> QED
  BY <1>1, <1>2, <1>3, <1>4, <1>5, <1>7

LEMMA WriteStory ==
  ASSUME Base, Flushed, NEW n, NEW m, NEW pos, Tiled(n, m, pos), Queued(n, m, pos), WriteRecord
  PROVE  \E l, new : Tiled(l, l, new)' /\ Queued(l, l, new)'
<1>1. /\ TypeOK /\ Loops /\ n \in Nat /\ n = m /\ n <= Len(spoken) /\ Len(table) <= n
      /\ Len(spoken) = Len(table) + Len(queue) /\ segcount = Len(spoken)
      /\ \A q \in 1..Len(queue) : Waits(q, Len(table) + q, n, pos)
      /\ \A r \in 1..Len(table) : Entry(r, pos)
      /\ Tiled(n, n, pos) /\ Queued(n, n, pos)
  BY DEF Base, Tiled, Queued
<1>2. table' = table /\ spoken' = spoken /\ segcount' = segcount /\ at = "write"
  BY DEF WriteRecord, pastVars
<1>3. CASE ~Writes
  <2>1. file' = file /\ queue' = queue
    BY <1>1, <1>3, WriteTypes
  <2>2. Tiled(n, n, pos)'
    BY <1>1, <1>2, <2>1 DEF Tiled, Block
  <2>3. Queued(n, n, pos)'
    BY <1>1, <1>2, <2>1 DEF Queued, Waits, Fresh, Begun, Entry
  <2> QED
    BY <2>2, <2>3
<1>4. CASE Writes
  <2>1. PICK d : d = queue[k].data
    OBVIOUS
  <2>2. /\ file' = file \o d /\ Len(queue') = Len(queue)
        /\ queue'[k].offset = (IF queue[k].offset = 0 THEN Len(file) + 1 ELSE queue[k].offset)
        /\ queue'[k].data = <<>> /\ queue'[k].count = queue[k].count
        /\ queue'[k].user = queue[k].user /\ queue'[k].index = queue[k].index
        /\ \A q \in 1..Len(queue) : q /= k => queue'[q] = queue[q]
    BY <1>1, <1>4, <2>1, WriteGives
  <2>3. /\ k \in 1..Len(queue) /\ Waits(k, Len(table) + k, n, pos)
        /\ Len(table) + k = n + 1 \/ (Len(table) + k <= n /\ k = 1 /\ Len(table) + k = n)
    BY WriteAt
  <2>4. PICK l : l = Len(table) + k
    OBVIOUS
  <2>5. /\ Len(table) \in Nat /\ Len(queue) \in Nat /\ k \in Nat /\ Len(file) \in Nat
        /\ file \in Seq(Items) /\ DOMAIN file = 1..Len(file) /\ Len(spoken) \in Nat
    BY <1>1, <2>3, QueueTyped, SpokenTyped
  <2>6. l \in Nat /\ l \in 1..Len(spoken) /\ l >= 1 /\ n <= l /\ (l = n \/ l = n + 1)
    BY <1>1, <2>3, <2>4, <2>5
  <2>7. d \in Seq(Items) /\ d /= <<>> /\ Len(d) \in Nat
    BY <1>1, <1>4, <2>1, <2>3, Waiting DEF Writes
  <2>8. /\ pos \in [1..(n + 1) -> Nat] /\ pos[n + 1] = Len(file) + 1
    BY <1>1 DEF Tiled
  <2> DEFINE fun == [i \in 1..(l + 1) |-> IF i <= l THEN pos[i] ELSE Len(file) + Len(d) + 1]
  <2>9. fun \in [1..(l + 1) -> Nat]
    <3>1. ASSUME NEW i \in 1..(l + 1), i <= l PROVE pos[i] \in Nat
      <4>1. i \in 1..(n + 1)
        BY <1>1, <2>6, <3>1
      <4> QED
        BY <2>8, <4>1
    <3> QED
      BY <2>5, <2>7, <3>1
  <2>10. PICK new \in [1..(l + 1) -> Nat] : new = fun
    BY <2>9
  <2>11. (\A i \in 1..l : new[i] = pos[i]) /\ new[l + 1] = Len(file) + Len(d) + 1
    BY <2>6, <2>10
  <2> HIDE DEF fun
  <2>12. new[l] = pos[l]
    BY <2>6, <2>11
  <2>13. Block(l, l, new)' /\ Size(new, l) = Len(spoken[l].frags)
    <3>1. Adds(n, pos, d, l, new)
      BY <2>2, <2>6, <2>7, <2>10, <2>11 DEF Adds
    <3> QED
      BY <1>1, <2>1, <2>4, <3>1, WrittenBlock
  <2>14. ASSUME NEW q \in 1..Len(queue), q < k PROVE queue[q].data = <<>>
    BY <1>1, <1>2, <2>14, QueueTyped DEF Flushed
  <2>15. ASSUME NEW i \in 1..n, i < l PROVE Size(pos, i) = Len(spoken[i].frags)
    <3>1. CASE i < n
      <4>1. Block(i, n, pos)
        BY <1>1 DEF Tiled
      <4> QED
        BY <3>1, <4>1 DEF Block
    <3>2. CASE i = n /\ i <= Len(table)
      <4>1. i \in 1..Len(table)
        BY <2>5, <3>2
      <4> QED
        BY <1>1, <4>1 DEF Entry
    <3>3. CASE i = n /\ i > Len(table)
      <4> DEFINE q == i - Len(table)
      <4>1. q \in 1..Len(queue) /\ q < k /\ Len(table) + q = i /\ i <= n
        BY <1>1, <2>3, <2>4, <2>5, <2>15, <3>3
      <4> HIDE DEF q
      <4>2. Waits(q, i, n, pos)
        BY <1>1, <4>1
      <4>3. Begun(queue[q], spoken[i].frags, pos[i], Size(pos, i))
        BY <4>1, <4>2 DEF Waits
      <4>4. Len(spoken[i].frags) = Size(pos, i) + 0
        BY <2>14, <4>1, <4>3 DEF Begun
      <4>5. Size(pos, i) \in Nat
        BY <1>1, Spots
      <4> QED
        BY <4>4, <4>5
    <3> QED
      BY <1>1, <2>5, <3>1, <3>2, <3>3
  <2>16. Tiled(l, l, new)'
    <3>1. Adds(n, pos, d, l, new)
      BY <2>2, <2>6, <2>7, <2>10, <2>11 DEF Adds
    <3>2. WholeBefore(n, pos, l)
      BY <2>15 DEF WholeBefore
    <3>3. Block(l, l, new)'
      BY <2>13
    <3> QED
      BY <1>1, <1>2, <3>1, <3>2, <3>3, TiledGrows
  <2>17. /\ \A p \in DOMAIN file : file'[p] = file[p]
    BY <2>2, <2>5, <2>7, Appending
  <2>18. ASSUME NEW r \in 1..Len(table) PROVE Entry(r, new)'
    <3>1. r \in 1..n /\ r \in 1..l /\ r + 1 \in 1..l
      BY <1>1, <2>3, <2>4, <2>5, <2>6
    <3>2. pos[r] \in DOMAIN file
      BY <1>1, <3>1, Spots
    <3>3. new[r] = pos[r] /\ new[r + 1] = pos[r + 1]
      BY <2>11, <3>1
    <3>4. Entry(r, pos)
      BY <1>1
    <3> QED
      BY <1>2, <2>17, <3>2, <3>3, <3>4 DEF Entry, Size
  <2>19. ASSUME NEW q \in 1..Len(queue') PROVE Waits(q, Len(table) + q, l, new)'
    <3>1. q \in 1..Len(queue) /\ Waits(q, Len(table) + q, n, pos)
      BY <1>1, <2>2
    <3>2. CASE q < k
      <4>1. Len(table) + q \in 1..n /\ Len(table) + q <= n /\ Len(table) + q < l /\ ~(Len(table) + q > l)
            /\ Len(table) + q \in 1..l /\ Len(table) + q + 1 \in 1..l
        BY <1>1, <2>4, <2>5, <2>6, <3>1, <3>2
      <4>2. new[Len(table) + q] = pos[Len(table) + q] /\ new[Len(table) + q + 1] = pos[Len(table) + q + 1]
        BY <2>11, <4>1
      <4>3. queue'[q] = queue[q]
        BY <2>2, <2>5, <3>1, <3>2
      <4> QED
        BY <1>2, <3>1, <4>1, <4>2, <4>3 DEF Waits, Size
    <3>3. CASE q > k
      <4>1. Len(table) + q > n /\ Len(table) + q > l /\ ~(Len(table) + q <= l)
        BY <1>1, <2>4, <2>5, <2>6, <3>1, <3>3
      <4>2. queue'[q] = queue[q]
        BY <2>2, <2>5, <3>1, <3>3
      <4> QED
        BY <1>2, <3>1, <4>1, <4>2 DEF Waits
    <3>4. CASE q = k
      <4>1. Len(table) + q = l
        BY <2>4, <3>4
      <4>2. /\ queue[q].index = l - 1 /\ queue[q].user = spoken[l].user
            /\ queue[q].count = Len(spoken[l].frags)
        BY <3>1, <4>1 DEF Waits
      <4>3. queue'[k].offset = new[l]
        <5>1. CASE l = n
          <6>1. queue[k].offset = pos[l] /\ l \in 1..n
            BY <2>3, <2>4, <2>6, <5>1 DEF Waits, Begun
          <6>2. pos[l] >= 1 /\ pos[l] \in Nat
            BY <1>1, <6>1, Spots
          <6> QED
            BY <2>2, <2>12, <6>1, <6>2
        <5>2. CASE l = n + 1
          <6>1. queue[k].offset = 0
            BY <1>1, <2>3, <2>4, <5>2 DEF Waits, Fresh
          <6> QED
            BY <2>2, <2>8, <2>12, <5>2, <6>1
        <5> QED
          BY <2>6, <5>1, <5>2
      <4>4. Begun(queue'[q], spoken[l].frags, new[l], Size(new, l))
        <5>1. PICK frags \in Seq(Nat) : frags = spoken[l].frags
          BY <2>6, SpokenTyped, <1>1, Utterance
        <5>2. Len(frags) = Size(new, l) + 0 /\ Len(frags) \in Nat
          BY <2>13, <5>1
        <5>3. queue'[q].data = <<>> /\ queue'[q].offset = new[l]
          BY <2>2, <3>4, <4>3
        <5>4. Len(<<>>) = 0 /\ \A j \in 1..0 : FALSE
          OBVIOUS
        <5>5. Begun(queue'[q], frags, new[l], Size(new, l))
          BY <5>2, <5>3, <5>4 DEF Begun
        <5> QED
          BY <5>1, <5>5
      <4>5. ~(l > l) /\ l <= l
        BY <2>6
      <4> QED
        BY <1>2, <2>2, <3>4, <4>1, <4>2, <4>4, <4>5 DEF Waits, Size
    <3> QED
      BY <2>5, <3>1, <3>2, <3>3, <3>4
  <2>20. /\ segcount' = Len(spoken') /\ segcount' = Len(table') + Len(queue') /\ Len(table') <= l
    BY <1>1, <1>2, <2>2, <2>5, <2>6
  <2>21. Queued(l, l, new)'
    BY <1>2, <2>18, <2>19, <2>20 DEF Queued
  <2> QED
    BY <2>16, <2>21
<1> QED
  BY <1>3, <1>4

\* The head of the queue, when it leaves, has been written to its end.
LEMMA RetireStory ==
  ASSUME Base, Flushed, NEW n, NEW m, NEW pos, Tiled(n, m, pos), Queued(n, m, pos), Retire
  PROVE  SameItems /\ spoken' = spoken /\ Queued(n, m, pos)'
<1>1. /\ TypeOK /\ Layout /\ n \in Nat /\ n = m /\ segcount = Len(spoken) /\ n <= Len(spoken)
      /\ Len(spoken) = Len(table) + Len(queue) /\ Len(table) <= n
      /\ \A q \in 1..Len(queue) : Waits(q, Len(table) + q, n, pos)
      /\ \A r \in 1..Len(table) : Entry(r, pos)
  BY DEF Base, FileInv, Tiled, Queued
<1>2. /\ queue \in Seq(Records) /\ Len(queue) \in Nat /\ DOMAIN queue = 1..Len(queue)
      /\ table \in Seq(Items) /\ Len(table) \in Nat /\ DOMAIN table = 1..Len(table)
      /\ DOMAIN file = 1..Len(file) /\ Len(file) \in Nat
  BY <1>1, QueueTyped
<1>3. /\ at = "retire" /\ queue /= <<>> /\ queue[1].stopped /\ spoken' = spoken
      /\ segcount' = segcount
      /\ table' = Append(table, Row(queue[1].type, queue[1].user, queue[1].index, queue[1].offset))
      /\ file' = [file EXCEPT ![queue[1].offset].count = queue[1].count]
      /\ queue' = Tail(queue)
  BY DEF Retire, pastVars
<1>4. 1 \in 1..Len(queue)
  BY <1>2, <1>3
<1>5. SameItems
  BY <1>1, RetireTypes, CountsSame
<1> DEFINE t == Len(table) + 1
<1>6. t \in Nat /\ t \in 1..Len(spoken) /\ Waits(1, t, n, pos)
  BY <1>1, <1>2, <1>4
<1>7. queue[1].offset /= 0 /\ queue[1].data = <<>>
  <2>1. queue[1].offset /= 0
    <3>1. \A j \in 1..1 : queue[j].stopped
      BY <1>3
    <3> QED
      BY <1>2, <1>3, <1>4, <3>1 DEF Flushed
  <2> QED
    BY <1>2, <1>3, <1>4, <2>1 DEF Flushed
<1>8. t <= n
  <2>1. t > n => queue[1].offset = 0
    BY <1>6 DEF Waits, Fresh
  <2> QED
    BY <1>1, <1>6, <1>7, <2>1
<1>9. t \in 1..m /\ t + 1 \in 1..(m + 1)
  BY <1>1, <1>6, <1>8
<1>10. /\ pos[t] \in DOMAIN file /\ Size(pos, t) \in Nat
  BY <1>1, <1>9, Spots
<1>11. /\ queue[1].offset = pos[t] /\ queue[1].user = spoken[t].user
       /\ queue[1].count = Size(pos, t) /\ Size(pos, t) = Len(spoken[t].frags)
  <2>1. Begun(queue[1], spoken[t].frags, pos[t], Size(pos, t)) /\ queue[1].user = spoken[t].user
        /\ queue[1].count = Len(spoken[t].frags)
    BY <1>6, <1>8 DEF Waits
  <2>2. queue[1].offset = pos[t] /\ Len(spoken[t].frags) = Size(pos, t) + 0
    BY <1>7, <2>1 DEF Begun
  <2> QED
    BY <1>10, <2>1, <2>2
<1> HIDE DEF t
<1>12. file'[pos[t]].count = Size(pos, t)
  <2>1. PICK it \in Items : it = file[pos[t]]
    BY <1>1, <1>10, ElementOf, QueueTyped
  <2>2. PICK c : c = Size(pos, t)
    OBVIOUS
  <2>3. file'[pos[t]] = [it EXCEPT !.count = c]
    BY <1>3, <1>10, <1>11, <2>1, <2>2
  <2>4. file'[pos[t]].count = c
    BY <2>3 DEF Items
  <2> QED
    BY <2>2, <2>4
<1>13. PICK row : row = Row(queue[1].type, queue[1].user, queue[1].index, queue[1].offset)
  OBVIOUS
<1>14. row.no = pos[t] /\ row.user = spoken[t].user
  BY <1>11, <1>13 DEF Row
<1>15. /\ table' = Append(table, row) /\ Len(table') = t /\ table'[t] = row
       /\ \A r \in 1..Len(table) : table'[r] = table[r]
  BY <1>2, <1>3, <1>13 DEF t
<1>16. ASSUME NEW r \in 1..Len(table') PROVE Entry(r, pos)'
  <2>1. CASE r = t
    BY <1>3, <1>11, <1>12, <1>14, <1>15, <2>1 DEF Entry, Size
  <2>2. CASE r /= t
    <3>1. r \in 1..Len(table) /\ r < t /\ r \in 1..m
      BY <1>1, <1>2, <1>15, <2>2 DEF t
    <3>2. pos[r] /= pos[t]
      <4>1. r \in 1..(m + 1) /\ t \in 1..(m + 1) /\ \A i, j \in 1..(m + 1) : i < j => pos[i] < pos[j]
        BY <1>1, <1>6, <1>9, <3>1 DEF Tiled
      <4>2. pos[r] < pos[t]
        BY <3>1, <4>1
      <4>3. pos[r] \in Nat /\ pos[t] \in Nat
        BY <1>1, <1>9, <3>1, Spots
      <4> QED
        BY <4>2, <4>3
    <3>3. pos[r] \in DOMAIN file
      BY <1>1, <3>1, Spots
    <3>4. file'[pos[r]] = file[pos[r]]
      BY <1>3, <1>11, <3>2, <3>3
    <3>5. table'[r] = table[r] /\ Entry(r, pos)
      BY <1>1, <1>15, <3>1
    <3> QED
      BY <1>3, <3>4, <3>5 DEF Entry, Size
  <2> QED
    BY <2>1, <2>2
<1>17. Len(queue') = Len(queue) - 1 /\ \A q \in 1..Len(queue') : queue'[q] = queue[q + 1]
  BY <1>2, <1>3
<1>18. ASSUME NEW q \in 1..Len(queue') PROVE Waits(q, Len(table) + q, n, pos)'
  <2>1. q + 1 \in 1..Len(queue) /\ Len(table') + q = Len(table) + (q + 1) /\ queue'[q] = queue[q + 1]
    BY <1>2, <1>15, <1>17 DEF t
  <2>2. PICK i : i = Len(table) + (q + 1)
    OBVIOUS
  <2>3. Waits(q + 1, i, n, pos)
    BY <1>1, <2>1, <2>2
  <2>4. Waits(q, i, n, pos)'
    BY <1>3, <2>1, <2>3 DEF Waits, Size
  <2> QED
    BY <2>1, <2>2, <2>4
<1>19. /\ segcount' = Len(spoken') /\ segcount' = Len(table') + Len(queue') /\ Len(table') <= n
  <2>1. /\ Len(table') = t /\ Len(queue') = Len(queue) - 1 /\ t = Len(table) + 1
        /\ segcount' = segcount /\ spoken' = spoken /\ segcount = Len(spoken)
        /\ Len(spoken) = Len(table) + Len(queue)
    BY <1>1, <1>3, <1>15, <1>17 DEF t
  <2>2. PICK lt \in Nat, lq \in Nat : lt = Len(table) /\ lq = Len(queue)
    BY <1>2
  <2>3. (lt + 1) + (lq - 1) = lt + lq
    BY <2>2
  <2> QED
    BY <1>8, <2>1, <2>2, <2>3
<1> QED
  BY <1>1, <1>3, <1>5, <1>16, <1>18, <1>19 DEF Queued
-----------------------------------------------------------------------------
(* Nothing that can be written is kept back.                               *)

LEMMA WriteFlushed ==
  ASSUME TypeOK, Loops, Layout, Flushed, WriteRecord PROVE Flushed'
<1>1. /\ at = "write" /\ k \in DOMAIN queue /\ DOMAIN queue = 1..Len(queue) /\ Len(queue) \in Nat
      /\ k \in Nat /\ Coherent(queue[k])
  BY QueueTyped DEF WriteRecord, Loops, Layout
<1>2. \A q \in DOMAIN queue : q < k => queue[q].data = <<>>
  BY <1>1 DEF Flushed
<1>3. /\ DOMAIN queue' = DOMAIN queue
      /\ \A p \in DOMAIN queue : p /= k => queue'[p] = queue[p]
      /\ ~Writes => queue' = queue
      /\ Writes => queue'[k].offset /= 0 /\ queue'[k].data = <<>>
      /\ queue'[k].stopped = queue[k].stopped
  BY WriteTypes
<1>4. \A q \in DOMAIN queue : /\ q < k => queue[q].offset /= 0
                              /\ q > 1 /\ q >= k => queue[q].offset = 0
  BY <1>1 DEF Layout, Progress
<1>5. CASE GoesOn
  <2>1. at' = "write" /\ k' = k + 1
    BY <1>5 DEF WriteRecord
  <2>2. queue'[k].data = <<>>
    BY <1>3, <1>5 DEF Writes, GoesOn
  <2>3. ASSUME NEW q \in DOMAIN queue', q < k' PROVE queue'[q].data = <<>>
    <3>1. q = k \/ q < k
      BY <1>1, <1>3, <2>1, <2>3
    <3> QED
      BY <1>1, <1>2, <1>3, <2>2, <3>1
  <2> QED
    BY <2>1, <2>3 DEF Flushed
<1>6. CASE ~GoesOn
  <2>1. at' = "retire"
    BY <1>6 DEF WriteRecord
  <2>2. ASSUME NEW q \in DOMAIN queue', queue'[q].offset /= 0 PROVE queue'[q].data = <<>>
    <3>1. CASE q < k
      BY <1>1, <1>2, <1>3, <3>1
    <3>2. CASE q = k
      <4>1. k > 1 /\ ~Writes => FALSE
        BY <1>1, <1>3, <1>4, <2>2, <3>2
      <4>2. k = 1 => queue'[k].data = <<>>
        BY <1>3 DEF Writes
      <4> QED
        BY <1>1, <1>3, <3>2, <4>1, <4>2
    <3>3. CASE q > k
      <4>1. q > 1 /\ q >= k /\ q /= k /\ q \in DOMAIN queue
        BY <1>1, <1>3, <3>3
      <4> QED
        BY <1>3, <1>4, <2>2, <4>1
    <3> QED
      BY <1>1, <1>3, <3>1, <3>2, <3>3
  <2>3. ASSUME NEW q \in DOMAIN queue', \A j \in 1..q : queue'[j].stopped
        PROVE  queue'[q].offset /= 0
    <3>1. CASE q < k
      BY <1>1, <1>3, <1>4, <3>1
    <3>2. CASE q = k
      <4>1. queue[k].stopped
        BY <1>1, <1>3, <2>3, <3>2
      <4>2. ~Writes => queue[k].data = <<>>
        BY <4>1 DEF Writes
      <4>3. queue[k].data = <<>> => queue[k].offset /= 0
        BY <1>1 DEF Coherent
      <4> QED
        BY <1>3, <3>2, <4>2, <4>3
    <3>3. CASE q > k
      <4>1. k \in 1..q /\ k < Len(queue)
        BY <1>1, <1>3, <3>3
      <4>2. queue[k].stopped
        BY <1>3, <2>3, <4>1
      <4> QED
        BY <1>6, <4>1, <4>2 DEF GoesOn
    <3> QED
      BY <1>1, <1>3, <3>1, <3>2, <3>3
  <2> QED
    BY <2>1, <2>2, <2>3 DEF Flushed
<1> QED
  BY <1>5, <1>6

LEMMA RetireFlushed ==
  ASSUME TypeOK, Flushed, Retire PROVE Flushed'
<1>1. /\ at = "retire" /\ at' = "retire" /\ queue[1].stopped
      /\ DOMAIN queue = 1..Len(queue) /\ Len(queue) \in Nat
      /\ \A p \in DOMAIN queue' : p + 1 \in DOMAIN queue /\ queue'[p] = queue[p + 1]
      /\ queue' \in Seq(Records)
  BY QueueTyped, RetireTypes DEF Retire
<1>2. DOMAIN queue' = 1..Len(queue') /\ Len(queue') \in Nat
  BY <1>1
<1>3. ASSUME NEW q \in DOMAIN queue', queue'[q].offset /= 0 PROVE queue'[q].data = <<>>
  BY <1>1, <1>3 DEF Flushed
<1>4. ASSUME NEW q \in DOMAIN queue', \A j \in 1..q : queue'[j].stopped PROVE queue'[q].offset /= 0
  <2>1. ASSUME NEW j \in 1..(q + 1) PROVE queue[j].stopped
    <3>1. CASE j = 1
      BY <1>1, <3>1
    <3>2. CASE j /= 1
      <4>1. j - 1 \in 1..q /\ j - 1 \in DOMAIN queue' /\ (j - 1) + 1 = j
        BY <1>2, <3>2
      <4> QED
        BY <1>1, <1>4, <4>1
    <3> QED
      BY <3>1, <3>2
  <2> QED
    BY <1>1, <2>1 DEF Flushed
<1> QED
  BY <1>1, <1>3, <1>4 DEF Flushed

LEMMA FlushedStep == TypeOK /\ Loops /\ Modes /\ Layout /\ Flushed /\ [Next]_vars => Flushed'
<1> SUFFICES ASSUME TypeOK, Loops, Modes, Layout, Flushed, [Next]_vars PROVE Flushed'
  OBVIOUS
<1> USE DEF handleVars
<1>1. CASE WriteRecord
  BY <1>1, WriteFlushed
<1>2. CASE Retire
  BY <1>2, RetireFlushed
<1>3. CASE EventLock \/ StopLock
  <2>1. CASE BeginWriting("net") \/ BeginWriting("ui")
    <3>1. \A q \in DOMAIN queue' : q >= 1
      <4>1. queue' \in Seq(Records)
        BY <1>3, LockTypes
      <4> QED
        BY <4>1
    <3>2. k' = 1 /\ (at' = "write" \/ (at' = "retire" /\ queue' = <<>>))
      BY <2>1 DEF BeginWriting
    <3>3. at' = "write" => \A q \in DOMAIN queue' : ~(q < k')
      <4>1. \A q \in DOMAIN queue' : q \in Nat
        <5>1. queue' \in Seq(Records)
          BY <1>3, LockTypes
        <5> QED
          BY <5>1
      <4> QED
        BY <3>1, <3>2, <4>1
    <3> QED
      BY <3>2, <3>3 DEF Flushed
  <2>2. CASE ~(BeginWriting("net") \/ BeginWriting("ui"))
    <3>1. UNCHANGED <<at, k, queue>>
      BY <1>3, <2>2 DEF EventLock, StopLock
    <3> QED
      BY <3>1 DEF Flushed
  <2> QED
    BY <2>1, <2>2
<1>4. CASE EventEnd
  <2>1. at = "retire" /\ at' \in {"idle", "table"} /\ queue' = queue
    BY <1>4 DEF EventEnd
  <2> QED
    BY <2>1 DEF Flushed
<1>5. CASE FinishHeader \/ Crash \/ ScanFails
  <2>1. queue' = <<>> /\ at' = "idle"
    BY <1>5 DEF FinishHeader, Crash, ScanFails, Forget, Modes
  <2> QED
    BY <2>1 DEF Flushed
<1>6. CASE FinishTable \/ Recover \/ ScanSegment \/ ScanFragment \/ ScanEnd \/ FixHeader
  <2>1. at' \in {"header", "scan", "table", "fix"}
    BY <1>6 DEF FinishTable, Recover, ScanSegment, ScanFragment, ScanEnd, FixHeader
  <2> QED
    BY <2>1 DEF Flushed
<1>7. CASE RecordStart \/ EventCheck \/ RecordStop \/ UNCHANGED vars
  <2>1. UNCHANGED <<at, k, queue>>
    BY <1>7 DEF RecordStart, EventCheck, RecordStop, vars
  <2> QED
    BY <2>1 DEF Flushed
<1> QED
  BY <1>1, <1>2, <1>3, <1>4, <1>5, <1>6, <1>7 DEF Next

LEMMA PhasesStep == TypeOK /\ Modes /\ Phases /\ [Next]_vars => Phases'
<1> SUFFICES ASSUME TypeOK, Modes, Phases, [Next]_vars PROVE Phases'
  OBVIOUS
<1> USE DEF handleVars, pastVars
<1>1. CASE RecordStart \/ FinishHeader
  BY <1>1 DEF RecordStart, FinishHeader, Phases
<1>2. CASE Crash
  <2>1. crashes' /= 0
    BY <1>2 DEF Crash, TypeOK
  <2> QED
    BY <1>2, <2>1 DEF Crash, Forget, Phases
<1>3. CASE EventLock \/ StopLock
  <2>1. /\ UNCHANGED <<disk, recording, crashes>>
        /\ at' = at \/ recording
    BY <1>3 DEF EventLock, StopLock, BeginWriting, Modes
  <2> QED
    BY <2>1 DEF Phases
<1>4. CASE \/ EventCheck \/ WriteRecord \/ Retire \/ EventEnd \/ RecordStop \/ FinishTable
           \/ Recover \/ ScanSegment \/ ScanFragment \/ ScanEnd \/ FixHeader \/ UNCHANGED vars
  <2>1. /\ UNCHANGED <<disk, recording, crashes>>
        /\ at /= "idle" \/ recording \/ at' = at \/ disk.headid = "TEMPRECD"
    BY <1>4 DEF EventCheck, WriteRecord, Retire, EventEnd, RecordStop, FinishTable,
       Recover, ScanSegment, ScanFragment, ScanEnd, FixHeader, vars
  <2> QED
    BY <2>1 DEF Phases
<1>5. CASE ScanFails
  BY <1>5 DEF ScanFails, Forget, Phases, Modes
<1> QED
  BY <1>1, <1>2, <1>3, <1>4, <1>5 DEF Next
-----------------------------------------------------------------------------
(* The recording.                                                          *)

LEMMA TiledSame ==
  ASSUME TypeOK, TypeOK', UNCHANGED <<file, spoken>>, NEW n, NEW m, NEW pos, Tiled(n, m, pos)
  PROVE  Tiled(n, m, pos)'
<1>1. SameItems /\ SpokenGrows(n)
  BY SpokenSame DEF SameItems
<1> QED
  BY <1>1, TiledKept

LEMMA QueuedSame ==
  ASSUME UNCHANGED <<file, spoken, table, queue, segcount>>, NEW n, NEW m, NEW pos, Queued(n, m, pos)
  PROVE  Queued(n, m, pos)'
BY DEF Queued, Entry, Waits, Size

LEMMA RunsOn ==
  ASSUME Modes, Phases, [Next]_vars, Running'
  PROVE  /\ Running
         /\ \/ EventLock \/ StopLock \/ WriteRecord \/ Retire
            \/ UNCHANGED <<file, spoken, table, queue, segcount>>
<1> USE DEF handleVars, pastVars
<1>1. CASE \/ RecordStart \/ EventCheck \/ EventEnd \/ RecordStop \/ UNCHANGED vars
  BY <1>1 DEF RecordStart, EventCheck, EventEnd, RecordStop, vars, Running
<1>2. CASE EventLock \/ StopLock \/ WriteRecord \/ Retire
  <2>1. UNCHANGED <<disk, recording>>
    BY <1>2 DEF EventLock, StopLock, WriteRecord, Retire
  <2>2. at = "header" => at' = "header"
    BY <1>2 DEF EventLock, StopLock, WriteRecord, Retire, Modes
  <2>3. Running
    BY <2>1, <2>2 DEF Running
  <2> QED
    BY <1>2, <2>3
<1>3. CASE \/ FinishTable \/ FinishHeader \/ Crash \/ Recover \/ ScanSegment \/ ScanFragment
           \/ ScanFails \/ ScanEnd \/ FixHeader
  BY <1>3 DEF FinishTable, FinishHeader, Crash, Recover, ScanSegment, ScanFragment,
     ScanFails, ScanEnd, FixHeader, Forget, Running, Modes, Phases
<1> QED
  BY <1>1, <1>2, <1>3 DEF Next

LEMMA RunningStep ==
  ASSUME Base, TypeOK', Phases, Flushed, [Next]_vars, Running',
         NEW n, NEW m, NEW pos, Tiled(n, m, pos), Running => Queued(n, m, pos)
  PROVE  \E n2, m2, pos2 : Tiled(n2, m2, pos2)' /\ Queued(n2, m2, pos2)'
<1>1. TypeOK /\ Modes /\ Queued(n, m, pos)
  BY RunsOn DEF Base
<1>2. CASE UNCHANGED <<file, spoken, table, queue, segcount>>
  BY <1>1, <1>2, TiledSame, QueuedSame
<1>3. CASE EventLock \/ StopLock
  <2>1. CASE UNCHANGED <<file, spoken, table, queue, segcount>>
    BY <1>2, <2>1
  <2>2. CASE ~UNCHANGED <<file, spoken, table, queue, segcount>>
    <3>1. UNCHANGED <<file, table>>
      BY <1>3 DEF EventLock, StopLock
    <3>2. SpokenGrows(n) /\ Queued(n, m, pos)'
      <4>1. CASE EventLock
        <5>1. PICK r \in pending : recording /\ owner = "nobody" /\ (Enqueue(r.event, r.user) \/ Enqueue("flush", r.user))
          BY <2>2, <3>1, <4>1 DEF EventLock
        <5>2. r.user \in Users
          BY <1>1 DEF TypeOK, Requests
        <5>3. at = "idle"
          BY <1>1, <5>1 DEF Modes
        <5> QED
          BY <1>1, <3>1, <5>1, <5>2, <5>3, EnqueueStory
      <4>2. CASE StopLock
        <5>1. StopRecords(DOMAIN queue)
          BY <4>2 DEF StopLock
        <5> QED
          BY <1>1, <3>1, <5>1, StopStory
      <4> QED
        BY <1>3, <4>1, <4>2
    <3>3. SameItems
      BY <3>1 DEF SameItems
    <3> QED
      BY <1>1, <3>2, <3>3, TiledKept
  <2> QED
    BY <2>1, <2>2
<1>4. CASE WriteRecord
  <2>1. PICK l, new : Tiled(l, l, new)' /\ Queued(l, l, new)'
    BY <1>1, <1>4, WriteStory
  <2> QED
    BY <2>1
<1>5. CASE Retire
  <2>1. SameItems /\ spoken' = spoken /\ Queued(n, m, pos)'
    BY <1>1, <1>5, RetireStory
  <2> QED
    BY <1>1, <2>1, SpokenSame, TiledKept
<1> QED
  BY <1>2, <1>3, <1>4, <1>5, <1>1, RunsOn
-----------------------------------------------------------------------------
(* The recovery.                                                           *)

LEMMA FitsBefore ==
  ASSUME TypeOK, TypeOK', Loops, Modes, FileInv, [Next]_vars, FragmentsFit'
  PROVE  FragmentsFit
<1>1. DOMAIN file = 1..Len(file) /\ DOMAIN file' = 1..Len(file') /\ Len(file) \in Nat /\ Len(file') \in Nat
      /\ file \in Seq(Items)
  BY DEF TypeOK
<1>2. \/ UNCHANGED file
      \/ /\ Len(file) <= Len(file')
         /\ \A p \in DOMAIN file : file'[p] = [file[p] EXCEPT !.count = file'[p].count]
  BY StepAppends
<1>3. CASE UNCHANGED file
  BY <1>3 DEF FragmentsFit
<1>4. CASE /\ Len(file) <= Len(file')
           /\ \A p \in DOMAIN file : file'[p] = [file[p] EXCEPT !.count = file'[p].count]
  <2>1. ASSUME NEW p \in DOMAIN file
        PROVE  p \in DOMAIN file' /\ file'[p].what = file[p].what /\ file'[p].type = file[p].type
    <3>1. PICK it \in Items : it = file[p]
      BY <1>1, ElementOf
    <3>2. PICK c : file'[p] = [it EXCEPT !.count = c]
      BY <1>4, <3>1
    <3>3. file'[p].what = it.what /\ file'[p].type = it.type
      BY <3>2 DEF Items
    <3> QED
      BY <1>1, <1>4, <3>1, <3>3
  <2>2. ASSUME NEW p \in DOMAIN file, file[p].what = "fragment"
        PROVE  file[p].type = file[p - 1].type
    <3>1. p > 1
      BY <2>2 DEF FileInv, Contiguous
    <3>2. p - 1 \in DOMAIN file
      BY <1>1, <3>1
    <3> QED
      BY <2>1, <2>2, <3>2 DEF FragmentsFit
  <2> QED
    BY <2>2 DEF FragmentsFit
<1> QED
  BY <1>2, <1>3, <1>4

\* Distinct headers are distinct items.
LEMMA Apart ==
  ASSUME TypeOK, NEW n, NEW m, NEW pos, Tiled(n, m, pos), NEW i \in 1..(m + 1), NEW j \in 1..(m + 1),
         i < j
  PROVE  pos[i] < pos[j] /\ pos[i] \in Nat /\ pos[j] \in Nat
BY DEF Tiled

\* Where there is no fragment an utterance, a row or the end of the file begins.
LEMMA SpotIsHeader ==
  ASSUME TypeOK, NEW n, NEW m, NEW pos, Tiled(n, m, pos), NEW i \in 1..m, NEW p \in Nat,
         pos[i] < p, p <= pos[i + 1]
  PROVE  IF p \in DOMAIN file /\ file[p].what = "fragment" THEN p < pos[i + 1] ELSE p = pos[i + 1]
<1>1. /\ m \in Nat /\ n \in Nat /\ pos[i] \in Nat /\ pos[i + 1] \in Nat
      /\ pos[i + 1] <= Len(file) + 1 /\ pos[m + 1] = Len(file) + 1
      /\ DOMAIN file = 1..Len(file) /\ Len(file) \in Nat /\ pos[i] >= 1 /\ pos[i] < pos[i + 1]
  BY Spots, QueueTyped DEF Tiled
<1>2. ASSUME p \in DOMAIN file, p = pos[i + 1] PROVE file[p].what /= "fragment"
  <2>1. i + 1 \in 1..m
    <3>1. i /= m
      BY <1>1, <1>2
    <3> QED
      BY <1>1, <3>1
  <2>2. CASE i + 1 <= n
    <3>1. i + 1 \in 1..n
      BY <1>1, <2>1, <2>2
    <3>2. Block(i + 1, n, pos)
      BY <3>1 DEF Tiled
    <3> QED
      BY <1>2, <3>2 DEF Block
  <2>3. CASE i + 1 > n
    <3>1. i + 1 \in (n + 1)..m
      BY <1>1, <2>1, <2>3
    <3>2. \A r \in (n + 1)..m : pos[r + 1] = pos[r] + 1 /\ file[pos[r]].what = "row"
      BY DEF Tiled
    <3> QED
      BY <1>2, <3>1, <3>2
  <2> QED
    BY <1>1, <2>2, <2>3
<1>3. ASSUME p /= pos[i + 1] PROVE p \in DOMAIN file /\ file[p].what = "fragment"
  <2>1. p \in DOMAIN file /\ p < pos[i + 1]
    BY <1>1, <1>3
  <2>2. i <= n
    <3>1. ASSUME i > n PROVE FALSE
      <4>1. i \in (n + 1)..m
        BY <1>1, <3>1
      <4>2. \A r \in (n + 1)..m : pos[r + 1] = pos[r] + 1 /\ file[pos[r]].what = "row"
        BY DEF Tiled
      <4>3. pos[i + 1] = pos[i] + 1
        BY <4>1, <4>2
      <4> QED
        BY <1>1, <2>1, <4>3
    <3> QED
      BY <1>1, <3>1
  <2>3. i \in 1..n
    BY <1>1, <2>2
  <2>4. Block(i, n, pos)
    BY <2>3 DEF Tiled
  <2>5. PICK j : j = p - pos[i]
    OBVIOUS
  <2>6. j \in 1..Size(pos, i) /\ pos[i] + j = p
    BY <1>1, <2>1, <2>5, SMTT(30) DEF Size
  <2>7. file[pos[i] + j].what = "fragment"
    BY <2>4, <2>6 DEF Block
  <2> QED
    BY <2>1, <2>6, <2>7
<1>4. p < pos[i + 1] \/ p = pos[i + 1]
  BY <1>1
<1>5. ~(p < pos[i + 1] /\ p = pos[i + 1])
  BY <1>1
<1> QED
  BY <1>2, <1>3, <1>4, <1>5

\* Of a header at the r-th position.
LEMMA HeaderAbout ==
  ASSUME TypeOK, NEW n, NEW m, NEW pos, Tiled(n, m, pos), NEW r \in 1..m
  PROVE  r <= n => file[pos[r]].user = spoken[r].user
<1>1. ASSUME r <= n PROVE r \in 1..n
  BY <1>1 DEF Tiled
<1>2. ASSUME r <= n PROVE Block(r, n, pos)
  BY <1>1, <1>2 DEF Tiled
<1> QED
  BY <1>2 DEF Block

LEMMA SegmentStory ==
  ASSUME TypeOK, TypeOK', Loops, NEW n, NEW m, NEW pos, Tiled(n, m, pos), Scanned(n, m, pos), ScanSegment
  PROVE  Scanned(n, m, pos)'
<1>1. /\ at = "scan" /\ k <= Len(file) /\ file[k].what /= "fragment"
      /\ table' = Append(table, Row(file[k].type, file[k].user, segcount, k))
      /\ segcount' = segcount + 1 /\ k' = k + 1 /\ file' = file /\ spoken' = spoken /\ at' = at
  BY DEF ScanSegment, pastVars
<1>2. /\ segcount <= m /\ (segcount = 0 => k = 1)
      /\ segcount > 0 => pos[segcount] < k /\ k <= pos[segcount + 1]
                         /\ table[segcount].count = k - pos[segcount] - 1
      /\ \A r \in 1..segcount : /\ About(r, n, pos)
                                /\ r < segcount => table[r].count = Size(pos, r)
  BY <1>1 DEF Scanned
<1>3. /\ segcount \in Nat /\ m \in Nat /\ n \in Nat /\ k \in Nat /\ k >= 1 /\ Len(table) = segcount
      /\ table \in Seq(Items) /\ DOMAIN table = 1..segcount /\ DOMAIN file = 1..Len(file)
      /\ Len(file) \in Nat /\ pos[1] = 1 /\ pos[m + 1] = Len(file) + 1
  BY <1>1, QueueTyped DEF Loops, TypeOK, Tiled
<1>4. k = pos[segcount + 1]
  <2>1. CASE segcount = 0
    BY <1>2, <1>3, <2>1
  <2>2. CASE segcount > 0
    <3>1. segcount \in 1..m
      BY <1>2, <1>3, <2>2
    <3>2. pos[segcount] < k /\ k <= pos[segcount + 1] /\ ~(k \in DOMAIN file /\ file[k].what = "fragment")
      BY <1>1, <1>2, <2>2
    <3> QED
      BY <1>3, <3>1, <3>2, SpotIsHeader
  <2> QED
    BY <1>3, <2>1, <2>2
<1>5. segcount + 1 \in 1..m
  <2>1. segcount /= m
    BY <1>1, <1>3, <1>4
  <2> QED
    BY <1>2, <1>3, <2>1
<1> DEFINE r == segcount + 1
<1>6. /\ pos[r] \in Nat /\ pos[r + 1] \in Nat /\ pos[r] < pos[r + 1] /\ pos[r + 1] <= Len(file) + 1
      /\ r <= n => file[pos[r]].user = spoken[r].user
  BY <1>5, Spots, HeaderAbout
<1>7. PICK row : row = Row(file[k].type, file[k].user, segcount, k)
  OBVIOUS
<1>8. row.no = k /\ row.user = file[k].user /\ row.type = file[k].type /\ row.count = 0
  BY <1>7 DEF Row
<1>9. table'[r] = row /\ \A q \in 1..segcount : table'[q] = table[q]
  BY <1>1, <1>3, <1>7
<1>10. r > 0 /\ r \in Nat /\ segcount' = r /\ r <= m
  BY <1>1, <1>3, <1>5
<1>11. /\ k' <= Len(file') + 1 /\ pos[r] < k' /\ k' <= pos[r + 1]
       /\ k' - 1 = k /\ 0 = k' - pos[r] - 1
  <2>1. k' = k + 1 /\ k = pos[r] /\ file' = file
    BY <1>1, <1>4
  <2> QED
    BY <1>1, <1>3, <1>6, <2>1, SMTT(30)
<1>12. ASSUME NEW q \in 1..r PROVE About(q, n, pos)' /\ (q < r => table'[q].count = Size(pos, q))
  <2>1. CASE q = r
    <3>1. table'[q].no = pos[q] /\ table'[q].user = file[pos[q]].user
      BY <1>4, <1>8, <1>9, <2>1
    <3>2. q <= n => table'[q].user = spoken'[q].user
      BY <1>1, <1>6, <2>1, <3>1
    <3>3. ~(q < r)
      BY <1>10, <2>1
    <3> QED
      BY <3>1, <3>2, <3>3 DEF About
  <2>2. CASE q /= r
    <3>1. q \in 1..segcount
      BY <1>3, <2>2
    <3>2. About(q, n, pos)'
      BY <1>1, <1>2, <1>9, <3>1 DEF About
    <3>3. table'[q].count = Size(pos, q)
      <4>1. CASE q < segcount
        BY <1>2, <1>9, <3>1, <4>1
      <4>2. CASE q = segcount
        <5>1. segcount > 0
          BY <3>1, <4>2
        <5>2. table[segcount].count = k - pos[segcount] - 1
          BY <1>2, <5>1
        <5> QED
          BY <1>4, <1>9, <3>1, <4>2, <5>2 DEF Size
      <4> QED
        BY <1>3, <3>1, <4>1, <4>2
    <3> QED
      BY <3>2, <3>3
  <2> QED
    BY <2>1, <2>2
<1> HIDE DEF r
<1>13. /\ table'[r].type = file'[k' - 1].type /\ table'[r].count = k' - pos[r] - 1
  <2>1. table'[r].type = file[k].type /\ table'[r].count = 0
    BY <1>8, <1>9
  <2> QED
    BY <1>1, <1>11, <2>1
<1>14. ~(r = 0)
  BY <1>10
<1> QED
  BY <1>10, <1>11, <1>12, <1>13, <1>14 DEF Scanned, Size

LEMMA FragmentStory ==
  ASSUME TypeOK, TypeOK', Loops, NEW n, NEW m, NEW pos, Tiled(n, m, pos), Scanned(n, m, pos),
         FragmentsFit, ScanFragment
  PROVE  Scanned(n, m, pos)'
<1>1. /\ at = "scan" /\ k <= Len(file) /\ file[k].what = "fragment" /\ segcount > 0
      /\ table' = [table EXCEPT ![segcount].count = @ + 1]
      /\ k' = (IF table[segcount].type = file[k].type THEN k + 1 ELSE Len(file) + 1)
      /\ segcount' = segcount /\ file' = file /\ spoken' = spoken /\ at' = at
  BY DEF ScanFragment, pastVars
<1>2. /\ segcount <= m
      /\ pos[segcount] < k /\ k <= pos[segcount + 1]
      /\ table[segcount].type = file[k - 1].type
      /\ table[segcount].count = k - pos[segcount] - 1
      /\ \A r \in 1..segcount : /\ About(r, n, pos)
                                /\ r < segcount => table[r].count = Size(pos, r)
  BY <1>1 DEF Scanned
<1>3. /\ segcount \in Nat /\ m \in Nat /\ n \in Nat /\ k \in Nat /\ k >= 1 /\ Len(table) = segcount
      /\ table \in Seq(Items) /\ DOMAIN table = 1..segcount /\ DOMAIN file = 1..Len(file)
      /\ Len(file) \in Nat
  BY <1>1, QueueTyped DEF Loops, TypeOK, Tiled
<1>4. segcount \in 1..m /\ segcount \in DOMAIN table /\ k \in DOMAIN file
  BY <1>1, <1>2, <1>3
<1>5. k' = k + 1
  BY <1>1, <1>2, <1>4 DEF FragmentsFit
<1>6. k < pos[segcount + 1] /\ pos[segcount] \in Nat /\ pos[segcount + 1] \in Nat
      /\ pos[segcount + 1] <= Len(file) + 1
  BY <1>1, <1>2, <1>3, <1>4, SpotIsHeader, Spots
<1>7. PICK it \in Items : it = table[segcount]
  BY <1>3, <1>4, ElementOf
<1>8. PICK c : c = it.count + 1
  OBVIOUS
<1>9. /\ table'[segcount] = [it EXCEPT !.count = c]
      /\ \A r \in 1..segcount : r /= segcount => table'[r] = table[r]
  BY <1>1, <1>3, <1>4, <1>7, <1>8
<1>10. /\ table'[segcount].count = c /\ table'[segcount].type = it.type
       /\ table'[segcount].no = it.no /\ table'[segcount].user = it.user
  BY <1>9 DEF Items
<1>11. c = k' - pos[segcount] - 1 /\ k' - 1 = k /\ pos[segcount] < k' /\ k' <= pos[segcount + 1]
       /\ k' <= Len(file') + 1
  <2>1. it.count = k - pos[segcount] - 1 /\ file' = file
    BY <1>1, <1>2, <1>7
  <2>2. PICK lf \in Nat, ps \in Nat, pn \in Nat :
          lf = Len(file) /\ ps = pos[segcount] /\ pn = pos[segcount + 1]
    BY <1>3, <1>6
  <2>3. c = (k - ps - 1) + 1 /\ k' = k + 1 /\ ps < k /\ k < pn /\ k <= lf /\ k \in Nat
    BY <1>1, <1>2, <1>3, <1>5, <1>6, <1>8, <2>1, <2>2
  <2>4. c = k' - ps - 1 /\ k' - 1 = k /\ ps < k' /\ k' <= pn /\ k' <= lf + 1
    BY <2>3
  <2> QED
    BY <2>1, <2>2, <2>4
<1>12. table'[segcount].type = file'[k' - 1].type
  BY <1>1, <1>2, <1>4, <1>7, <1>10, <1>11 DEF FragmentsFit
<1>13. ASSUME NEW r \in 1..segcount
       PROVE  About(r, n, pos)' /\ (r < segcount => table'[r].count = Size(pos, r))
  <2>1. table'[r].no = table[r].no /\ table'[r].user = table[r].user
    BY <1>7, <1>9, <1>10
  <2>2. About(r, n, pos)'
    BY <1>1, <1>2, <2>1 DEF About
  <2>3. r < segcount => r /= segcount
    BY <1>3
  <2> QED
    BY <1>2, <1>9, <2>2, <2>3
<1>14. ~(segcount = 0)
  BY <1>1
<1> QED
  BY <1>1, <1>2, <1>10, <1>11, <1>12, <1>13, <1>14 DEF Scanned, Size

LEMMA ScanEndStory ==
  ASSUME TypeOK, TypeOK', Loops, NEW n, NEW m, NEW pos, Tiled(n, m, pos), Scanned(n, m, pos), ScanEnd
  PROVE  Fixed(n, m, pos)'
<1>1. /\ at = "scan" /\ k > Len(file)
      /\ at' = (IF segcount = 0 THEN "table" ELSE "fix") /\ k' = 1
      /\ segcount' = segcount /\ table' = table /\ file' = file /\ spoken' = spoken
  BY DEF ScanEnd, handleVars, pastVars
<1>2. /\ segcount <= m /\ (segcount = 0 => k = 1) /\ k <= Len(file) + 1
      /\ segcount > 0 => /\ k <= pos[segcount + 1]
                         /\ table[segcount].count = k - pos[segcount] - 1
      /\ \A r \in 1..segcount : /\ About(r, n, pos)
                                /\ r < segcount => table[r].count = Size(pos, r)
  BY <1>1 DEF Scanned
<1>3. /\ segcount \in Nat /\ m \in Nat /\ n \in Nat /\ k \in Nat /\ k >= 1 /\ Len(table) = segcount
      /\ Len(file) \in Nat /\ pos[1] = 1 /\ pos[m + 1] = Len(file) + 1
  BY <1>1, QueueTyped DEF Loops, TypeOK, Tiled
<1>4. k = Len(file) + 1
  BY <1>1, <1>2, <1>3
<1>5. segcount = m
  <2>1. ASSUME segcount < m PROVE FALSE
    <3>1. segcount + 1 \in 1..(m + 1) /\ m + 1 \in 1..(m + 1) /\ segcount + 1 < m + 1
      BY <1>3, <2>1
    <3>2. pos[segcount + 1] < pos[m + 1] /\ pos[segcount + 1] \in Nat
      BY <3>1, Apart
    <3>3. k <= pos[segcount + 1]
      BY <1>2, <1>3
    <3> QED
      BY <1>3, <1>4, <3>2, <3>3
  <2> QED
    BY <1>2, <1>3, <2>1
<1>6. ASSUME NEW r \in 1..m
      PROVE  /\ About(r, n, pos)' /\ table'[r].count = Size(pos, r) /\ r >= 1 /\ ~(r < 1) /\ segcount /= 0
  <2>1. About(r, n, pos)'
    BY <1>1, <1>2, <1>5 DEF About
  <2>2. r >= 1 /\ ~(r < 1) /\ segcount /= 0 /\ segcount > 0
    BY <1>3, <1>5
  <2>3. CASE r < segcount
    BY <1>1, <1>2, <1>5, <2>1, <2>2, <2>3
  <2>4. CASE r = segcount
    <3>1. table[segcount].count = k - pos[segcount] - 1 /\ k = pos[m + 1]
      BY <1>2, <1>3, <1>4, <2>2
    <3> QED
      BY <1>1, <1>5, <2>1, <2>2, <2>4, <3>1 DEF Size
  <2> QED
    BY <1>3, <1>5, <2>3, <2>4
<1>7. segcount' = m /\ Len(table') = m /\ k' = 1
  BY <1>1, <1>3, <1>5
<1>8. at' = "fix" \/ m = 0
  BY <1>1, <1>5
<1> QED
  BY <1>6, <1>7, <1>1, <1>5 DEF Fixed, Size

LEMMA FixStory ==
  ASSUME TypeOK, TypeOK', Loops, Modes, NEW n, NEW m, NEW pos, Tiled(n, m, pos), Fixed(n, m, pos), FixHeader
  PROVE  SameItems /\ Fixed(n, m, pos)'
<1>1. /\ at = "fix" /\ file' = [file EXCEPT ![table[k].no].count = table[k].count]
      /\ table' = [table EXCEPT ![k].count = 0]
      /\ segcount' = segcount /\ spoken' = spoken
  BY DEF FixHeader, pastVars
<1>2. /\ segcount = m /\ Len(table) = m
      /\ \A r \in 1..m : /\ About(r, n, pos)
                         /\ r < k => file[pos[r]].count = Size(pos, r)
                         /\ r >= k => table[r].count = Size(pos, r)
  BY <1>1 DEF Fixed
<1>3. /\ m \in Nat /\ k \in 1..m /\ k \in Nat /\ table \in Seq(Items) /\ DOMAIN table = 1..m
      /\ file \in Seq(Items)
  BY <1>1, <1>2, QueueTyped DEF Loops, Tiled
<1>4. SameItems /\ Len(table') = Len(table)
  BY FixTypes, CountsSame
<1>5. /\ table[k].no = pos[k] /\ table[k].count = Size(pos, k)
      /\ pos[k] \in DOMAIN file
  BY <1>2, <1>3, Spots DEF About
<1>6. file'[pos[k]].count = Size(pos, k)
  <2>1. PICK it \in Items : it = file[pos[k]]
    BY <1>3, <1>5, ElementOf
  <2>2. PICK c : c = Size(pos, k)
    OBVIOUS
  <2>3. file'[pos[k]] = [it EXCEPT !.count = c]
    BY <1>1, <1>5, <2>1, <2>2
  <2>4. file'[pos[k]].count = c
    BY <2>3 DEF Items
  <2> QED
    BY <2>2, <2>4
<1>7. ASSUME NEW r \in 1..m, r /= k PROVE file'[pos[r]] = file[pos[r]]
  <2>1. pos[r] \in DOMAIN file
    BY Spots
  <2>2. pos[r] /= pos[k]
    <3>1. r \in 1..(m + 1) /\ k \in 1..(m + 1) /\ (r < k \/ k < r)
      BY <1>3, <1>7
    <3>2. (pos[r] < pos[k] \/ pos[k] < pos[r]) /\ pos[r] \in Nat /\ pos[k] \in Nat
      BY <3>1, Apart
    <3> QED
      BY <3>2
  <2> QED
    BY <1>1, <1>5, <2>1, <2>2
<1>8. ASSUME NEW r \in 1..m
      PROVE  /\ table'[r].no = table[r].no /\ table'[r].user = table[r].user
             /\ r /= k => table'[r] = table[r]
  <2>1. PICK it \in Items : it = table[r]
    BY <1>3, ElementOf
  <2>2. table'[r] = IF r = k THEN [it EXCEPT !.count = 0] ELSE it
    BY <1>1, <1>3, <2>1
  <2>3. table'[r].no = it.no /\ table'[r].user = it.user
    BY <2>2 DEF Items
  <2> QED
    BY <2>1, <2>2, <2>3
<1>9. ASSUME NEW r \in 1..m
      PROVE  /\ About(r, n, pos)'
             /\ r <= k => file'[pos[r]].count = Size(pos, r)
             /\ r > k => table'[r].count = Size(pos, r)
  <2>1. About(r, n, pos)'
    BY <1>1, <1>2, <1>8 DEF About
  <2>2. r < k \/ r = k \/ r > k
    BY <1>3
  <2>3. r < k => r /= k
    BY <1>3
  <2>4. r > k => r /= k /\ r >= k /\ ~(r <= k)
    BY <1>3
  <2>5. r = k => r <= k /\ ~(r > k)
    BY <1>3
  <2>6. r < k => r <= k /\ ~(r > k)
    BY <1>3
  <2> QED
    BY <1>2, <1>6, <1>7, <1>8, <2>1, <2>2, <2>3, <2>4, <2>5, <2>6
<1>10. CASE k < segcount
  <2>1. at' = "fix" /\ k' = k + 1
    BY <1>10 DEF FixHeader
  <2>2. \A r \in 1..m : (r < k' => r <= k) /\ (r >= k' => r > k)
    BY <1>3, <2>1
  <2> QED
    BY <1>1, <1>2, <1>4, <1>9, <2>1, <2>2 DEF Fixed, Size
<1>11. CASE ~(k < segcount)
  <2>1. at' = "table"
    BY <1>11 DEF FixHeader
  <2>2. \A r \in 1..m : r <= k
    BY <1>2, <1>3, <1>11
  <2> QED
    BY <1>1, <1>2, <1>4, <1>9, <2>1, <2>2 DEF Fixed, Size
<1> QED
  BY <1>10, <1>11

\* The table, when it is written.
Ready(n, m, pos) ==
  /\ segcount = m /\ Len(table) = m
  /\ \A r \in 1..m : About(r, n, pos) /\ file[pos[r]].count = Size(pos, r)
  /\ crashes = 0 => m = n /\ Whole(n, pos)

LEMMA TableReady ==
  ASSUME Base, Phases, at = "table", NEW n, NEW m, NEW pos, Tiled(n, m, pos),
         Running => Queued(n, m, pos), ~Running => Fixed(n, m, pos)
  PROVE  Ready(n, m, pos)
<1>1. TypeOK /\ Modes /\ queue = <<>> /\ (crashes = 0 => recording) /\ disk.headid = "TEMPRECD"
  BY DEF Base, Modes, Phases
<1>2. CASE recording
  <2>1. Queued(n, m, pos)
    BY <1>2 DEF Running
  <2>2. /\ n = m /\ segcount = Len(spoken) /\ segcount = Len(table) + Len(queue) /\ Len(table) <= n
        /\ n <= Len(spoken) /\ n \in Nat /\ Len(table) \in Nat /\ Len(queue) = 0
        /\ \A r \in 1..Len(table) : Entry(r, pos)
    BY <1>1, <2>1, QueueTyped DEF Queued, Tiled
  <2>3. Len(table) = m /\ segcount = m /\ n = Len(spoken)
    BY <2>2
  <2>4. \A r \in 1..m : About(r, n, pos) /\ file[pos[r]].count = Size(pos, r)
                        /\ Size(pos, r) = Len(spoken[r].frags)
    BY <2>2, <2>3 DEF Entry, About
  <2> QED
    BY <2>2, <2>3, <2>4 DEF Ready, Whole
<1>3. CASE ~recording
  <2>1. Fixed(n, m, pos)
    BY <1>1, <1>3 DEF Running
  <2> QED
    BY <1>1, <1>3, <2>1 DEF Fixed, Ready
<1> QED
  BY <1>2, <1>3

\* The rows of the table behind the m segments and rows of the file.
Spread(m, pos, a, new) ==
  /\ a = m + Len(table) /\ new \in [1..(a + 1) -> Nat]
  /\ \A i \in 1..(m + 1) : new[i] = pos[i]
  /\ \A i \in 1..(Len(table) + 1) : new[m + i] = Len(file) + i

LEMMA TableTiles ==
  ASSUME TypeOK, TypeOK', TableOfRows, NEW n, NEW m, NEW pos, Tiled(n, m, pos), FinishTable,
         NEW a, NEW new, Spread(m, pos, a, new)
  PROVE  Tiled(n, a, new)'
<1>0. /\ a = m + Len(table) /\ new \in [1..(a + 1) -> Nat]
      /\ \A i \in 1..(m + 1) : new[i] = pos[i]
      /\ \A i \in 1..(Len(table) + 1) : new[m + i] = Len(file) + i
  BY DEF Spread
<1>1. /\ file' = file \o table /\ spoken' = spoken
  BY DEF FinishTable, pastVars
<1>2. /\ n \in Nat /\ m \in Nat /\ n <= m /\ n <= Len(spoken) /\ pos[1] = 1 /\ pos[m + 1] = Len(file) + 1
      /\ \A i, j \in 1..(m + 1) : i < j => pos[i] < pos[j]
      /\ \A p \in DOMAIN file : \E i \in 1..m : pos[i] <= p /\ p < pos[i + 1]
      /\ \A i \in 1..n : Block(i, n, pos)
      /\ \A i \in (n + 1)..m : pos[i + 1] = pos[i] + 1 /\ file[pos[i]].what = "row"
  BY DEF Tiled
<1>3. /\ Len(table) \in Nat /\ Len(file) \in Nat /\ DOMAIN file = 1..Len(file)
      /\ DOMAIN table = 1..Len(table)
      /\ Len(file') = Len(file) + Len(table) /\ DOMAIN file' = 1..(Len(file) + Len(table))
      /\ \A p \in 1..Len(file) : file'[p] = file[p]
      /\ \A p \in 1..Len(table) : file'[Len(file) + p] = table[p]
  BY <1>1, QueueTyped, Appending
<1>4. PICK lt \in Nat, lf \in Nat : lt = Len(table) /\ lf = Len(file)
  BY <1>3
<1>5. a \in Nat /\ m <= a /\ n <= a
  BY <1>0, <1>2, <1>3
<1>6. new[1] = 1 /\ new[a + 1] = Len(file') + 1
  <2>1. 1 \in 1..(m + 1) /\ lt + 1 \in 1..(lt + 1) /\ a + 1 = m + (lt + 1) /\ lf + (lt + 1) = (lf + lt) + 1
    BY <1>0, <1>2, <1>4
  <2> QED
    BY <1>0, <1>2, <1>3, <1>4, <2>1
<1>7. ASSUME NEW i \in 1..(a + 1), NEW j \in 1..(a + 1), i < j PROVE new[i] < new[j]
  <2>1. CASE j \in 1..(m + 1)
    <3>1. i \in 1..(m + 1)
      BY <1>0, <1>2, <1>7, <2>1
    <3> QED
      BY <1>0, <1>2, <1>7, <2>1, <3>1
  <2>2. CASE j \notin 1..(m + 1)
    <3>1. PICK y \in 1..(lt + 1) : j = m + y /\ y > 1
      <4>1. j - m \in 1..(lt + 1) /\ j = m + (j - m) /\ j - m > 1
        BY <1>0, <1>2, <1>4, <2>2
      <4> QED
        BY <4>1
    <3>2. new[j] = lf + y
      BY <1>0, <1>4, <3>1
    <3>3. CASE i \in 1..(m + 1)
      <4>1. new[i] = pos[i] /\ pos[i] <= lf + 1 /\ pos[i] \in Nat
        <5>1. m + 1 \in 1..(m + 1) /\ (i = m + 1 \/ i < m + 1)
          BY <1>2, <3>3
        <5>2. i < m + 1 => pos[i] < pos[m + 1] /\ pos[i] \in Nat
          BY <3>3, <5>1, Apart
        <5>3. pos[m + 1] = lf + 1 /\ new[i] = pos[i]
          BY <1>0, <1>2, <1>4, <3>3
        <5> QED
          BY <5>1, <5>2, <5>3
      <4> QED
        BY <3>1, <3>2, <4>1
    <3>4. CASE i \notin 1..(m + 1)
      <4>1. PICK x \in 1..(lt + 1) : i = m + x
        <5>1. i - m \in 1..(lt + 1) /\ i = m + (i - m)
          BY <1>0, <1>2, <1>4, <3>4
        <5> QED
          BY <5>1
      <4>2. new[i] = lf + x
        BY <1>0, <1>4, <4>1
      <4> QED
        BY <1>2, <1>7, <3>1, <3>2, <4>1, <4>2
    <3> QED
      BY <3>3, <3>4
  <2> QED
    BY <2>1, <2>2
<1>8. ASSUME NEW p \in DOMAIN file' PROVE \E i \in 1..a : new[i] <= p /\ p < new[i + 1]
  <2>1. CASE p \in DOMAIN file
    <3>1. PICK i \in 1..m : pos[i] <= p /\ p < pos[i + 1]
      BY <1>2, <2>1
    <3>2. i \in 1..a /\ i \in 1..(m + 1) /\ i + 1 \in 1..(m + 1)
      BY <1>2, <1>5, <3>1
    <3> QED
      BY <1>0, <3>1, <3>2
  <2>2. CASE p \notin DOMAIN file
    <3>1. PICK y \in 1..lt : p = lf + y
      <4>1. p - lf \in 1..lt /\ p = lf + (p - lf)
        BY <1>3, <1>4, <2>2
      <4> QED
        BY <4>1
    <3>2. m + y \in 1..a /\ y \in 1..(lt + 1) /\ y + 1 \in 1..(lt + 1) /\ (m + y) + 1 = m + (y + 1)
      BY <1>0, <1>2, <1>4
    <3>3. new[m + y] = lf + y /\ new[(m + y) + 1] = lf + (y + 1)
      BY <1>0, <1>4, <3>2
    <3>4. lf + y <= p /\ p < lf + (y + 1)
      BY <3>1
    <3> QED
      BY <3>2, <3>3, <3>4
  <2> QED
    BY <2>1, <2>2
<1>9. ASSUME NEW i \in 1..n PROVE Block(i, n, new)'
  <2>1. i \in 1..m /\ i \in 1..(m + 1) /\ i + 1 \in 1..(m + 1)
    BY <1>2
  <2>2. new[i] = pos[i] /\ Size(new, i) = Size(pos, i)
    BY <1>0, <2>1 DEF Size
  <2>3. pos[i] \in DOMAIN file /\ \A j \in 1..Size(pos, i) : pos[i] + j \in DOMAIN file
    BY <2>1, Spots
  <2>4. Block(i, n, pos)
    BY <1>2
  <2>5. /\ file'[new[i]] = file[pos[i]]
        /\ \A j \in 1..Size(pos, i) : file'[new[i] + j] = file[pos[i] + j]
    BY <1>3, <2>2, <2>3
  <2>6. Size(new, i)' = Size(pos, i)
    BY <2>2 DEF Size
  <2> QED
    BY <1>1, <2>4, <2>5, <2>6 DEF Block
<1>10. ASSUME NEW i \in (n + 1)..a PROVE new[i + 1] = new[i] + 1 /\ file'[new[i]].what = "row"
  <2>1. CASE i <= m
    <3>1. i \in (n + 1)..m /\ i \in 1..m /\ i \in 1..(m + 1) /\ i + 1 \in 1..(m + 1)
      BY <1>2, <1>5, <2>1
    <3>2. pos[i] \in DOMAIN file
      BY <3>1, Spots
    <3> QED
      BY <1>0, <1>2, <1>3, <3>1, <3>2, SMTT(30)
  <2>2. CASE i > m
    <3>1. PICK y \in 1..lt : i = m + y
      <4>1. i - m \in 1..lt /\ i = m + (i - m)
        BY <1>0, <1>2, <1>4, <1>5, <2>2
      <4> QED
        BY <4>1
    <3>2. y \in 1..(lt + 1) /\ y + 1 \in 1..(lt + 1) /\ i + 1 = m + (y + 1) /\ (lf + y) + 1 = lf + (y + 1)
      BY <1>2, <1>4, <3>1
    <3>3. new[i] = lf + y /\ new[i + 1] = lf + (y + 1)
      BY <1>0, <1>4, <3>1, <3>2
    <3>4. file'[new[i]] = table[y]
      BY <1>3, <1>4, <3>3
    <3>5. table[y].what = "row"
      BY <1>3, <1>4 DEF TableOfRows
    <3> QED
      BY <3>2, <3>3, <3>4, <3>5
  <2> QED
    BY <1>2, <1>5, <2>1, <2>2
<1>11. n <= Len(spoken')
  BY <1>1, <1>2
<1> QED
  BY <1>0, <1>2, <1>5, <1>6, <1>7, <1>8, <1>9, <1>10, <1>11 DEF Tiled

LEMMA TableListed ==
  ASSUME TypeOK, TypeOK', NEW n, NEW m, NEW pos, Tiled(n, m, pos), Ready(n, m, pos), FinishTable,
         NEW a, NEW new, Spread(m, pos, a, new)
  PROVE  Listed(n, new, segtable, segcount)'
<1>0. \A i \in 1..(m + 1) : new[i] = pos[i]
  BY DEF Spread
<1>1. /\ file' = file \o table /\ segtable' = Len(file) + 1 /\ spoken' = spoken /\ crashes' = crashes
      /\ segcount' = segcount
  BY DEF FinishTable, pastVars
<1>2. /\ segcount = m /\ Len(table) = m /\ n <= m /\ n \in Nat /\ m \in Nat
      /\ \A r \in 1..m : About(r, n, pos) /\ file[pos[r]].count = Size(pos, r)
      /\ crashes = 0 => m = n /\ Whole(n, pos)
  BY DEF Ready, Tiled
<1>3. /\ Len(file) \in Nat /\ DOMAIN file = 1..Len(file)
      /\ \A p \in 1..Len(file) : file'[p] = file[p]
      /\ \A p \in 1..m : file'[Len(file) + p] = table[p]
  BY <1>1, <1>2, QueueTyped, Appending
<1>4. ASSUME NEW r \in 1..m
      PROVE  /\ r \in 1..m /\ pos[r] \in DOMAIN file /\ file'[pos[r]] = file[pos[r]]
             /\ Size(new, r) = Size(pos, r) /\ new[r] = pos[r]
             /\ file'[segtable' + r - 1] = table[r]
  <2>1. r \in 1..(m + 1) /\ r + 1 \in 1..(m + 1)
    BY <1>2
  <2>2. pos[r] \in DOMAIN file
    BY Spots
  <2>3. segtable' + r - 1 = Len(file) + r
    BY <1>1, <1>3
  <2> QED
    BY <1>0, <1>3, <2>1, <2>2, <2>3 DEF Size
<1>5. ASSUME NEW r \in 1..m, r <= n
      PROVE  /\ file'[segtable' + r - 1].no = new[r]
             /\ file'[segtable' + r - 1].user = spoken'[r].user
             /\ file'[new[r]].count = Size(new, r)
  <2>1. table[r].no = pos[r] /\ table[r].user = spoken[r].user /\ file[pos[r]].count = Size(pos, r)
    BY <1>2, <1>5 DEF About
  <2>2. file'[segtable' + r - 1] = table[r] /\ file'[new[r]] = file[pos[r]] /\ new[r] = pos[r]
    BY <1>4
  <2>3. file'[new[r]].count = Size(new, r)
    BY <1>4, <2>1, <2>2
  <2>4. spoken'[r].user = spoken[r].user
    BY <1>1
  <2> QED
    BY <2>1, <2>2, <2>3, <2>4
<1>6. ASSUME NEW r \in 1..m, r > n PROVE file'[file'[segtable' + r - 1].no].count = 0
  <2>1. r \in (n + 1)..m
    BY <1>2, <1>6
  <2>2. \A i \in (n + 1)..m : pos[i + 1] = pos[i] + 1 /\ file[pos[i]].what = "row"
    BY DEF Tiled
  <2>3. pos[r] \in Nat /\ pos[r + 1] = pos[r] + 1
    BY <2>1, <2>2, Spots
  <2>4. Size(pos, r) = 0
    BY <2>3 DEF Size
  <2> QED
    BY <1>2, <1>4, <2>4 DEF About
<1>7. ASSUME crashes' = 0 PROVE segcount' = n /\ Whole(n, new)'
  <2>1. m = n /\ n = Len(spoken) /\ \A r \in 1..n : Size(pos, r) = Len(spoken[r].frags)
    BY <1>1, <1>2, <1>7 DEF Whole
  <2>2. \A r \in 1..n : Size(new, r) = Len(spoken[r].frags)
    BY <1>4, <2>1
  <2> QED
    BY <1>1, <1>2, <2>1, <2>2 DEF Whole, Size
<1>8. n <= segcount' /\ segcount' = m
  BY <1>1, <1>2
<1> QED
  BY <1>5, <1>6, <1>7, <1>8 DEF Listed, Size

LEMMA TableSpread ==
  ASSUME TypeOK, NEW n, NEW m, NEW pos, Tiled(n, m, pos)
  PROVE  \E a, new : Spread(m, pos, a, new)
<1>1. /\ m \in Nat /\ pos \in [1..(m + 1) -> Nat] /\ pos[m + 1] = Len(file) + 1
      /\ Len(table) \in Nat /\ Len(file) \in Nat
  BY QueueTyped DEF Tiled
<1>2. PICK lt \in Nat, lf \in Nat : lt = Len(table) /\ lf = Len(file)
  BY <1>1
<1> DEFINE a == m + lt
           new == [i \in 1..(a + 1) |-> IF i <= m THEN pos[i] ELSE lf + (i - m)]
<1>3. new \in [1..(a + 1) -> Nat]
  <2>1. ASSUME NEW i \in 1..(a + 1) PROVE (IF i <= m THEN pos[i] ELSE lf + (i - m)) \in Nat
    <3>1. CASE i <= m
      <4>1. i \in 1..(m + 1)
        BY <1>1, <3>1
      <4> QED
        BY <1>1, <3>1, <4>1
    <3>2. CASE ~(i <= m)
      BY <1>1, <3>2
    <3> QED
      BY <3>1, <3>2
  <2> QED
    BY <2>1
<1>4. ASSUME NEW i \in 1..(m + 1) PROVE new[i] = pos[i]
  <2>1. i \in 1..(a + 1)
    BY <1>1
  <2>2. CASE i <= m
    BY <2>1, <2>2
  <2>3. CASE ~(i <= m)
    <3>1. i = m + 1 /\ lf + (i - m) = lf + 1
      BY <1>1, <2>3
    <3> QED
      BY <1>1, <1>2, <2>1, <2>3, <3>1
  <2> QED
    BY <2>2, <2>3
<1>5. ASSUME NEW i \in 1..(lt + 1) PROVE new[m + i] = lf + i
  <2>1. m + i \in 1..(a + 1) /\ ~(m + i <= m) /\ lf + ((m + i) - m) = lf + i
    BY <1>1
  <2> QED
    BY <2>1
<1> HIDE DEF new
<1>6. Spread(m, pos, a, new)
  BY <1>2, <1>3, <1>4, <1>5 DEF Spread
<1> QED
  BY <1>6
-----------------------------------------------------------------------------
(* The story of a file.                                                    *)

Told == \E n, m, pos : Story(n, m, pos)

LEMMA TableStory ==
  ASSUME Base, TypeOK', Phases, Phases', [Next]_vars, FinishTable, NEW n, NEW m, NEW pos, Story(n, m, pos)
  PROVE  Told'
<1>1. /\ TypeOK /\ Loops /\ Modes /\ FileInv /\ TableOfRows /\ at = "table" /\ at' = "header"
      /\ disk.headid = "TEMPRECD" /\ disk' = disk
      /\ Tiled(n, m, pos) /\ (Running => Queued(n, m, pos))
      /\ ~Running /\ FragmentsFit => Fixed(n, m, pos)
  BY DEF Base, FileInv, FinishTable, Phases, Story
<1>2. PICK a, new : Spread(m, pos, a, new)
  BY <1>1, TableSpread
<1>3. Tiled(n, a, new)'
  BY <1>1, <1>2, TableTiles
<1>4. ASSUME FragmentsFit' PROVE Listed(n, new, segtable, segcount)'
  <2>1. FragmentsFit
    BY <1>1, <1>4, FitsBefore
  <2>2. Ready(n, m, pos)
    BY <1>1, <2>1, TableReady
  <2> QED
    BY <1>1, <1>2, <2>2, TableListed
<1>5. ~Running' /\ ~Finished'
  BY <1>1 DEF Running, Finished
<1>6. Scanned(n, a, new)' /\ Fixed(n, a, new)'
  BY <1>1 DEF Scanned, Fixed
<1>7. FragmentsFit' => Ended(n, new)'
  BY <1>4, <1>5 DEF Ended
<1>8. Story(n, a, new)'
  BY <1>3, <1>5, <1>6, <1>7 DEF Story
<1> QED
  BY <1>8 DEF Told

LEMMA ListedSame ==
  ASSUME UNCHANGED <<file, spoken, crashes>>, NEW n, NEW pos, NEW o, NEW c, Listed(n, pos, o, c)
  PROVE  Listed(n, pos, o, c)'
BY DEF Listed, Whole, Size

\* What is not a step of the recording.
LEMMA QuietItems ==
  ASSUME TypeOK, Loops, Modes, [Next]_vars, ~Running', ~FinishTable
  PROVE  SameItems /\ spoken' = spoken
<1> USE DEF handleVars, pastVars
<1>1. CASE EventLock
  <2>1. UNCHANGED <<file, disk, recording>> /\ (recording => at' \in {"write", "retire"} \/ UNCHANGED spoken)
    BY <1>1 DEF EventLock, BeginWriting
  <2>2. ~recording => spoken' = spoken
    BY <1>1 DEF EventLock
  <2> QED
    BY <2>1, <2>2 DEF Running, SameItems
<1>2. CASE \/ EventCheck \/ RecordStop \/ UNCHANGED vars \/ Crash \/ ScanFails \/ Recover
           \/ FinishHeader \/ ScanSegment \/ ScanFragment \/ ScanEnd
  <2>1. UNCHANGED <<file, spoken>>
    BY <1>2 DEF EventCheck, RecordStop, vars, Crash, ScanFails, Recover, Forget, FinishHeader,
       ScanSegment, ScanFragment, ScanEnd
  <2> QED
    BY <2>1 DEF SameItems
<1>3. CASE FixHeader
  <2>1. spoken' = spoken
    BY <1>3 DEF FixHeader
  <2> QED
    BY <1>3, <2>1, FixTypes, CountsSame
<1>4. CASE \/ RecordStart \/ StopLock \/ WriteRecord \/ Retire \/ EventEnd
  <2>1. Running'
    BY <1>4 DEF RecordStart, StopLock, BeginWriting, WriteRecord, Retire, EventEnd, Running, Modes
  <2> QED
    BY <2>1
<1> QED
  BY <1>1, <1>2, <1>3, <1>4 DEF Next

LEMMA RestStory ==
  ASSUME Base, TypeOK', Modes', Phases, Phases', [Next]_vars, ~Running', ~FinishTable,
         NEW n, NEW m, NEW pos, Story(n, m, pos), FragmentsFit'
  PROVE  /\ Scanned(n, m, pos)' /\ Fixed(n, m, pos)' /\ Ended(n, pos)'
<1> USE DEF handleVars, pastVars
<1>1. /\ TypeOK /\ Loops /\ Modes /\ Tiled(n, m, pos) /\ FragmentsFit
      /\ ~Running => Scanned(n, m, pos) /\ Fixed(n, m, pos) /\ Ended(n, pos)
  BY FitsBefore DEF Base, Story
<1>2. CASE EventLock \/ EventCheck \/ RecordStop \/ UNCHANGED vars
  <2>1. ~Running
    BY <1>1, <1>2 DEF EventLock, BeginWriting, EventCheck, RecordStop, vars, Running, Modes
  <2>2. ~recording \/ owner /= "nobody" \/ ~EventLock
    <3>1. ASSUME recording, owner = "nobody", EventLock PROVE FALSE
      BY <1>1, <2>1, <3>1 DEF Modes, Running
    <3> QED
      BY <3>1
  <2>3. UNCHANGED <<file, spoken, table, at, k, segcount, segtable, disk, crashes, recording>>
    BY <1>2, <2>2 DEF EventLock, EventCheck, RecordStop, vars
  <2>4. Scanned(n, m, pos)' /\ Fixed(n, m, pos)'
    BY <1>1, <2>1, <2>3 DEF Scanned, Fixed, About, Size
  <2>5. Ended(n, pos)'
    BY <1>1, <2>1, <2>3, ListedSame DEF Ended, Finished
  <2> QED
    BY <2>4, <2>5
<1>3. CASE Crash \/ ScanFails \/ Recover
  <2>1. /\ UNCHANGED <<file, spoken, disk>> /\ disk.headid = "TEMPRECD"
        /\ at' = "idle" \/ (at' = "scan" /\ k' = 1 /\ segcount' = 0)
    BY <1>3 DEF Crash, ScanFails, Recover, Forget, Phases
  <2>2. Scanned(n, m, pos)'
    <3>1. 0 <= m /\ 1 <= Len(file) + 1 /\ ~(0 > 0) /\ \A r \in 1..0 : FALSE
      BY <1>1, QueueTyped DEF Tiled
    <3> QED
      BY <2>1, <3>1 DEF Scanned
  <2> QED
    BY <2>1, <2>2 DEF Fixed, Ended, Finished
<1>4. CASE FinishHeader
  <2>1. /\ at = "header" /\ ~Running /\ UNCHANGED <<file, spoken, crashes>> /\ at' = "idle"
        /\ disk'.segcount = segcount /\ disk'.segtable = segtable
    BY <1>1, <1>4 DEF FinishHeader, Running, Phases
  <2>2. Listed(n, pos, segtable, segcount)
    BY <1>1, <2>1 DEF Ended
  <2>3. Listed(n, pos, disk.segtable, disk.segcount)'
    BY <2>1, <2>2 DEF Listed, Whole, Size
  <2> QED
    BY <2>1, <2>3 DEF Scanned, Fixed, Ended
<1>5. ASSUME at \in {"scan", "fix"}, at' \in {"scan", "fix", "table"}, disk' = disk
      PROVE  ~Running /\ Scanned(n, m, pos) /\ Fixed(n, m, pos) /\ Ended(n, pos)'
  <2>1. ~Running /\ ~Finished'
    BY <1>1, <1>5 DEF Running, Modes, Phases, Finished
  <2> QED
    BY <1>1, <1>5, <2>1 DEF Ended
<1>6. CASE ScanSegment
  <2>1. at = "scan" /\ at' = "scan" /\ UNCHANGED <<disk, file, spoken>>
    BY <1>6 DEF ScanSegment
  <2> QED
    BY <1>1, <1>5, <1>6, <2>1, SegmentStory DEF Fixed
<1>7. CASE ScanFragment
  <2>1. at = "scan" /\ at' = "scan" /\ UNCHANGED <<disk, file, spoken>>
    BY <1>7 DEF ScanFragment
  <2> QED
    BY <1>1, <1>5, <1>7, <2>1, FragmentStory DEF Fixed
<1>8. CASE ScanEnd
  <2>1. at = "scan" /\ at' \in {"fix", "table"} /\ UNCHANGED <<disk, file, spoken>>
    BY <1>8 DEF ScanEnd
  <2> QED
    BY <1>1, <1>5, <1>8, <2>1, ScanEndStory DEF Scanned
<1>9. CASE FixHeader
  <2>1. at = "fix" /\ at' \in {"fix", "table"} /\ UNCHANGED <<disk, spoken>>
    BY <1>9 DEF FixHeader
  <2> QED
    BY <1>1, <1>5, <1>9, <2>1, FixStory DEF Scanned
<1>10. CASE \/ RecordStart \/ StopLock \/ WriteRecord \/ Retire \/ EventEnd
  <2>1. Running'
    BY <1>1, <1>10 DEF RecordStart, StopLock, BeginWriting, WriteRecord, Retire, EventEnd, Running, Modes
  <2> QED
    BY <2>1
<1> QED
  BY <1>2, <1>3, <1>4, <1>6, <1>7, <1>8, <1>9, <1>10 DEF Next

LEMMA StoryStep ==
  ASSUME Base, TypeOK', Modes', Flushed, Phases, Phases', [Next]_vars, Told PROVE Told'
<1>1. PICK n, m, pos : Story(n, m, pos)
  BY DEF Told
<1>2. Tiled(n, m, pos) /\ (Running => Queued(n, m, pos)) /\ TypeOK
  BY <1>1 DEF Story, Base
<1>3. CASE Running'
  <2>1. PICK n2, m2, pos2 : Tiled(n2, m2, pos2)' /\ Queued(n2, m2, pos2)'
    BY <1>2, <1>3, RunningStep
  <2>2. Story(n2, m2, pos2)'
    BY <1>3, <2>1 DEF Story
  <2> QED
    BY <2>2 DEF Told
<1>4. CASE ~Running' /\ FinishTable
  BY <1>1, <1>4, TableStory
<1>5. CASE ~Running' /\ ~FinishTable
  <2>1. SameItems /\ spoken' = spoken
    BY <1>5, QuietItems DEF Base
  <2>2. Tiled(n, m, pos)'
    BY <1>2, <2>1, SpokenSame, TiledKept
  <2>3. FragmentsFit' => Scanned(n, m, pos)' /\ Fixed(n, m, pos)' /\ Ended(n, pos)'
    BY <1>1, <1>5, RestStory
  <2>4. Story(n, m, pos)'
    BY <1>5, <2>2, <2>3 DEF Story
  <2> QED
    BY <2>4 DEF Told
<1> QED
  BY <1>3, <1>4, <1>5

LEMMA StoryInit == Init => Phases /\ Flushed /\ Told
<1> SUFFICES ASSUME Init PROVE Phases /\ Flushed /\ Told
  OBVIOUS
<1>1. /\ disk.headid = "none" /\ file = <<>> /\ at = "idle" /\ ~recording /\ queue = <<>>
      /\ segcount = 0 /\ table = <<>> /\ spoken = <<>>
  BY DEF Init
<1>2. Phases /\ Flushed
  BY <1>1 DEF Phases, Flushed
<1>3. PICK pos \in [1..(0 + 1) -> Nat] : pos[1] = 1
  <2>1. [i \in 1..(0 + 1) |-> 1] \in [1..(0 + 1) -> Nat] /\ [i \in 1..(0 + 1) |-> 1][1] = 1
    OBVIOUS
  <2> QED
    BY <2>1
<1>4. Tiled(0, 0, pos)
  <2>1. /\ Len(<<>>) = 0 /\ DOMAIN <<>> = {} /\ pos[0 + 1] = Len(file) + 1 /\ 0 <= Len(spoken)
        /\ \A i, j \in 1..(0 + 1) : ~(i < j)
        /\ 1..0 = {} /\ (0 + 1)..0 = {}
    BY <1>1, <1>3
  <2> QED
    BY <1>1, <1>3, <2>1 DEF Tiled
<1>5. Queued(0, 0, pos)
  <2>1. Len(<<>>) = 0 /\ 0 + 0 = 0 /\ \A i \in 1..0 : FALSE
    OBVIOUS
  <2> QED
    BY <1>1, <2>1 DEF Queued
<1>6. Running
  BY <1>1 DEF Running
<1> QED
  BY <1>2, <1>4, <1>5, <1>6 DEF Story, Told

LEMMA StorySafe == Spec => [](TypeOK /\ Modes /\ Phases /\ Flushed /\ Told)
<1>1. Init => Phases /\ Flushed /\ Told
  BY StoryInit
<1>2. ASSUME TypeOK, Loops, Modes, FileInv, Heads, TypeOK', Modes', Phases, Flushed, Told, [Next]_vars
      PROVE  Phases' /\ Flushed' /\ Told'
  <2>1. Phases'
    BY <1>2, PhasesStep
  <2>2. Flushed'
    BY <1>2, FlushedStep DEF FileInv
  <2> QED
    BY <1>2, <2>1, <2>2, StoryStep DEF Base
<1> QED
  BY <1>1, <1>2, Invariance, HeadsSafe, PTL DEF Spec
-----------------------------------------------------------------------------
(* What a file plays.                                                      *)

LEMMA RecoveredCount ==
  ASSUME TypeOK, NEW n, NEW m, NEW pos, Tiled(n, m, pos) PROVE Recovered = n
<1> DEFINE S == {p \in DOMAIN file : file[p].what = "segment"}
           f == [i \in 1..n |-> pos[i]]
<1>1. /\ n \in Nat /\ m \in Nat /\ n <= m
      /\ \A p \in DOMAIN file : \E i \in 1..m : pos[i] <= p /\ p < pos[i + 1]
      /\ \A i \in 1..n : Block(i, n, pos)
      /\ \A i \in (n + 1)..m : pos[i + 1] = pos[i] + 1 /\ file[pos[i]].what = "row"
      /\ DOMAIN file = 1..Len(file) /\ Len(file) \in Nat
  BY QueueTyped DEF Tiled
<1>2. \A i \in 1..n : pos[i] \in S
  <2>1. ASSUME NEW i \in 1..n PROVE pos[i] \in S
    <3>1. i \in 1..m /\ file[pos[i]].what = "segment"
      BY <1>1 DEF Block
    <3>2. pos[i] \in DOMAIN file
      BY <3>1, Spots
    <3> QED
      BY <3>1, <3>2
  <2> QED
    BY <2>1
<1>3. ASSUME NEW i \in 1..n, NEW j \in 1..n, pos[i] = pos[j] PROVE i = j
  <2>1. i \in 1..(m + 1) /\ j \in 1..(m + 1)
    BY <1>1
  <2>2. ~(i < j) /\ ~(j < i)
    <3>1. ASSUME i < j PROVE FALSE
      <4>1. pos[i] < pos[j] /\ pos[i] \in Nat /\ pos[j] \in Nat
        BY <2>1, <3>1, Apart
      <4> QED
        BY <1>3, <4>1
    <3>2. ASSUME j < i PROVE FALSE
      <4>1. pos[j] < pos[i] /\ pos[i] \in Nat /\ pos[j] \in Nat
        BY <2>1, <3>2, Apart
      <4> QED
        BY <1>3, <4>1
    <3> QED
      BY <3>1, <3>2
  <2> QED
    BY <2>2
<1>4. ASSUME NEW p \in S PROVE \E i \in 1..n : pos[i] = p
  <2>1. PICK i \in 1..m : pos[i] <= p /\ p < pos[i + 1]
    BY <1>1
  <2>2. pos[i] \in Nat /\ p \in Nat
    BY <1>1, Spots
  <2>3. p = pos[i]
    <3>1. ASSUME p /= pos[i] PROVE FALSE
      <4>1. pos[i] < p /\ p <= pos[i + 1] /\ ~(file[p].what = "fragment") /\ p /= pos[i + 1]
        <5>1. pos[i] < p /\ p <= pos[i + 1] /\ p /= pos[i + 1]
          BY <2>1, <2>2, <3>1, Spots
        <5> QED
          BY <5>1
      <4> QED
        BY <2>2, <4>1, SpotIsHeader
    <3> QED
      BY <3>1
  <2>4. i <= n
    <3>1. ASSUME ~(i <= n) PROVE FALSE
      <4>1. i \in (n + 1)..m
        BY <1>1, <3>1
      <4>2. file[pos[i]].what = "row"
        BY <1>1, <4>1
      <4> QED
        BY <2>3, <4>2
    <3> QED
      BY <3>1
  <2>5. i \in 1..n
    BY <1>1, <2>4
  <2> QED
    BY <2>3, <2>5
<1> HIDE DEF S
<1>5. f \in Bijection(1..n, S)
  <2>1. f \in [1..n -> S]
    BY <1>2
  <2>2. \A i, j \in 1..n : f[i] = f[j] => i = j
    BY <1>3
  <2>3. \A p \in S : \E i \in 1..n : f[i] = p
    BY <1>4
  <2> HIDE DEF f
  <2>4. DOMAIN f = 1..n
    BY <2>1
  <2> QED
    BY <2>1, <2>2, <2>3, <2>4 DEF Bijection, Injection, Surjection, IsInjective
<1>6. Cardinality(S) = n
  <2>1. ExistsBijection(1..n, S)
    BY <1>5 DEF ExistsBijection
  <2> QED
    BY <1>1, <2>1, FS_CountingElements
<1> QED
  BY <1>6 DEF Recovered, S

\* The i-th of the listed segments.
LEMMA SegmentPlays ==
  ASSUME TypeOK, NEW n, NEW m, NEW pos, Tiled(n, m, pos), Listed(n, pos, disk.segtable, disk.segcount),
         NEW i \in 1..n
  PROVE  /\ i \in 1..m /\ i \in 1..Len(spoken) /\ Size(pos, i) \in Nat
         /\ Played(i).user = spoken[i].user
         /\ Played(i).frags = [j \in 1..Size(pos, i) |-> spoken[i].frags[j]]
         /\ Played(i) = [user |-> Played(i).user, frags |-> Played(i).frags]
         /\ Size(pos, i) <= Len(spoken[i].frags)
         /\ i < n => Size(pos, i) = Len(spoken[i].frags)
<1>1. /\ n \in Nat /\ m \in Nat /\ n <= m /\ n <= Len(spoken) /\ Len(spoken) \in Nat
      /\ n <= disk.segcount /\ Block(i, n, pos)
  BY SpokenTyped DEF Tiled, Listed
<1>2. i \in 1..m /\ i \in 1..Len(spoken) /\ i \in 1..disk.segcount /\ i <= n
  <2>1. disk.segcount \in Nat
    BY DEF TypeOK, Headers
  <2> QED
    BY <1>1, <2>1
<1>3. Size(pos, i) \in Nat
  BY <1>2, Spots
<1>4. PICK row : row = file[disk.segtable + i - 1]
  OBVIOUS
<1>5. row.no = pos[i] /\ row.user = spoken[i].user /\ file[pos[i]].count = Size(pos, i)
  BY <1>2, <1>4 DEF Listed
<1>6. Played(i) = [user |-> row.user,
                   frags |-> [j \in 1..file[row.no].count |-> file[row.no + j].no]]
  BY <1>4 DEF Played
<1>7. PICK fr : fr = [j \in 1..file[row.no].count |-> file[row.no + j].no]
  OBVIOUS
<1>8. Played(i).user = row.user /\ Played(i).frags = fr
      /\ Played(i) = [user |-> Played(i).user, frags |-> Played(i).frags]
  BY <1>6, <1>7
<1>9. fr = [j \in 1..Size(pos, i) |-> spoken[i].frags[j]]
  <2>1. fr = [j \in 1..Size(pos, i) |-> file[pos[i] + j].no]
    BY <1>5, <1>7
  <2>2. \A j \in 1..Size(pos, i) : file[pos[i] + j].no = spoken[i].frags[j]
    BY <1>1 DEF Block
  <2> QED
    BY <2>1, <2>2
<1> QED
  BY <1>1, <1>2, <1>3, <1>5, <1>8, <1>9 DEF Block

LEMMA FinishedFile ==
  ASSUME Phases, Told, Finished, FragmentsFit
  PROVE  \E n, m, pos : Tiled(n, m, pos) /\ Listed(n, pos, disk.segtable, disk.segcount)
<1>1. PICK n, m, pos : Story(n, m, pos)
  BY DEF Told
<1>2. ~Running
  BY DEF Phases, Running, Finished
<1> QED
  BY <1>1, <1>2 DEF Story, Ended

LEMMA SavedInv == TypeOK /\ Phases /\ Told => SavedIsSpoken
<1> SUFFICES ASSUME TypeOK, Phases, Told, Finished, crashes = 0, FragmentsFit
             PROVE  /\ disk.segcount = Len(spoken)
                    /\ \A i \in DOMAIN spoken : Played(i) = spoken[i]
  BY DEF SavedIsSpoken
<1>1. PICK n, m, pos : Tiled(n, m, pos) /\ Listed(n, pos, disk.segtable, disk.segcount)
  BY FinishedFile
<1>2. /\ disk.segcount = n /\ n = Len(spoken) /\ n \in Nat
      /\ \A r \in 1..n : Size(pos, r) = Len(spoken[r].frags)
  BY <1>1 DEF Listed, Whole, Tiled
<1>3. ASSUME NEW i \in DOMAIN spoken PROVE Played(i) = spoken[i]
  <2>1. i \in 1..n /\ spoken \in Seq([user : Users, frags : Seq(Nat)]) /\ i \in 1..Len(spoken)
    BY <1>2, SpokenTyped
  <2>2. /\ Played(i).user = spoken[i].user
        /\ Played(i).frags = [j \in 1..Size(pos, i) |-> spoken[i].frags[j]]
        /\ Played(i) = [user |-> Played(i).user, frags |-> Played(i).frags]
    <3>1. Tiled(n, m, pos) /\ Listed(n, pos, disk.segtable, disk.segcount) /\ i \in 1..n
      BY <1>1, <2>1
    <3> QED
      BY <3>1, SegmentPlays
  <2>3. spoken[i].frags \in Seq(Nat) /\ spoken[i] = [user |-> spoken[i].user, frags |-> spoken[i].frags]
    BY <2>1, Utterance
  <2>4. PICK fr \in Seq(Nat) : fr = spoken[i].frags
    BY <2>3
  <2>5. Size(pos, i) = Len(fr)
    BY <1>2, <2>1, <2>4
  <2>6. fr = [j \in 1..Len(fr) |-> fr[j]]
    OBVIOUS
  <2>7. Played(i).frags = fr
    BY <2>2, <2>4, <2>5, <2>6
  <2> QED
    BY <2>2, <2>3, <2>4, <2>7
<1> QED
  BY <1>2, <1>3

LEMMA Beginning ==
  ASSUME NEW t \in Seq(Nat), NEW c \in Nat, c <= Len(t), NEW s, s = [j \in 1..c |-> t[j]]
  PROVE  IsPrefix(s, t) /\ Len(s) = c /\ (c = Len(t) => s = t)
<1>1. s \in Seq(Nat) /\ Len(s) = c
  <2>1. \A j \in 1..c : t[j] \in Nat
    OBVIOUS
  <2>2. s \in [1..c -> Nat]
    BY <2>1
  <2> QED
    BY <2>2, SeqDef
<1>2. SubSeq(s, 1, c) = SubSeq(t, 1, c)
  <2>1. SubSeq(s, 1, c) = [i \in 1..c |-> s[i]] /\ SubSeq(t, 1, c) = [i \in 1..c |-> t[i]]
    BY <1>1
  <2>2. \A i \in 1..c : s[i] = t[i]
    OBVIOUS
  <2> QED
    BY <2>1, <2>2
<1>3. c = Len(t) => s = t
  <2>1. t = [j \in 1..Len(t) |-> t[j]]
    OBVIOUS
  <2> QED
    BY <2>1
<1> QED
  BY <1>1, <1>2, <1>3 DEF IsPrefix

LEMMA RecoveredInv == TypeOK /\ Phases /\ Told => RecoveredIsSpoken
<1> SUFFICES ASSUME TypeOK, Phases, Told, Finished, crashes > 0, FragmentsFit
             PROVE  /\ Recovered <= Len(spoken) /\ Recovered <= disk.segcount
                    /\ \A i \in 1..Recovered :
                         /\ Played(i).user = spoken[i].user
                         /\ IsPrefix(Played(i).frags, spoken[i].frags)
                         /\ i < Recovered => Played(i).frags = spoken[i].frags
                    /\ \A i \in Recovered + 1 .. disk.segcount : Played(i).frags = <<>>
                    /\ \A p \in DOMAIN file : file[p].what = "fragment" =>
                         \E i \in 1..Recovered : \E j \in DOMAIN Played(i).frags :
                            Played(i).frags[j] = file[p].no
  BY DEF RecoveredIsSpoken
<1>1. PICK n, m, pos : Tiled(n, m, pos) /\ Listed(n, pos, disk.segtable, disk.segcount)
  BY FinishedFile
<1>2. Recovered = n
  BY <1>1, RecoveredCount
<1>3. /\ n \in Nat /\ m \in Nat /\ n <= m /\ n <= Len(spoken) /\ n <= disk.segcount
      /\ \A p \in DOMAIN file : \E i \in 1..m : pos[i] <= p /\ p < pos[i + 1]
      /\ \A i \in 1..n : Block(i, n, pos)
      /\ \A i \in (n + 1)..m : pos[i + 1] = pos[i] + 1 /\ file[pos[i]].what = "row"
      /\ DOMAIN file = 1..Len(file) /\ Len(file) \in Nat /\ disk.segcount \in Nat
  BY <1>1, QueueTyped DEF Tiled, Listed, TypeOK, Headers
<1>4. ASSUME NEW i \in 1..n
      PROVE  /\ Played(i).user = spoken[i].user
             /\ IsPrefix(Played(i).frags, spoken[i].frags)
             /\ i < n => Played(i).frags = spoken[i].frags
  <2>1. /\ i \in 1..Len(spoken) /\ Size(pos, i) \in Nat
        /\ Played(i).user = spoken[i].user
        /\ Played(i).frags = [j \in 1..Size(pos, i) |-> spoken[i].frags[j]]
        /\ Size(pos, i) <= Len(spoken[i].frags)
        /\ i < n => Size(pos, i) = Len(spoken[i].frags)
    BY <1>1, SegmentPlays
  <2>2. PICK t \in Seq(Nat) : t = spoken[i].frags
    BY <2>1, SpokenTyped, Utterance
  <2>3. PICK c \in Nat : c = Size(pos, i)
    BY <2>1
  <2>4. PICK s : s = [j \in 1..c |-> t[j]]
    OBVIOUS
  <2>5. c <= Len(t) /\ Played(i).frags = s /\ (i < n => c = Len(t))
    BY <2>1, <2>2, <2>3, <2>4
  <2>6. IsPrefix(s, t) /\ (c = Len(t) => s = t)
    BY <2>4, <2>5, Beginning
  <2> QED
    BY <2>1, <2>2, <2>5, <2>6
<1>5. ASSUME NEW i \in (n + 1) .. disk.segcount PROVE Played(i).frags = <<>>
  <2>1. i \in 1..disk.segcount /\ i > n
    BY <1>3
  <2>2. file[file[disk.segtable + i - 1].no].count = 0
    BY <1>1, <2>1 DEF Listed
  <2>3. PICK row : row = file[disk.segtable + i - 1]
    OBVIOUS
  <2>4. Played(i) = [user |-> row.user,
                     frags |-> [j \in 1..file[row.no].count |-> file[row.no + j].no]]
    BY <2>3 DEF Played
  <2>5. Played(i).frags = [j \in 1..file[row.no].count |-> file[row.no + j].no]
    BY <2>4
  <2>6. 1..file[row.no].count = {}
    BY <2>2, <2>3
  <2>7. \A g : DOMAIN g = {} /\ g = [j \in {} |-> g[j]] => g = <<>>
    OBVIOUS
  <2> QED
    BY <2>5, <2>6
<1>6. ASSUME NEW p \in DOMAIN file, file[p].what = "fragment"
      PROVE  \E i \in 1..n : \E j \in DOMAIN Played(i).frags : Played(i).frags[j] = file[p].no
  <2>1. PICK i \in 1..m : pos[i] <= p /\ p < pos[i + 1]
    BY <1>3
  <2>2. i \in 1..n
    <3>1. ASSUME i > n PROVE FALSE
      <4>1. i \in (n + 1)..m
        BY <1>3, <3>1
      <4>2. pos[i + 1] = pos[i] + 1 /\ file[pos[i]].what = "row"
        BY <1>3, <4>1
      <4>3. pos[i] \in Nat /\ p \in Nat
        BY <1>1, <1>3, <1>6, <2>1, Spots
      <4>4. p = pos[i]
        BY <2>1, <4>2, <4>3
      <4> QED
        BY <1>6, <4>2, <4>4
    <3> QED
      BY <1>3, <3>1
  <2>3. Block(i, n, pos) /\ pos[i] \in Nat /\ pos[i + 1] \in Nat
    BY <1>1, <1>3, <2>1, <2>2, Spots
  <2>4. p /= pos[i]
    BY <1>6, <2>3 DEF Block
  <2>5. PICK j : j = p - pos[i]
    OBVIOUS
  <2>6. j \in 1..Size(pos, i) /\ pos[i] + j = p
    <3>1. p \in Nat
      BY <1>3
    <3>2. PICK a \in Nat, b \in Nat : a = pos[i] /\ b = pos[i + 1]
      BY <2>3
    <3>3. a <= p /\ p < b /\ p /= a
      BY <2>1, <2>4, <3>2
    <3>4. p - a \in 1..(b - a - 1) /\ a + (p - a) = p
      BY <3>1, <3>3
    <3> QED
      BY <2>5, <3>2, <3>4 DEF Size
  <2>7. file[p].no = spoken[i].frags[j]
    BY <2>3, <2>6 DEF Block
  <2>8. Played(i).frags = [x \in 1..Size(pos, i) |-> spoken[i].frags[x]]
    BY <1>1, <2>2, SegmentPlays
  <2>9. j \in DOMAIN Played(i).frags /\ Played(i).frags[j] = file[p].no
    BY <2>6, <2>7, <2>8
  <2> QED
    BY <2>2, <2>9
<1> QED
  BY <1>2, <1>3, <1>4, <1>5, <1>6

LEMMA LossInv == TypeOK /\ Modes /\ Flushed /\ Told => LossIsBounded
<1> SUFFICES ASSUME TypeOK, Modes, Flushed, Told, recording, owner = "nobody", NEW i \in DOMAIN spoken
             PROVE  \/ \A j \in DOMAIN spoken[i].frags :
                         \E p \in DOMAIN file : file[p].what = "fragment" /\ file[p].no = spoken[i].frags[j]
                    \/ \E q \in DOMAIN queue : queue[q].index = i - 1 /\ queue[q].offset = 0
  BY DEF LossIsBounded
<1>1. at = "idle"
  BY DEF Modes
<1>2. PICK n, m, pos : Tiled(n, m, pos) /\ Queued(n, m, pos)
  BY <1>1 DEF Told, Story, Running
<1>3. /\ n \in Nat /\ n = m /\ n <= Len(spoken) /\ Len(spoken) = Len(table) + Len(queue)
      /\ Len(table) <= n /\ Len(table) \in Nat /\ Len(queue) \in Nat /\ DOMAIN queue = 1..Len(queue)
      /\ \A r \in 1..n : Block(r, n, pos)
      /\ \A r \in 1..Len(table) : Entry(r, pos)
      /\ \A q \in 1..Len(queue) : Waits(q, Len(table) + q, n, pos)
      /\ i \in 1..Len(spoken) /\ i \in Nat
      /\ DOMAIN spoken[i].frags = 1..Len(spoken[i].frags) /\ Len(spoken[i].frags) \in Nat
  BY <1>2, QueueTyped, SpokenTyped, Utterance, SMTT(30) DEF Tiled, Queued
<1>4. ASSUME i <= n, Size(pos, i) = Len(spoken[i].frags), NEW j \in DOMAIN spoken[i].frags
      PROVE  \E p \in DOMAIN file : file[p].what = "fragment" /\ file[p].no = spoken[i].frags[j]
  <2>1. i \in 1..n /\ j \in 1..Size(pos, i)
    BY <1>3, <1>4
  <2>2. file[pos[i] + j].what = "fragment" /\ file[pos[i] + j].no = spoken[i].frags[j]
    BY <1>3, <2>1 DEF Block
  <2>3. pos[i] + j \in DOMAIN file
    BY <1>2, <1>3, <2>1, Spots
  <2> QED
    BY <2>2, <2>3
<1>5. CASE i \in 1..Len(table)
  <2>1. i <= n /\ Size(pos, i) = Len(spoken[i].frags)
    BY <1>3, <1>5 DEF Entry
  <2> QED
    BY <1>4, <2>1
<1>6. CASE i \notin 1..Len(table)
  <2>1. PICK q \in 1..Len(queue) : Len(table) + q = i
    <3>1. i - Len(table) \in 1..Len(queue) /\ Len(table) + (i - Len(table)) = i
      BY <1>3, <1>6
    <3> QED
      BY <3>1
  <2>2. Waits(q, i, n, pos)
    BY <1>3, <2>1
  <2>3. CASE i > n
    BY <1>3, <2>1, <2>2, <2>3 DEF Waits, Fresh
  <2>4. CASE i <= n
    <3>1. queue[q].offset = pos[i] /\ Len(spoken[i].frags) = Size(pos, i) + Len(queue[q].data)
      BY <2>2, <2>4 DEF Waits, Begun
    <3>2. i \in 1..m
      BY <1>3, <2>4
    <3>3. pos[i] /= 0 /\ Size(pos, i) \in Nat
      BY <1>2, <3>2, Spots
    <3>4. queue[q].data = <<>>
      BY <1>1, <1>3, <3>1, <3>3 DEF Flushed
    <3>5. Len(spoken[i].frags) = Size(pos, i) + 0
      BY <3>1, <3>4
    <3>6. Size(pos, i) = Len(spoken[i].frags)
      BY <3>3, <3>5
    <3> QED
      BY <1>4, <2>4, <3>6
  <2> QED
    BY <1>3, <2>3, <2>4
<1> QED
  BY <1>5, <1>6

\* However the utterances of several users overlap, whoever's end comes first
\* and whoever leaves the server in the middle of one: a recording that was
\* stopped plays all of them, in the order in which they began.
THEOREM SavedSafe == Spec => []SavedIsSpoken
BY StorySafe, SavedInv, PTL

\* Wherever the program crashes, in a recording, in a recovery or between the
\* table and the header, and however often: what a recovery makes of the file
\* plays the utterances from the first one on without a gap.
THEOREM RecoveredSafe == Spec => []RecoveredIsSpoken
BY StorySafe, RecoveredInv, PTL

\* Of what was said before a crash no more can be missing than the utterances
\* that had not had their turn; one that has been begun is in the file with all
\* that was said of it.
THEOREM LossSafe == Spec => []LossIsBounded
BY StorySafe, LossInv, PTL
=============================================================================
