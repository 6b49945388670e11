--------------------------- MODULE V3UserListProofs ---------------------------
(***************************************************************************)
(* Theorems about V3UserList: ids stay unique, the mutex is always given   *)
(* back, no thread that owns it sees the list change, a user's phantoms go *)
(* with him, and the rows of the GUI are the users on the list.            *)
(***************************************************************************)
EXTENDS V3UserList, SequenceTheorems, WellFoundedInduction, TLAPS

\* A node whatever its serial number; the bound on the nodes is of no use here.
AnyNode == [node : Nat, id : Ids, real : Users \cup {0}]

AnyLookUp == [at : {"lock", "walk", "copy"}, id : Ids, user : AnyNode \cup {NoUser},
              for : {"event", "stop", "call"}]
Packets == [kind : Kinds, id : Ids, real : Users \cup {0}, todo : SUBSET Users]
AtRest == {"idle", "offline", "close", "destroy"}

\* What the steps below need to know of types; between packets there is no job.
Typed ==
  /\ list \in Seq(AnyNode) /\ nodes \in Nat /\ rest \in Seq(AnyNode)
  /\ owner \in Threads \cup {Nobody}
  /\ at \in NetPCs /\ (at \in AtRest \/ job \in Packets)
  /\ reader \in [Readers -> {Idle} \cup AnyLookUp]
  /\ eventq \in Seq(Events)
-----------------------------------------------------------------------------
(* The list.                                                               *)

\* A new node with an id that is not on the list leaves the ids unique.
LEMMA AppendKeepsUnique ==
  ASSUME list \in Seq(AnyNode), UniqueIds, NEW u \in AnyNode, ~On(u.id),
         list' = Append(list, u)
  PROVE  list' \in Seq(AnyNode) /\ UniqueIds'
<1>1. /\ list' \in Seq(AnyNode) /\ Len(list') = Len(list) + 1
      /\ \A i \in 1..Len(list) : list'[i] = list[i]
      /\ list'[Len(list) + 1] = u
  OBVIOUS
<1>2. DOMAIN list = 1..Len(list) /\ DOMAIN list' = 1..(Len(list) + 1)
  BY <1>1
<1>3. ASSUME NEW i \in DOMAIN list', NEW j \in DOMAIN list', list'[i].id = list'[j].id
      PROVE  i = j
  <2>1. CASE i \in DOMAIN list /\ j \in DOMAIN list
    BY <1>1, <1>2, <1>3, <2>1 DEF UniqueIds
  <2>2. CASE i \notin DOMAIN list \/ j \notin DOMAIN list
    BY <1>1, <1>2, <1>3, <2>2 DEF On
  <2> QED
    BY <2>1, <2>2
<1> QED
  BY <1>1, <1>3 DEF UniqueIds

\* So does a change of a node that keeps its id.
LEMMA UpdateKeepsUnique ==
  ASSUME list \in Seq(AnyNode), UniqueIds, NEW id, NEW real \in Users \cup {0},
         list' = [i \in DOMAIN list |->
                    IF list[i].id = id THEN [list[i] EXCEPT !.real = real] ELSE list[i]]
  PROVE  list' \in Seq(AnyNode) /\ UniqueIds'
<1>1. DOMAIN list' = DOMAIN list /\ DOMAIN list = 1..Len(list) /\ Len(list) \in Nat
  OBVIOUS
<1>2. ASSUME NEW i \in DOMAIN list
      PROVE  list'[i] \in AnyNode /\ list'[i].id = list[i].id
  <2>1. list[i] \in AnyNode /\ list'[i] = IF list[i].id = id THEN [list[i] EXCEPT !.real = real]
                                                               ELSE list[i]
    BY <1>1
  <2>2. [list[i] EXCEPT !.real = real] \in AnyNode /\ [list[i] EXCEPT !.real = real].id = list[i].id
    BY <2>1 DEF AnyNode
  <2> QED
    BY <2>1, <2>2
<1>3. list' \in [1..Len(list) -> AnyNode]
  BY <1>1, <1>2
<1>4. list' \in Seq(AnyNode)
  BY <1>1, <1>3, SeqDef
<1> QED
  BY <1>1, <1>2, <1>4 DEF UniqueIds

\* What RemoveAt of the community modules leaves of a sequence.
LEMMA RemoveAtProperties ==
  ASSUME NEW S, NEW s \in Seq(S), NEW p \in 1..Len(s)
  PROVE  /\ RemoveAt(s, p) \in Seq(S) /\ Len(RemoveAt(s, p)) = Len(s) - 1
         /\ \A i \in 1..(Len(s) - 1) : RemoveAt(s, p)[i] = IF i < p THEN s[i] ELSE s[i + 1]
<1> DEFINE a == SubSeq(s, 1, p - 1)
           b == SubSeq(s, p + 1, Len(s))
<1>1. /\ a \in Seq(S) /\ Len(a) = p - 1
      /\ \A i \in 1..(p - 1) : a[i] = s[i]
  OBVIOUS
<1>2. /\ b \in Seq(S) /\ Len(b) = Len(s) - p
      /\ \A i \in 1..(Len(s) - p) : b[i] = s[p + i]
  OBVIOUS
<1>3. RemoveAt(s, p) = a \o b
  BY DEF RemoveAt
<1> HIDE DEF a, b
<1>4. /\ a \o b \in Seq(S) /\ Len(a \o b) = Len(a) + Len(b)
      /\ \A i \in 1..(Len(a) + Len(b)) : (a \o b)[i] = IF i <= Len(a) THEN a[i] ELSE b[i - Len(a)]
  BY <1>1, <1>2, ConcatProperties
<1>5. Len(s) \in Nat /\ Len(a) + Len(b) = Len(s) - 1
  BY <1>1, <1>2
<1>6. ASSUME NEW i \in 1..(Len(s) - 1)
      PROVE  (a \o b)[i] = IF i < p THEN s[i] ELSE s[i + 1]
  <2>1. CASE i < p
    BY <1>1, <1>4, <1>5, <2>1
  <2>2. CASE ~(i < p)
    <3>1. i - (p - 1) \in 1..(Len(s) - p) /\ p + (i - (p - 1)) = i + 1
      BY <1>5, <2>2
    <3>2. (a \o b)[i] = b[i - (p - 1)]
      BY <1>1, <1>4, <1>5, <2>2
    <3> QED
      BY <1>2, <2>2, <3>1, <3>2
  <2> QED
    BY <2>1, <2>2
<1> QED
  BY <1>3, <1>4, <1>5, <1>6

\* So does the removal of a node, and it removes its id.
LEMMA RemoveKeepsUnique ==
  ASSUME list \in Seq(AnyNode), UniqueIds, NEW id, list' = Without(id)
  PROVE  list' \in Seq(AnyNode) /\ UniqueIds' /\ Range(list') = {u \in Range(list) : u.id # id}
<1>1. CASE ~On(id)
  BY <1>1 DEF Without, UniqueIds, On, Range
<1>2. CASE On(id)
  <2> DEFINE p == Place(id)
  <2>1. p \in 1..Len(list) /\ list[p].id = id
    BY <1>2 DEF On, Place
  <2>2. list' = RemoveAt(list, p)
    BY <1>2 DEF Without
  <2> HIDE DEF p
  <2>3. /\ list' \in Seq(AnyNode) /\ Len(list') = Len(list) - 1
        /\ \A i \in 1..(Len(list) - 1) : list'[i] = IF i < p THEN list[i] ELSE list[i + 1]
    BY <2>1, <2>2, RemoveAtProperties
  <2> DEFINE old(i) == IF i < p THEN i ELSE i + 1
  <2>4. \A i \in DOMAIN list' : old(i) \in DOMAIN list /\ old(i) # p /\ list'[i] = list[old(i)]
    BY <2>1, <2>3
  <2>5. \A i, j \in DOMAIN list' : old(i) = old(j) => i = j
    BY <2>1, <2>3
  <2>6. \A j \in DOMAIN list : j # p => \E i \in DOMAIN list' : old(i) = j
    <3>1. ASSUME NEW j \in DOMAIN list, j # p
          PROVE  \E i \in DOMAIN list' : old(i) = j
      <4>1. CASE j < p
        BY <2>1, <2>3, <4>1
      <4>2. CASE j > p
        <5>1. j - 1 \in DOMAIN list' /\ old(j - 1) = j
          BY <2>1, <2>3, <4>2
        <5> QED
          BY <5>1, Zenon
      <4> QED
        BY <2>1, <3>1, <4>1, <4>2
    <3> QED
      BY <3>1
  <2> HIDE DEF old
  <2>7. UniqueIds'
    BY <2>4, <2>5 DEF UniqueIds
  <2>8. p \in DOMAIN list
    BY <2>1
  <2>9. \A j \in DOMAIN list : list[j].id # id <=> j # p
    BY <2>1, <2>8 DEF UniqueIds
  <2>10. Range(list') = {u \in Range(list) : u.id # id}
    <3>1. ASSUME NEW u \in Range(list')
          PROVE  u \in Range(list) /\ u.id # id
      BY <2>4, <2>9, <3>1 DEF Range
    <3>2. ASSUME NEW u \in Range(list), u.id # id
          PROVE  u \in Range(list')
      <4>1. PICK j \in DOMAIN list : u = list[j]
        BY DEF Range
      <4>2. PICK i \in DOMAIN list' : old(i) = j
        BY <2>6, <2>9, <3>2, <4>1
      <4> QED
        BY <2>4, <4>1, <4>2 DEF Range
    <3> QED
      BY <3>1, <3>2, Zenon
  <2> QED
    BY <2>3, <2>7, <2>10
<1> QED
  BY <1>1, <1>2

UserListInv == Typed /\ UniqueIds /\ LockIsReleased
-----------------------------------------------------------------------------
(* The network thread.                                                     *)

\* What the network thread may do with the mutex: not at all, or take it
\* when it is free, or leave it free; it never holds it between packets.
LEMMA NetKeepsLock ==
  ASSUME Typed, LockIsReleased, UNCHANGED reader,
         \/ UNCHANGED owner
         \/ owner \in {Nobody, Net} /\ owner' \in {Nobody, Net}
         \/ Unlock(Net),
         at' \in AtRest => owner' # Net
  PROVE  LockIsReleased' /\ owner' \in Threads \cup {Nobody}
BY UserListAssumption DEF Typed, LockIsReleased, Unlock, Threads, AtRest

\* One round of the loop of the 0x5d handler.
LEMMA RoundStep ==
  ASSUME Typed, NEW first \in NetPCs, at \notin AtRest, Round(first)
  PROVE  /\ at' \in NetPCs /\ (at' \in AtRest \/ job' \in Packets)
         /\ UNCHANGED owner \/ Unlock(Net)
         /\ at' \in AtRest => owner' # Net \/ first \in AtRest
<1>1. job \in Packets
  BY DEF Typed
<1>2. CASE job.todo = {}
  BY <1>2, UserListAssumption DEF Round, Unlock, NetPCs, AtRest
<1>3. CASE job.todo # {}
  <2>1. PICK i \in job.todo : job' = [job EXCEPT !.id = i, !.todo = @ \ {i}]
    BY <1>3 DEF Round
  <2>2. i \in Ids /\ job.todo \ {i} \in SUBSET Users
    BY <1>1, <2>1 DEF Packets, Ids
  <2>3. job' \in Packets
    BY <1>1, <2>1, <2>2 DEF Packets
  <2> QED
    BY <1>3, <2>3 DEF Round, AtRest
<1> QED
  BY <1>2, <1>3

LEMMA QueueTyped ==
  ASSUME eventq \in Seq(Events), NEW type \in EventTypes, NEW id \in Ids, Queue(type, id)
  PROVE  eventq' \in Seq(Events)
<1>1. [type |-> type, id |-> id] \in Events
  BY DEF Events
<1> QED
  BY <1>1 DEF Queue

\* A step of the network thread that leaves the list alone.
LEMMA NetKeepsInv ==
  ASSUME UserListInv, UNCHANGED <<list, nodes, reader>>,
         \/ UNCHANGED owner
         \/ owner \in {Nobody, Net} /\ owner' \in {Nobody, Net}
         \/ Unlock(Net),
         at' \in AtRest => owner' # Net,
         rest' \in Seq(AnyNode), at' \in NetPCs, at' \in AtRest \/ job' \in Packets,
         eventq' \in Seq(Events)
  PROVE  UserListInv'
<1>1. LockIsReleased' /\ owner' \in Threads \cup {Nobody}
  BY NetKeepsLock DEF UserListInv
<1>2. UniqueIds'
  BY DEF UserListInv, UniqueIds
<1> QED
  BY <1>1, <1>2 DEF UserListInv, Typed

LEMMA PacketStep ==
  ASSUME UserListInv, Packet
  PROVE  UserListInv'
<1> USE UserListAssumption
<1>1. at = "idle" /\ rest \in Seq(AnyNode) /\ eventq \in Seq(Events) /\ Ids = Users \cup Phantoms
  BY DEF Packet, Packet5d, PacketPhantom, PacketUnphantom, PacketSetting, Listening,
         UserListInv, Typed, Ids
<1>2. ASSUME NEW ids \in SUBSET Users, NEW kind \in {"add", "modify", "remove", "rank"},
             Packet5d(kind, ids)
      PROVE  UserListInv'
  <2>1. PICK i \in ids : job' = [kind |-> kind, id |-> i, real |-> 0, todo |-> ids \ {i}]
    BY <1>2 DEF Packet5d
  <2>2. job' \in Packets
    BY <1>1, <2>1 DEF Packets, Kinds
  <2>3. at' \in NetPCs \ AtRest
    BY <1>2 DEF Packet5d, FirstStep, NetPCs, AtRest
  <2> QED
    BY <1>1, <1>2, <2>2, <2>3, NetKeepsInv DEF Packet5d, Lock, listVars, apiVars
<1>3. ASSUME NEW p \in Phantoms, NEW real \in Users, PacketPhantom(p, real)
      PROVE  UserListInv'
  <2>1. job' \in Packets /\ at' \in NetPCs \ AtRest
    BY <1>1, <1>3 DEF PacketPhantom, Packets, Kinds, NetPCs, AtRest
  <2> QED
    BY <1>1, <1>3, <2>1, NetKeepsInv DEF PacketPhantom, listVars, lockVars, apiVars
<1>4. ASSUME NEW p \in Phantoms, PacketUnphantom(p)
      PROVE  UserListInv'
  <2>1. job' \in Packets /\ at' \in NetPCs \ AtRest
    BY <1>1, <1>4 DEF PacketUnphantom, Packets, Kinds, NetPCs, AtRest
  <2> QED
    BY <1>1, <1>4, <2>1, NetKeepsInv DEF PacketUnphantom, listVars, lockVars, apiVars
<1>5. ASSUME NEW kind \in {"setting", "mute"}, NEW i \in Ids, PacketSetting(kind, i)
      PROVE  UserListInv'
  <2>1. job' \in Packets /\ at' \in NetPCs \ AtRest
    BY <1>1, <1>5 DEF PacketSetting, Packets, Kinds, NetPCs, AtRest
  <2> QED
    BY <1>1, <1>5, <2>1, NetKeepsInv DEF PacketSetting, Lock, listVars, apiVars
<1> QED
  BY <1>2, <1>3, <1>4, <1>5 DEF Packet

LEMMA ComeStep ==
  ASSUME UserListInv, PhantomName \/ UpdateUser \/ Tell
  PROVE  UserListInv'
<1> USE UserListAssumption
<1>1. /\ list \in Seq(AnyNode) /\ rest \in Seq(AnyNode) /\ eventq \in Seq(Events) /\ nodes \in Nat
      /\ UniqueIds /\ job \in Packets /\ at \notin AtRest
  BY DEF UserListInv, Typed, PhantomName, UpdateUser, Tell, AtRest
<1>2. CASE PhantomName
  BY <1>1, <1>2, NetKeepsInv DEF PhantomName, LockAndUnlock, NetPCs, AtRest, listVars, apiVars
<1>3. CASE UpdateUser
  <2>1. list' \in Seq(AnyNode) /\ UniqueIds'
    <3>1. CASE On(job.id)
      <4>1. list' = [i \in DOMAIN list |->
                       IF list[i].id = job.id THEN [list[i] EXCEPT !.real = job.real] ELSE list[i]]
        BY <1>3, <3>1, Zenon DEF UpdateUser
      <4>2. job.real \in Users \cup {0}
        BY <1>1 DEF Packets
      <4> QED
        BY <1>1, <4>1, <4>2, UpdateKeepsUnique, Zenon
    <3>2. CASE ~On(job.id)
      <4>1. [node |-> nodes + 1, id |-> job.id, real |-> job.real] \in AnyNode
        BY <1>1 DEF AnyNode, Packets
      <4> QED
        BY <1>1, <1>3, <3>2, <4>1, AppendKeepsUnique DEF UpdateUser
    <3> QED
      BY <3>1, <3>2
  <2>2. nodes' \in Nat
    BY <1>1, <1>3 DEF UpdateUser
  <2>3. LockIsReleased' /\ owner' \in Threads \cup {Nobody}
    BY <1>3, NetKeepsLock DEF UpdateUser, LockAndUnlock, UserListInv, apiVars
  <2> QED
    BY <1>1, <1>3, <2>1, <2>2, <2>3
    DEF UserListInv, Typed, UpdateUser, LockAndUnlock, NetPCs, apiVars
<1>4. CASE Tell
  <2> DEFINE first == IF job.kind = "rank" THEN "find" ELSE "update"
  <2>1. first \in NetPCs /\ first \notin AtRest /\ Round(first)
    BY <1>4 DEF Tell, NetPCs, AtRest
  <2>2. /\ at' \in NetPCs /\ (at' \in AtRest \/ job' \in Packets)
        /\ UNCHANGED owner \/ Unlock(Net)
        /\ at' \in AtRest => owner' # Net
    <3> HIDE DEF first
    <3> QED
      BY <1>1, <2>1, RoundStep DEF UserListInv
  <2>3. PICK type \in EventTypes : Queue(type, job.id)
    BY <1>4 DEF Tell, EventTypes
  <2>4. eventq' \in Seq(Events)
    BY <1>1, <2>3, QueueTyped DEF Packets
  <2> QED
    BY <1>1, <1>4, <2>2, <2>4, NetKeepsInv DEF Tell, listVars, apiVars
<1> QED
  BY <1>2, <1>3, <1>4

\* A step of the network thread that removes a user from the list.
LEMMA RemovalStep ==
  ASSUME UserListInv, NEW id, list' = Without(id), LockAndUnlock, UNCHANGED <<nodes, reader>>,
         rest' \in Seq(AnyNode), at' \in NetPCs, at' \notin AtRest, job' \in Packets,
         eventq' \in Seq(Events)
  PROVE  UserListInv'
<1>1. list' \in Seq(AnyNode) /\ UniqueIds'
  BY RemoveKeepsUnique DEF UserListInv, Typed
<1>2. LockIsReleased' /\ owner' \in Threads \cup {Nobody}
  BY NetKeepsLock, UserListAssumption DEF UserListInv, LockAndUnlock
<1> QED
  BY <1>1, <1>2 DEF UserListInv, Typed

LEMMA SettingStep ==
  ASSUME UserListInv, Record \/ FindUser \/ WriteUser \/ EndSetting
  PROVE  UserListInv'
<1> USE UserListAssumption
<1>1. /\ rest \in Seq(AnyNode) /\ eventq \in Seq(Events) /\ job \in Packets /\ at \notin AtRest
  BY DEF UserListInv, Typed, Record, FindUser, WriteUser, EndSetting, AtRest
<1>2. CASE Record
  <2>1. UNCHANGED owner \/ (owner \in {Nobody, Net} /\ owner' \in {Nobody, Net})
    BY <1>2 DEF Record, LockAndUnlock
  <2>2. at' \in NetPCs \ AtRest
    BY <1>2 DEF Record, NetPCs, AtRest
  <2> QED
    BY <1>1, <1>2, <2>1, <2>2, NetKeepsInv DEF Record, listVars, apiVars
<1>3. CASE FindUser
  BY <1>1, <1>3, NetKeepsInv DEF FindUser, LockAndUnlock, NetPCs, AtRest, listVars, apiVars
<1>4. CASE WriteUser
  <2>1. at' \in NetPCs \ AtRest
    BY <1>4 DEF WriteUser, NetPCs, AtRest
  <2>2. eventq' \in Seq(Events)
    <3>1. CASE UNCHANGED eventq
      BY <1>1, <3>1
    <3>2. CASE Queue("MUTE_CHANGED", job.id)
      BY <1>1, <3>2, QueueTyped DEF EventTypes, Packets
    <3> QED
      BY <1>4, <3>1, <3>2 DEF WriteUser
  <2> QED
    BY <1>1, <1>4, <2>1, <2>2, NetKeepsInv DEF WriteUser, lockVars, listVars, apiVars
<1>5. CASE EndSetting
  <2>1. Unlock(Net) /\ owner' # Net /\ at' \in NetPCs /\ at' \in AtRest
    BY <1>5 DEF EndSetting, Unlock, NetPCs, AtRest
  <2> QED
    BY <1>1, <1>5, <2>1, NetKeepsInv DEF EndSetting, listVars, apiVars
<1> QED
  BY <1>2, <1>3, <1>4, <1>5

\* What is left of a sequence after its n-th element.
LEMMA RestTyped ==
  ASSUME NEW S, NEW s \in Seq(S), NEW n \in 1..Len(s)
  PROVE  SubSeq(s, n + 1, Len(s)) \in Seq(S)
BY SubSeqProperties

LEMMA GoStep ==
  ASSUME UserListInv, RemoveUser \/ Logout \/ WalkPhantom \/ WalkEnd
  PROVE  UserListInv'
<1> USE UserListAssumption
<1>1. /\ list \in Seq(AnyNode) /\ rest \in Seq(AnyNode) /\ eventq \in Seq(Events)
      /\ job \in Packets /\ at \in NetPCs /\ at \notin AtRest
  BY DEF UserListInv, Typed, RemoveUser, Logout, WalkPhantom, WalkEnd, AtRest
<1>2. CASE RemoveUser
  <2>1. at' \in NetPCs /\ at' \notin AtRest
    BY <1>2 DEF RemoveUser, NetPCs, AtRest
  <2> QED
    BY <1>1, <1>2, <2>1, RemovalStep DEF RemoveUser, apiVars
<1>3. CASE Logout
  <2>1. eventq' \in Seq(Events)
    BY <1>1, <1>3, QueueTyped DEF Logout, EventTypes, Packets
  <2>2. CASE job.kind = "remove"
    <3>1. at' \in NetPCs \ AtRest
      BY <1>3, <2>2 DEF Logout, NetPCs, AtRest
    <3> QED
      BY <1>1, <1>3, <2>1, <2>2, <3>1, NetKeepsInv DEF Logout, listVars, apiVars
  <2>3. CASE job.kind # "remove"
    <3>1. Round("remove") /\ "remove" \in NetPCs /\ "remove" \notin AtRest /\ UNCHANGED rest
      BY <1>3, <2>3 DEF Logout, NetPCs, AtRest
    <3>2. /\ at' \in NetPCs /\ (at' \in AtRest \/ job' \in Packets)
          /\ UNCHANGED owner \/ Unlock(Net)
          /\ at' \in AtRest => owner' # Net
      BY <1>1, <3>1, RoundStep DEF UserListInv
    <3> QED
      BY <1>1, <1>3, <2>1, <3>1, <3>2, NetKeepsInv DEF Logout, listVars, apiVars
  <2> QED
    BY <2>2, <2>3
<1>4. CASE WalkPhantom
  <2>1. PICK n \in DOMAIN rest :
          /\ list' = Without(rest[n].id) /\ Queue("LOGOUT", rest[n].id)
          /\ rest' = SubSeq(rest, n + 1, Len(rest)) \/ rest' = <<>>
    BY <1>4 DEF WalkPhantom
  <2>2. n \in 1..Len(rest) /\ Len(rest) \in Nat /\ rest[n] \in AnyNode
    <3>1. DOMAIN rest = 1..Len(rest) /\ \A k \in DOMAIN rest : rest[k] \in AnyNode
      BY <1>1
    <3>2. n \in DOMAIN rest
      BY <2>1
    <3> QED
      BY <1>1, <3>1, <3>2
  <2>3. rest[n].id \in Ids
    BY <2>2 DEF AnyNode
  <2>4. rest' \in Seq(AnyNode)
    <3>1. SubSeq(rest, n + 1, Len(rest)) \in Seq(AnyNode)
      BY <1>1, <2>2, RestTyped
    <3>2. <<>> \in Seq(AnyNode)
      OBVIOUS
    <3> QED
      BY <2>1, <3>1, <3>2
  <2>5. eventq' \in Seq(Events)
    BY <1>1, <2>1, <2>3, QueueTyped DEF EventTypes
  <2> QED
    BY <1>1, <1>4, <2>1, <2>4, <2>5, RemovalStep DEF WalkPhantom, apiVars
<1>5. CASE WalkEnd
  <2>1. Round("record") /\ "record" \in NetPCs /\ "record" \notin AtRest /\ rest' = <<>>
    BY <1>5 DEF WalkEnd, NetPCs, AtRest
  <2>2. /\ at' \in NetPCs /\ (at' \in AtRest \/ job' \in Packets)
        /\ UNCHANGED owner \/ Unlock(Net)
        /\ at' \in AtRest => owner' # Net
    BY <1>1, <2>1, RoundStep DEF UserListInv
  <2>3. rest' \in Seq(AnyNode)
    BY <2>1
  <2> QED
    BY <1>1, <1>5, <2>2, <2>3, NetKeepsInv DEF WalkEnd, listVars, apiVars
<1> QED
  BY <1>2, <1>3, <1>4, <1>5

LEMMA SessionStep ==
  ASSUME UserListInv, Login \/ LoginComplete \/ Disconnect \/ Close \/ DestroyList
  PROVE  UserListInv'
<1> USE UserListAssumption
<1>1. /\ rest \in Seq(AnyNode) /\ eventq \in Seq(Events) /\ at \in AtRest /\ owner # Net
  BY DEF UserListInv, Typed, LockIsReleased, Login, LoginComplete, Disconnect, Close, DestroyList, AtRest
<1>2. CASE Login \/ LoginComplete \/ Close
  BY <1>1, <1>2, NetKeepsInv
  DEF Login, LoginComplete, Close, NetPCs, AtRest, listVars, lockVars, apiVars, netVars
<1>3. CASE Disconnect
  <2>1. eventq' \in Seq(Events)
    <3>1. [type |-> "DISCONNECT", id |-> 0] \in Events
      BY DEF Events
    <3> QED
      BY <1>1, <1>3, <3>1 DEF Disconnect, Queue
  <2>2. at' \in NetPCs /\ at' \in AtRest /\ UNCHANGED owner /\ UNCHANGED rest
    BY <1>3 DEF Disconnect, NetPCs, AtRest, lockVars
  <2> QED
    BY <1>1, <1>3, <2>1, <2>2, NetKeepsInv DEF Disconnect, listVars, apiVars
<1>4. CASE DestroyList
  <2>1. list' \in Seq(AnyNode) /\ UniqueIds'
    BY <1>4 DEF DestroyList, UniqueIds
  <2>2. LockIsReleased' /\ owner' \in Threads \cup {Nobody}
    BY <1>1, <1>4, NetKeepsLock DEF DestroyList, UserListInv, lockVars, apiVars
  <2> QED
    BY <1>4, <2>1, <2>2
    DEF DestroyList, UserListInv, Typed, NetPCs, AtRest, lockVars, apiVars
<1> QED
  BY <1>2, <1>3, <1>4
-----------------------------------------------------------------------------
(* The API threads.                                                        *)

\* A step of a reader r that neither takes nor gives back the mutex.
LEMMA ApiKeepsInv ==
  ASSUME UserListInv, UNCHANGED <<listVars, netVars, owner>>,
         reader' \in [Readers -> {Idle} \cup AnyLookUp],
         \A r \in Readers : reader'[r].at = "walk" <=> reader[r].at = "walk",
         eventq' \in Seq(Events)
  PROVE  UserListInv'
<1>1. LockIsReleased'
  BY DEF UserListInv, LockIsReleased, netVars
<1>2. UniqueIds'
  BY DEF UserListInv, UniqueIds, listVars
<1> QED
  BY <1>1, <1>2 DEF UserListInv, Typed, netVars, listVars

\* A look-up begins.
LEMMA BeginStep ==
  ASSUME reader \in [Readers -> {Idle} \cup AnyLookUp], NEW r \in Readers, NEW id \in Ids,
         NEW for \in {"event", "stop", "call"}, reader[r] = Idle, Begin(r, id, for)
  PROVE  /\ reader' \in [Readers -> {Idle} \cup AnyLookUp]
         /\ \A s \in Readers : reader'[s].at = "walk" <=> reader[s].at = "walk"
<1>1. [at |-> "lock", id |-> id, user |-> NoUser, for |-> for] \in AnyLookUp
  BY DEF AnyLookUp
<1> QED
  BY <1>1 DEF Begin, Idle

LEMMA LookUpStep ==
  ASSUME UserListInv, NEW r \in Readers, LookUpLock(r) \/ LookUpWalk(r) \/ LookUpCopy(r)
  PROVE  UserListInv'
<1> USE UserListAssumption
<1>1. /\ list \in Seq(AnyNode) /\ eventq \in Seq(Events)
      /\ reader \in [Readers -> {Idle} \cup AnyLookUp] /\ reader[r] \in AnyLookUp
  BY DEF UserListInv, Typed, LookUpLock, LookUpWalk, LookUpCopy, Idle
<1>2. UNCHANGED <<listVars, netVars, eventq>> /\ UniqueIds'
  BY DEF LookUpLock, LookUpWalk, LookUpCopy, UserListInv, UniqueIds, listVars
<1>3. CASE LookUpLock(r)
  <2>1. /\ reader' \in [Readers -> {Idle} \cup AnyLookUp]
        /\ \A s \in Readers : reader'[s].at = IF s = r THEN "walk" ELSE reader[s].at
    BY <1>1, <1>3 DEF LookUpLock, AnyLookUp
  <2>2. owner = Nobody /\ owner' = r /\ UNCHANGED at
    BY <1>3 DEF LookUpLock, Lock, netVars
  <2>3. LockIsReleased' /\ owner' \in Threads \cup {Nobody}
    BY <2>1, <2>2 DEF UserListInv, LockIsReleased, Threads
  <2> QED
    BY <1>1, <1>2, <2>1, <2>3 DEF UserListInv, Typed, listVars, netVars
<1>4. CASE LookUpWalk(r)
  <2>1. Find(reader[r].id) \in AnyNode \cup {NoUser}
    BY <1>1 DEF Find, On, Place
  <2>2. /\ reader' \in [Readers -> {Idle} \cup AnyLookUp]
        /\ \A s \in Readers : reader'[s].at = IF s = r THEN "copy" ELSE reader[s].at
    BY <1>1, <1>4, <2>1 DEF LookUpWalk, AnyLookUp
  <2>3. owner = r /\ owner' = Nobody /\ UNCHANGED at
    BY <1>4 DEF LookUpWalk, Unlock, netVars, UserListInv, LockIsReleased
  <2>4. LockIsReleased' /\ owner' \in Threads \cup {Nobody}
    BY <2>2, <2>3 DEF UserListInv, LockIsReleased, Threads
  <2> QED
    BY <1>1, <1>2, <2>2, <2>4 DEF UserListInv, Typed, listVars, netVars
<1>5. CASE LookUpCopy(r)
  <2>1. /\ reader' \in [Readers -> {Idle} \cup AnyLookUp]
        /\ \A s \in Readers : reader'[s].at = "walk" <=> reader[s].at = "walk"
    BY <1>1, <1>5 DEF LookUpCopy, Idle
  <2> QED
    BY <1>1, <1>2, <1>5, <2>1, ApiKeepsInv DEF LookUpCopy
<1> QED
  BY <1>3, <1>4, <1>5

LEMMA GuiStep ==
  ASSUME UserListInv,
         \/ GuiEvent \/ StartRecording \/ (\E i \in Ids : StopRecording(i))
         \/ \E r \in Readers, i \in Ids : GetUser(r, i)
  PROVE  UserListInv'
<1> USE UserListAssumption
<1>1. eventq \in Seq(Events) /\ reader \in [Readers -> {Idle} \cup AnyLookUp]
  BY DEF UserListInv, Typed
<1>2. CASE GuiEvent
  <2>1. eventq # <<>> /\ reader[Gui] = Idle /\ eventq' = Tail(eventq)
    BY <1>2 DEF GuiEvent
  <2>2. eventq' \in Seq(Events) /\ Head(eventq) \in Events
    BY <1>1, <2>1
  <2>3. CASE UNCHANGED reader
    BY <1>1, <1>2, <2>2, <2>3, ApiKeepsInv DEF GuiEvent, lockVars
  <2>4. CASE \E for \in {"event", "call"} :
               Head(eventq).type \in EventTypes /\ Begin(Gui, Head(eventq).id, for)
    <3>1. Head(eventq).id \in Ids
      BY <2>2, <2>4 DEF Events, EventTypes
    <3> QED
      BY <1>1, <1>2, <2>1, <2>2, <2>4, <3>1, BeginStep, ApiKeepsInv DEF GuiEvent, lockVars
  <2> QED
    BY <1>2, <2>3, <2>4 DEF GuiEvent, EventTypes
<1>3. CASE StartRecording
  BY <1>1, <1>3, ApiKeepsInv DEF StartRecording
<1>4. ASSUME NEW i \in Ids, StopRecording(i)
      PROVE  UserListInv'
  BY <1>1, <1>4, BeginStep, ApiKeepsInv DEF StopRecording
<1>5. ASSUME NEW r \in Readers, NEW i \in Ids, GetUser(r, i)
      PROVE  UserListInv'
  BY <1>1, <1>5, BeginStep, ApiKeepsInv DEF GetUser, lockVars
<1> QED
  BY <1>2, <1>3, <1>4, <1>5
-----------------------------------------------------------------------------
(* The theorems.                                                           *)

LEMMA UserListInductive ==
  Spec => []UserListInv
<1>1. Init => UserListInv
  <2> SUFFICES ASSUME Init PROVE UserListInv
    OBVIOUS
  <2> USE UserListAssumption
  <2>1. <<>> \in Seq(AnyNode) /\ <<>> \in Seq(Events)
    OBVIOUS
  <2>2. reader \in [Readers -> {Idle} \cup AnyLookUp] /\ \A r \in Readers : reader[r].at = "idle"
    BY DEF Init, Idle
  <2>3. LockIsReleased
    BY <2>2 DEF Init, LockIsReleased
  <2> QED
    BY <2>1, <2>2, <2>3 DEF Init, UserListInv, Typed, UniqueIds, AtRest, NetPCs, Threads
<1>2. UserListInv /\ [Next]_vars => UserListInv'
  <2> SUFFICES ASSUME UserListInv, [Next]_vars PROVE UserListInv'
    OBVIOUS
  <2>1. CASE UNCHANGED vars
    BY <2>1 DEF vars, listVars, lockVars, netVars, apiVars, UserListInv, Typed, UniqueIds,
                LockIsReleased, On
  <2>2. CASE Network
    BY <2>2, PacketStep, ComeStep, SettingStep, GoStep, SessionStep DEF Network
  <2>3. CASE Api
    BY <2>3, GuiStep, LookUpStep DEF Api
  <2> QED
    BY <2>1, <2>2, <2>3 DEF Next
<1> QED
  BY <1>1, <1>2, PTL DEF Spec

\* The ids on the user list are unique: whatever packets come, in whatever
\* order, _v3_update_user never adds a user who is there.
THEOREM ListSafe == Spec => []UniqueIds
BY UserListInductive, PTL DEF UserListInv

\* The ERRORCHECK mutex is always given back: the network thread does not
\* hold it between packets, v3_get_user only while it walks the list.
THEOREM LockSafe == Spec => []LockIsReleased
BY UserListInductive, PTL DEF UserListInv

\* Who walks the list with the mutex does not see it change, although the
\* handlers of the network thread lose the mutex half-way.
THEOREM WalkSafe == Spec => StableUnderLock
<1>1. UserListInv /\ [Next]_vars
        => [list' # list /\ at # "destroy" => \A r \in Readers : reader[r].at # "walk"]_list
  <2> SUFFICES ASSUME UserListInv, [Next]_vars, list' # list, at # "destroy",
                      NEW r \in Readers, reader[r].at = "walk"
               PROVE  FALSE
    OBVIOUS
  <2>1. owner = r /\ r # Nobody /\ r # Net
    BY UserListAssumption DEF UserListInv, LockIsReleased
  <2>2. UpdateUser \/ RemoveUser \/ WalkPhantom
    BY DEF Next, Network, Api, Packet, Login, LoginComplete, Packet5d, PacketPhantom,
           PacketUnphantom, PacketSetting, PhantomName, Tell, Record, FindUser, WriteUser,
           EndSetting, Logout, WalkEnd, Disconnect, Close, DestroyList, GuiEvent,
           StartRecording, StopRecording, GetUser, LookUpLock, LookUpWalk, LookUpCopy,
           vars, listVars, lockVars
  <2>3. owner \in {Nobody, Net}
    BY <2>2 DEF UpdateUser, RemoveUser, WalkPhantom, LockAndUnlock
  <2> QED
    BY <2>1, <2>3
<1> QED
  BY <1>1, UserListInductive, PTL DEF Spec, StableUnderLock
-----------------------------------------------------------------------------
(* Phantoms: what a packet in progress is about, and who is an orphan.     *)

\* Which steps of the network thread a packet goes through, and whom it is
\* about: only one that makes a phantom names a real user, only a 0x5d has
\* more users to handle.
JobFits ==
  at \notin AtRest =>
    /\ job.kind \in {"add", "modify"} => at \in {"update", "tell"}
    /\ job.kind = "rank" => at \in {"find", "write", "tell"}
    /\ job.kind = "remove" => at \in {"record", "find", "remove", "logout", "walk"}
    /\ job.kind = "phantom" => at \in {"name", "update", "tell"}
    /\ job.kind = "unphantom" => at \in {"remove", "logout"}
    /\ job.kind \in {"setting", "mute"} => at \in {"find", "write", "record", "unlock"}
    /\ job.kind = "phantom" => job.real \in Users
    /\ job.kind # "phantom" => job.real = 0
    /\ job.kind \in {"phantom", "unphantom"} => job.id \in Phantoms
    /\ job.kind \in {"add", "modify", "rank", "remove"} => job.id \in Users
    /\ job.kind \notin {"add", "modify", "rank", "remove"} => job.todo = {}

\* Only the nodes of phantoms have a real user.
OnlyPhantoms == \A u \in Range(list) \cup Range(rest) : u.real # 0 => u.id \in Phantoms

Orphan(u) == u.real # 0 /\ ~On(u.real)

\* The handler of 0x5d is on its way to this phantom of the user it removes.
Doomed(u) ==
  /\ at \in {"logout", "walk"} /\ job.kind = "remove" /\ u.real = job.id
  /\ at = "walk" => u \in Range(rest)

NoOrphans == ~Reuse => \A u \in Range(list) : Orphan(u) => Doomed(u)

\* The user a phantom is made for is still there when it is put on the list.
RealIsOn == at \in {"name", "update"} /\ job.kind = "phantom" => On(job.real)

PhantomInv == JobFits /\ OnlyPhantoms /\ NoOrphans /\ RealIsOn

LEMMA OnIsInRange ==
  ASSUME NEW id
  PROVE  On(id) <=> \E u \in Range(list) : u.id = id
BY DEF On, Range

LEMMA OnIsInRangeNext ==
  ASSUME NEW id
  PROVE  On(id)' <=> \E u \in Range(list') : u.id = id
BY DEF On, Range

LEMMA NodesOf ==
  ASSUME NEW s \in Seq(AnyNode), NEW u \in Range(s)
  PROVE  u \in AnyNode
BY DEF Range

\* The two ways a round of the loop in the 0x5d handler ends.
LEMMA RoundCases ==
  ASSUME Typed, at \notin AtRest, NEW first, Round(first)
  PROVE  \/ job.todo = {} /\ at' = "idle" /\ job' = NoJob
         \/ /\ job.todo # {} /\ at' = first
            /\ \E i \in job.todo :
                 /\ i \in Users /\ job'.kind = job.kind /\ job'.id = i /\ job'.real = job.real
                 /\ job'.todo = job.todo \ {i}
<1>1. job \in Packets
  BY DEF Typed
<1>2. CASE job.todo = {}
  BY <1>2 DEF Round
<1>3. CASE job.todo # {}
  <2>1. PICK i \in job.todo : job' = [job EXCEPT !.id = i, !.todo = @ \ {i}]
    BY <1>3 DEF Round
  <2>2. /\ i \in Users /\ job'.kind = job.kind /\ job'.id = i /\ job'.real = job.real
        /\ job'.todo = job.todo \ {i}
    BY <1>1, <2>1 DEF Packets
  <2> QED
    BY <1>3, <2>2 DEF Round
<1> QED
  BY <1>2, <1>3

LEMMA RoundFits ==
  ASSUME Typed, JobFits, at \notin AtRest, NEW first, Round(first),
         job.kind \in {"add", "modify"} => first = "update",
         job.kind = "rank" => first = "find",
         job.kind = "remove" => first = "record"
  PROVE  JobFits' /\ RealIsOn'
<1>1. CASE at' = "idle"
  BY <1>1 DEF JobFits, AtRest, RealIsOn
<1>2. CASE job.todo # {}
  <2>1. job.kind \in {"add", "modify", "rank", "remove"} /\ job.real = 0
    BY <1>2 DEF JobFits
  <2>2. /\ job'.id \in Users /\ job'.kind = job.kind /\ job'.real = job.real
        /\ at' = first
    BY <1>2, RoundCases
  <2> QED
    BY <2>1, <2>2 DEF JobFits, RealIsOn
<1> QED
  BY <1>1, <1>2, RoundCases

\* A step that leaves the list and the walk alone, and does not leave a walk.
LEMMA QuietOrphans ==
  ASSUME PhantomInv, UNCHANGED list, rest' = rest \/ rest' = <<>>,
         at \notin {"logout", "walk"}
  PROVE  OnlyPhantoms' /\ NoOrphans'
<1>1. Range(rest') \in SUBSET Range(rest)
  BY DEF Range
<1>2. OnlyPhantoms'
  BY <1>1 DEF PhantomInv, OnlyPhantoms
<1>3. ASSUME ~Reuse, NEW u \in Range(list)
      PROVE  ~Orphan(u)'
  BY <1>3 DEF PhantomInv, NoOrphans, Orphan, Doomed, On
<1>4. NoOrphans'
  BY <1>3 DEF NoOrphans
<1> QED
  BY <1>2, <1>4

LEMMA PacketFits ==
  ASSUME UserListInv, PhantomInv, Packet
  PROVE  PhantomInv'
<1>1. at = "idle" /\ UNCHANGED <<list, rest>>
  BY DEF Packet, Packet5d, PacketPhantom, PacketUnphantom, PacketSetting, Listening, listVars
<1>2. OnlyPhantoms' /\ NoOrphans'
  BY <1>1, QuietOrphans
<1>3. ASSUME NEW ids \in SUBSET Users, NEW kind \in {"add", "modify", "remove", "rank"},
             Packet5d(kind, ids)
      PROVE  JobFits' /\ RealIsOn'
  <2>1. PICK i \in ids : job' = [kind |-> kind, id |-> i, real |-> 0, todo |-> ids \ {i}]
    BY <1>3 DEF Packet5d
  <2>2. job'.kind = kind /\ job'.id \in Users /\ job'.real = 0 /\ at' = FirstStep(kind)
    BY <1>3, <2>1 DEF Packet5d
  <2> QED
    BY <2>2 DEF JobFits, RealIsOn, FirstStep
<1>4. ASSUME NEW p \in Phantoms, NEW real \in Users, PacketPhantom(p, real)
      PROVE  JobFits' /\ RealIsOn'
  <2>1. /\ job'.kind = "phantom" /\ job'.id = p /\ job'.real = real /\ job'.todo = {}
        /\ at' = "name" /\ On(real)
    BY <1>4 DEF PacketPhantom
  <2> QED
    BY <1>1, <2>1 DEF JobFits, RealIsOn, On
<1>5. ASSUME NEW p \in Phantoms, PacketUnphantom(p)
      PROVE  JobFits' /\ RealIsOn'
  BY <1>5 DEF PacketUnphantom, JobFits, RealIsOn
<1>6. ASSUME NEW kind \in {"setting", "mute"}, NEW i \in Ids, PacketSetting(kind, i)
      PROVE  JobFits' /\ RealIsOn'
  BY <1>6 DEF PacketSetting, JobFits, RealIsOn
<1> QED
  BY <1>2, <1>3, <1>4, <1>5, <1>6 DEF Packet, PhantomInv

\* What _v3_update_user makes of the list.
LEMMA UpdateRange ==
  ASSUME Typed, job \in Packets, UpdateUser
  PROVE  /\ \A x : On(x)' <=> On(x) \/ x = job.id
         /\ \A u \in Range(list') : u \in Range(list) \/ (u.id = job.id /\ u.real = job.real)
<1>1. list \in Seq(AnyNode) /\ DOMAIN list = 1..Len(list) /\ Len(list) \in Nat
  BY DEF Typed
<1>2. CASE On(job.id)
  <2>1. list' = [i \in DOMAIN list |->
                   IF list[i].id = job.id THEN [list[i] EXCEPT !.real = job.real] ELSE list[i]]
    BY <1>2, Zenon DEF UpdateUser
  <2>2. ASSUME NEW i \in DOMAIN list
        PROVE  /\ list'[i].id = list[i].id
               /\ list'[i] = list[i] \/ (list'[i].id = job.id /\ list'[i].real = job.real)
    <3>1. list[i] \in AnyNode /\ list'[i] = IF list[i].id = job.id
                                            THEN [list[i] EXCEPT !.real = job.real] ELSE list[i]
      BY <1>1, <2>1
    <3> QED
      BY <3>1 DEF AnyNode
  <2>3. DOMAIN list' = DOMAIN list
    BY <2>1
  <2> QED
    BY <1>2, <2>2, <2>3 DEF On, Range
<1>3. CASE ~On(job.id)
  <2> DEFINE u == [node |-> nodes + 1, id |-> job.id, real |-> job.real]
  <2>1. u.id = job.id /\ u.real = job.real
    OBVIOUS
  <2>2. u \in AnyNode
    <3>1. nodes + 1 \in Nat
      BY DEF Typed
    <3>2. job.id \in Ids /\ job.real \in Users \cup {0}
      BY DEF Packets
    <3> QED
      BY <3>1, <3>2 DEF AnyNode
  <2>3. list' = Append(list, u)
    BY <1>3 DEF UpdateUser
  <2> HIDE DEF u
  <2>4. /\ DOMAIN list' = DOMAIN list \cup {Len(list) + 1} /\ list'[Len(list) + 1] = u
        /\ \A i \in DOMAIN list : list'[i] = list[i]
    BY <1>1, <2>2, <2>3
  <2> QED
    BY <2>1, <2>4 DEF On, Range
<1> QED
  BY <1>2, <1>3

LEMMA ComeFits ==
  ASSUME UserListInv, PhantomInv, PhantomName \/ UpdateUser \/ Tell
  PROVE  PhantomInv'
<1> USE UserListAssumption
<1>1. Typed /\ job \in Packets /\ at \notin AtRest /\ UNCHANGED rest
  BY DEF UserListInv, Typed, PhantomName, UpdateUser, Tell, AtRest
<1>2. CASE PhantomName
  <2>1. UNCHANGED <<list, job, rest>> /\ at = "name" /\ at' = "update"
    BY <1>2 DEF PhantomName, listVars
  <2>2. OnlyPhantoms' /\ NoOrphans'
    BY <2>1, QuietOrphans
  <2>3. job.kind = "phantom"
    BY <1>1, <2>1 DEF PhantomInv, JobFits, Packets, Kinds
  <2>4. JobFits' /\ RealIsOn'
    BY <1>1, <2>1, <2>3 DEF PhantomInv, JobFits, RealIsOn, On
  <2> QED
    BY <2>2, <2>4 DEF PhantomInv
<1>3. CASE UpdateUser
  <2>1. UNCHANGED <<job, rest>> /\ at = "update" /\ at' = "tell"
    BY <1>3 DEF UpdateUser
  <2>2. job.kind \in {"add", "modify", "phantom"}
    BY <1>1, <2>1 DEF PhantomInv, JobFits, Packets, Kinds
  <2>3. JobFits' /\ RealIsOn'
    BY <1>1, <2>1, <2>2 DEF PhantomInv, JobFits, RealIsOn
  <2>4. /\ \A x : On(x)' <=> On(x) \/ x = job.id
        /\ \A u \in Range(list') : u \in Range(list) \/ (u.id = job.id /\ u.real = job.real)
    BY <1>1, <1>3, UpdateRange
  <2>5. job.real # 0 => job.id \in Phantoms /\ On(job.real)
    BY <1>1, <2>1 DEF PhantomInv, JobFits, RealIsOn
  <2>6. OnlyPhantoms'
    BY <2>1, <2>4, <2>5 DEF PhantomInv, OnlyPhantoms
  <2>7. ASSUME ~Reuse, NEW u \in Range(list')
        PROVE  ~Orphan(u)'
    <3>1. \A v \in Range(list) : v.real # 0 => On(v.real)
      BY <2>1, <2>7 DEF PhantomInv, NoOrphans, Orphan, Doomed
    <3>2. u.real # 0 => On(u.real)
      BY <2>4, <2>5, <3>1
    <3>3. Orphan(u)' <=> u.real # 0 /\ ~(On(u.real)')
      BY DEF Orphan
    <3> QED
      BY <2>4, <3>2, <3>3
  <2>8. NoOrphans'
    BY <2>7 DEF NoOrphans
  <2> QED
    BY <2>3, <2>6, <2>8 DEF PhantomInv
<1>4. CASE Tell
  <2>1. UNCHANGED <<list, rest>> /\ at = "tell"
    BY <1>4 DEF Tell, listVars
  <2>2. OnlyPhantoms' /\ NoOrphans'
    BY <2>1, QuietOrphans
  <2>3. job.kind # "remove"
    BY <1>1, <2>1 DEF PhantomInv, JobFits
  <2>4. JobFits' /\ RealIsOn'
    <3> DEFINE first == IF job.kind = "rank" THEN "find" ELSE "update"
    <3>1. Round(first)
      BY <1>4 DEF Tell
    <3>2. (job.kind \in {"add", "modify"} => first = "update") /\ (job.kind = "rank" => first = "find")
      OBVIOUS
    <3> HIDE DEF first
    <3> QED
      BY <1>1, <2>3, <3>1, <3>2, RoundFits DEF PhantomInv
  <2> QED
    BY <2>2, <2>4 DEF PhantomInv
<1> QED
  BY <1>2, <1>3, <1>4

LEMMA SettingFits ==
  ASSUME UserListInv, PhantomInv, Record \/ FindUser \/ WriteUser \/ EndSetting
  PROVE  PhantomInv'
<1>1. /\ job \in Packets /\ at \in {"record", "find", "write", "unlock"}
      /\ UNCHANGED <<list, rest>>
  BY DEF UserListInv, Typed, Record, FindUser, WriteUser, EndSetting, AtRest, listVars
<1>2. OnlyPhantoms' /\ NoOrphans'
  BY <1>1, QuietOrphans
<1>3. at' \notin {"name", "update"}
  BY DEF Record, FindUser, WriteUser, EndSetting
<1>4. RealIsOn'
  BY <1>3 DEF RealIsOn
<1>5. CASE EndSetting
  <2>1. JobFits'
    BY <1>5 DEF EndSetting, JobFits, AtRest
  <2> QED
    BY <1>2, <1>4, <2>1 DEF PhantomInv
<1>6. CASE Record
  <2>1. job.kind \in {"remove", "setting", "mute"}
    <3>1. job.kind \in Kinds
      BY <1>1 DEF Packets
    <3> QED
      BY <3>1, <1>6 DEF Record, PhantomInv, JobFits, Kinds, AtRest
  <2>2. JobFits'
    BY <1>1, <1>6, <2>1 DEF Record, PhantomInv, JobFits, AtRest
  <2> QED
    BY <1>2, <1>4, <2>2 DEF PhantomInv
<1>7. CASE FindUser
  <2>1. JobFits'
    BY <1>1, <1>7 DEF FindUser, PhantomInv, JobFits, AtRest
  <2> QED
    BY <1>2, <1>4, <2>1 DEF PhantomInv
<1>8. CASE WriteUser
  <2>1. JobFits'
    BY <1>1, <1>8 DEF WriteUser, PhantomInv, JobFits, AtRest
  <2> QED
    BY <1>2, <1>4, <2>1 DEF PhantomInv
<1> QED
  BY <1>5, <1>6, <1>7, <1>8

LEMMA SessionFits ==
  ASSUME UserListInv, PhantomInv, Login \/ LoginComplete \/ Disconnect \/ Close \/ DestroyList
  PROVE  PhantomInv'
<1>1. at \in AtRest /\ at' \in AtRest /\ UNCHANGED rest
  BY DEF Login, LoginComplete, Disconnect, Close, DestroyList, AtRest, netVars
<1>2. JobFits' /\ RealIsOn'
  BY <1>1 DEF JobFits, RealIsOn, AtRest
<1>3. CASE UNCHANGED list
  BY <1>1, <1>2, <1>3, QuietOrphans DEF PhantomInv, AtRest
<1>4. CASE DestroyList
  <2>1. Range(list') = {}
    BY <1>4 DEF DestroyList, Range
  <2> QED
    BY <1>1, <1>2, <2>1 DEF PhantomInv, OnlyPhantoms, NoOrphans
<1> QED
  BY <1>3, <1>4 DEF Login, LoginComplete, Disconnect, Close, listVars

LEMMA ApiFits ==
  ASSUME PhantomInv, Api \/ UNCHANGED vars
  PROVE  PhantomInv'
<1>1. UNCHANGED <<list, rest, at, job>>
  BY DEF Api, GuiEvent, StartRecording, StopRecording, GetUser, LookUpLock, LookUpWalk,
         LookUpCopy, vars, listVars, netVars
<1>2. \A u : Orphan(u)' <=> Orphan(u)
  BY <1>1 DEF Orphan, On
<1>3. \A u : Doomed(u)' <=> Doomed(u)
  BY <1>1 DEF Doomed
<1>4. NoOrphans'
  BY <1>1, <1>2, <1>3 DEF PhantomInv, NoOrphans
<1> QED
  BY <1>1, <1>4 DEF PhantomInv, JobFits, OnlyPhantoms, RealIsOn, On

-----------------------------------------------------------------------------
(* Phantoms: a user goes, and the walk over the list after him.            *)

\* A node of the user's leaves the list: what stays is what has another id.
LEMMA WithoutRange ==
  ASSUME UserListInv, NEW id, list' = Without(id)
  PROVE  /\ Range(list') = {u \in Range(list) : u.id # id}
         /\ \A x : On(x)' <=> On(x) /\ x # id
<1>1. Range(list') = {u \in Range(list) : u.id # id}
  BY RemoveKeepsUnique DEF UserListInv, Typed
<1> QED
  BY <1>1, OnIsInRange, OnIsInRangeNext

LEMMA RemoveFits ==
  ASSUME UserListInv, PhantomInv, RemoveUser
  PROVE  PhantomInv'
<1> USE UserListAssumption
<1>1. /\ at = "remove" /\ at' = "logout" /\ UNCHANGED <<job, rest>> /\ list' = Without(job.id)
      /\ job \in Packets
  BY DEF RemoveUser, UserListInv, Typed, AtRest
<1>2. job.kind \in {"remove", "unphantom"}
  <2>1. job.kind \in Kinds
    BY <1>1 DEF Packets
  <2> QED
    BY <1>1, <2>1 DEF PhantomInv, JobFits, Kinds, AtRest
<1>3. JobFits' /\ RealIsOn'
  BY <1>1, <1>2 DEF PhantomInv, JobFits, RealIsOn, AtRest
<1>4. /\ Range(list') \in SUBSET Range(list)
      /\ \A x : On(x)' <=> On(x) /\ x # job.id
  BY <1>1, WithoutRange
<1>5. OnlyPhantoms'
  BY <1>1, <1>4 DEF PhantomInv, OnlyPhantoms
<1>6. ASSUME ~Reuse, NEW u \in Range(list'), Orphan(u)'
      PROVE  Doomed(u)'
  <2>1. u.real # 0 => On(u.real)
    BY <1>1, <1>4, <1>6 DEF PhantomInv, NoOrphans, Orphan, Doomed
  <2>2. u.real # 0 /\ u.real = job.id
    BY <1>4, <1>6, <2>1 DEF Orphan
  <2>3. u \in AnyNode
    BY <1>4, NodesOf DEF UserListInv, Typed
  <2>4. u.real \in Users /\ job.id \notin Phantoms
    BY <2>2, <2>3 DEF AnyNode
  <2>5. job.kind = "remove"
    BY <1>1, <1>2, <2>4 DEF PhantomInv, JobFits, AtRest
  <2> QED
    BY <1>1, <2>2, <2>5 DEF Doomed
<1>7. NoOrphans'
  BY <1>6 DEF NoOrphans
<1> QED
  BY <1>3, <1>5, <1>7 DEF PhantomInv

\* The first element of a sequence that has a property has a place.
LEMMA FirstPlace ==
  ASSUME NEW s \in Seq(AnyNode), NEW id, \E n \in DOMAIN s : s[n].real = id
  PROVE  \E n \in DOMAIN s : s[n].real = id /\ \A k \in 1..(n - 1) : s[k].real # id
<1> DEFINE T == {n \in DOMAIN s : s[n].real = id}
<1>1. T # {} /\ T \subseteq Nat /\ DOMAIN s = 1..Len(s) /\ Len(s) \in Nat
  OBVIOUS
<1>2. PICK n \in T : \A k \in T : ~(<<k, n>> \in OpToRel(<, Nat))
  <2> HIDE DEF T
  <2> QED
    BY <1>1, WFMin, NatLessThanWellFounded
<1>3. \A k \in T : ~(k < n)
  <2> HIDE DEF T
  <2> QED
    BY <1>1, <1>2 DEF OpToRel
<1>4. \A k \in 1..(n - 1) : k \in DOMAIN s /\ k < n
  <2>1. n \in 1..Len(s) /\ DOMAIN s = 1..Len(s) /\ Len(s) \in Nat
    BY <1>1
  <2> QED
    BY <2>1
<1>5. \A k \in 1..(n - 1) : s[k].real # id
  BY <1>3, <1>4
<1>6. n \in DOMAIN s /\ s[n].real = id
  OBVIOUS
<1> QED
  BY <1>5, <1>6

LEMMA LogoutFits ==
  ASSUME UserListInv, PhantomInv, Logout \/ WalkEnd
  PROVE  PhantomInv'
<1>1. /\ at \in {"logout", "walk"} /\ job \in Packets /\ UNCHANGED list /\ at \notin AtRest
      /\ Typed
  BY DEF Logout, WalkEnd, UserListInv, Typed, AtRest, listVars
<1>2. job.kind \in {"remove", "unphantom"} /\ (at = "walk" => job.kind = "remove")
  <2>1. job.kind \in Kinds
    BY <1>1 DEF Packets
  <2> QED
    BY <1>1, <2>1 DEF PhantomInv, JobFits, Kinds, AtRest
<1>3. \A u : Orphan(u)' <=> Orphan(u)
  BY <1>1 DEF Orphan, On
<1>4. CASE Logout /\ job.kind = "remove"
  <2>1. at' = "walk" /\ rest' = list /\ UNCHANGED job /\ at = "logout"
    BY <1>4 DEF Logout
  <2>2. JobFits' /\ RealIsOn'
    BY <1>1, <1>4, <2>1 DEF PhantomInv, JobFits, RealIsOn
  <2>3. OnlyPhantoms'
    BY <1>1, <2>1 DEF PhantomInv, OnlyPhantoms
  <2>4. NoOrphans'
    BY <1>1, <1>3, <1>4, <2>1 DEF PhantomInv, NoOrphans, Doomed
  <2> QED
    BY <2>2, <2>3, <2>4 DEF PhantomInv
<1>5. CASE ~(Logout /\ job.kind = "remove")
  <2>1. \/ Round("record") /\ job.kind = "remove" /\ rest' = <<>>
        \/ Round("remove") /\ job.kind = "unphantom" /\ rest' = rest
    BY <1>1, <1>2, <1>5 DEF Logout, WalkEnd
  <2>2. JobFits' /\ RealIsOn'
    BY <1>1, <2>1, RoundFits DEF PhantomInv
  <2>3. Range(rest') \in SUBSET Range(rest)
    BY <2>1 DEF Range
  <2>4. OnlyPhantoms'
    BY <1>1, <2>3 DEF PhantomInv, OnlyPhantoms
  <2>5. ASSUME ~Reuse, NEW u \in Range(list)
        PROVE  ~Doomed(u)
    <3>1. CASE at = "logout"
      BY <1>2, <1>5, <2>1, <3>1 DEF Doomed, Logout, WalkEnd
    <3>2. CASE at = "walk"
      <4>1. ~ \E n \in DOMAIN rest : IsNext(n)
        BY <3>2 DEF Logout, WalkEnd
      <4>2. ~ \E n \in DOMAIN rest : rest[n].real = job.id
        BY <1>1, <4>1, FirstPlace DEF IsNext, Typed
      <4> QED
        BY <3>2, <4>2 DEF Doomed, Range
    <3> QED
      BY <1>1, <3>1, <3>2
  <2>6. NoOrphans'
    BY <1>1, <1>3, <2>5 DEF PhantomInv, NoOrphans
  <2> QED
    BY <2>2, <2>4, <2>6 DEF PhantomInv
<1> QED
  BY <1>4, <1>5

\* What is left of the walk after the phantom at n.
LEMMA SuffixRange ==
  ASSUME NEW s \in Seq(AnyNode), NEW n \in DOMAIN s
  PROVE  LET t == SubSeq(s, n + 1, Len(s)) IN
           /\ t \in Seq(AnyNode)
           /\ DOMAIN t = 1..(Len(s) - n)
           /\ \A k \in DOMAIN t : n + k \in DOMAIN s /\ t[k] = s[n + k]
           /\ \A k \in DOMAIN s : k > n => s[k] \in Range(t)
           /\ Range(t) \in SUBSET Range(s)
<1> DEFINE t == SubSeq(s, n + 1, Len(s))
<1>1. n \in 1..Len(s) /\ Len(s) \in Nat
  OBVIOUS
<1>2. /\ t \in Seq(AnyNode) /\ Len(t) = Len(s) - n
      /\ \A k \in 1..(Len(s) - n) : t[k] = s[n + k]
  BY <1>1, SubSeqProperties
<1> HIDE DEF t
<1>3. DOMAIN t = 1..(Len(s) - n)
  BY <1>2
<1>4. \A k \in DOMAIN t : n + k \in DOMAIN s /\ t[k] = s[n + k]
  BY <1>1, <1>2, <1>3
<1>5. ASSUME NEW k \in DOMAIN s, k > n
      PROVE  s[k] \in Range(t)
  <2>1. k - n \in DOMAIN t /\ n + (k - n) = k
    BY <1>1, <1>3, <1>5
  <2> QED
    BY <1>4, <2>1 DEF Range
<1>6. Range(t) \in SUBSET Range(s)
  BY <1>4 DEF Range
<1> QED
  BY <1>2, <1>3, <1>4, <1>5, <1>6 DEF t

LEMMA WalkFitsPhantoms ==
  ASSUME UserListInv, PhantomInv, WalkPhantom
  PROVE  PhantomInv'
<1> USE UserListAssumption
<1>1. /\ at = "walk" /\ UNCHANGED <<at, job>> /\ job \in Packets /\ at \notin AtRest
      /\ rest \in Seq(AnyNode)
  BY DEF WalkPhantom, UserListInv, Typed, AtRest
<1>2. job.kind = "remove" /\ job.id \in Users
  <2>1. job.kind \in Kinds
    BY <1>1 DEF Packets
  <2> QED
    BY <1>1, <2>1 DEF PhantomInv, JobFits, Kinds, AtRest
<1>3. PICK n \in DOMAIN rest :
        /\ IsNext(n) /\ list' = Without(rest[n].id)
        /\ rest' = SubSeq(rest, n + 1, Len(rest)) \/ (Reuse /\ rest' = <<>>)
  BY DEF WalkPhantom
<1> DEFINE p == rest[n].id
<1>4. p \in Phantoms
  BY <1>1, <1>2, <1>3 DEF IsNext, PhantomInv, OnlyPhantoms, Range
<1>5. JobFits' /\ RealIsOn'
  BY <1>1, <1>2 DEF PhantomInv, JobFits, RealIsOn
<1>6. /\ Range(list') = {u \in Range(list) : u.id # p}
      /\ \A x : On(x)' <=> On(x) /\ x # p
  BY <1>3, WithoutRange
<1>7. Range(rest') \in SUBSET Range(rest)
  <2>1. CASE rest' = <<>>
    BY <2>1 DEF Range
  <2> QED
    BY <1>1, <1>3, <2>1, SuffixRange
<1>8. OnlyPhantoms'
  BY <1>6, <1>7 DEF PhantomInv, OnlyPhantoms
<1>9. ASSUME ~Reuse, NEW u \in Range(list'), Orphan(u)'
      PROVE  Doomed(u)'
  <2>1. u \in Range(list) /\ u.id # p /\ u \in AnyNode
    BY <1>6, NodesOf DEF UserListInv, Typed
  <2>2. u.real # 0 /\ ~On(u.real)
    <3>1. u.real # p
      BY <1>4, <2>1 DEF AnyNode
    <3> QED
      BY <1>6, <1>9, <3>1 DEF Orphan
  <2>3. Doomed(u)
    BY <1>9, <2>1, <2>2 DEF PhantomInv, NoOrphans, Orphan
  <2>4. PICK k \in DOMAIN rest : rest[k] = u
    BY <1>1, <2>3 DEF Doomed, Range
  <2>5. rest[k].real = job.id /\ k # n
    BY <2>1, <2>3, <2>4 DEF Doomed
  <2>6. k > n
    <3>1. \A j \in 1..(n - 1) : rest[j].real # job.id
      BY <1>3 DEF IsNext
    <3>2. k \in 1..Len(rest) /\ n \in 1..Len(rest) /\ Len(rest) \in Nat
      BY <1>1
    <3> QED
      BY <2>5, <3>1, <3>2
  <2>7. u \in Range(rest')
    BY <1>1, <1>3, <1>9, <2>4, <2>6, SuffixRange
  <2> QED
    BY <1>1, <1>2, <2>3, <2>7 DEF Doomed
<1>10. NoOrphans'
  BY <1>9 DEF NoOrphans
<1> QED
  BY <1>5, <1>8, <1>10 DEF PhantomInv

LEMMA PhantomInductive ==
  Spec => []PhantomInv
<1>1. Init => PhantomInv
  BY DEF Init, PhantomInv, JobFits, OnlyPhantoms, NoOrphans, RealIsOn, Range, AtRest
<1>2. UserListInv /\ PhantomInv /\ [Next]_vars => PhantomInv'
  BY PacketFits, ComeFits, SettingFits, RemoveFits, LogoutFits, WalkFitsPhantoms, SessionFits,
     ApiFits DEF Next, Network
<1> QED
  BY <1>1, <1>2, UserListInductive, PTL DEF Spec

\* When a user logs out his phantoms go too, those that log out with him
\* included, as long as u->next of a phantom just freed can still be read:
\* then no phantom on the list is an orphan between packets.
THEOREM PhantomsLeave == Spec => [](~Reuse => PhantomsGoToo)
<1>1. PhantomInv => (~Reuse => PhantomsGoToo)
  BY DEF PhantomInv, NoOrphans, Orphan, Doomed, PhantomsGoToo, Range
<1> QED
  BY <1>1, PhantomInductive, PTL
-----------------------------------------------------------------------------
(* Rows: what a packet in progress knows of the list.                      *)

\* Whether the users a packet is about are on the list, before and after
\* their turn.
ListFits ==
  at \notin AtRest =>
    /\ job.id \notin job.todo
    /\ job.kind \in {"add", "phantom"} => (On(job.id) <=> at = "tell")
    /\ job.kind = "modify" => On(job.id)
    /\ job.kind \in {"remove", "unphantom"} => (On(job.id) <=> at \notin {"logout", "walk"})
    /\ job.kind \in {"modify", "remove"} => \A i \in job.todo : On(i)
    /\ job.kind = "add" => \A i \in job.todo : ~On(i)

\* What the walk over the phantoms still has to pass is on the list.
WalkFits ==
  at = "walk" => /\ \A i, j \in DOMAIN rest : rest[i].id = rest[j].id => i = j
                 /\ \A u \in Range(rest) : On(u.id)

\* Only the GUI looks a user up for an event, and it gets that user.
ReaderFits ==
  \A r \in Readers : reader[r] # Idle =>
    /\ reader[r].for = "event" => r = Gui
    /\ reader[r].at = "copy" /\ reader[r].user # NoUser => reader[r].user.id = reader[r].id

LEMMA KindIs ==
  ASSUME Typed, JobFits, at \notin AtRest
  PROVE  /\ job \in Packets /\ job.kind \in Kinds
         /\ at = "name" => job.kind = "phantom"
         /\ at = "update" => job.kind \in {"add", "modify", "phantom"}
         /\ at = "tell" => job.kind \in {"add", "modify", "phantom", "rank"}
         /\ at = "record" => job.kind \in {"remove", "setting", "mute"}
         /\ at = "find" => job.kind \in {"remove", "rank", "setting", "mute"}
         /\ at = "write" => job.kind \in {"rank", "setting", "mute"}
         /\ at \in {"remove", "logout"} => job.kind \in {"remove", "unphantom"}
         /\ at = "walk" => job.kind = "remove"
         /\ at = "unlock" => job.kind \in {"setting", "mute"}
<1>1. job \in Packets
  BY DEF Typed
<1>2. job.kind \in Kinds
  BY <1>1 DEF Packets
<1> QED
  BY <1>1, <1>2 DEF JobFits, Kinds

\* A round of the loop ends in a step of the next user's.
LEMMA RoundListFits ==
  ASSUME Typed, JobFits, ListFits, at \notin AtRest, UNCHANGED list, NEW first, Round(first),
         job.kind \in {"add", "modify"} => first = "update",
         job.kind = "rank" => first = "find",
         job.kind = "remove" => first = "record"
  PROVE  ListFits' /\ WalkFits'
<1>1. CASE at' = "idle"
  BY <1>1 DEF ListFits, WalkFits, AtRest
<1>2. CASE job.todo # {}
  <2>1. job.kind \in {"add", "modify", "rank", "remove"}
    BY <1>2 DEF JobFits
  <2>2. PICK i \in job.todo : /\ job'.kind = job.kind /\ job'.id = i
                              /\ job'.todo = job.todo \ {i} /\ at' = first
    BY <1>2, RoundCases
  <2>3. \A x : On(x)' <=> On(x)
    BY DEF On
  <2>4. at' # "walk"
    BY <2>1, <2>2
  <2>5. ListFits'
    BY <2>1, <2>2, <2>3 DEF ListFits
  <2> QED
    BY <2>4, <2>5 DEF WalkFits
<1> QED
  BY <1>1, <1>2, RoundCases

LEMMA PacketListFits ==
  ASSUME Packet
  PROVE  ListFits' /\ WalkFits'
<1>1. UNCHANGED list /\ at' # "walk"
  BY DEF Packet, Packet5d, PacketPhantom, PacketUnphantom, PacketSetting, listVars, FirstStep
<1>2. \A x : On(x)' <=> On(x)
  BY <1>1 DEF On
<1>3. WalkFits'
  BY <1>1 DEF WalkFits
<1>4. ASSUME NEW ids \in SUBSET Users, NEW kind \in {"add", "modify", "remove", "rank"},
             Packet5d(kind, ids)
      PROVE  ListFits'
  <2>1. PICK i \in ids : job' = [kind |-> kind, id |-> i, real |-> 0, todo |-> ids \ {i}]
    BY <1>4 DEF Packet5d
  <2>2. /\ job'.kind = kind /\ job'.id = i /\ job'.todo = ids \ {i} /\ at' = FirstStep(kind)
        /\ \A x \in ids : On(x) <=> kind # "add"
    BY <1>4, <2>1 DEF Packet5d
  <2> QED
    BY <1>2, <2>2 DEF ListFits, FirstStep
<1>5. ASSUME NEW p \in Phantoms, NEW real \in Users, PacketPhantom(p, real)
      PROVE  ListFits'
  BY <1>2, <1>5 DEF PacketPhantom, ListFits
<1>6. ASSUME NEW p \in Phantoms, PacketUnphantom(p)
      PROVE  ListFits'
  BY <1>2, <1>6 DEF PacketUnphantom, ListFits
<1>7. ASSUME NEW kind \in {"setting", "mute"}, NEW i \in Ids, PacketSetting(kind, i)
      PROVE  ListFits'
  BY <1>7 DEF PacketSetting, ListFits
<1> QED
  BY <1>3, <1>4, <1>5, <1>6, <1>7 DEF Packet

LEMMA ComeListFits ==
  ASSUME UserListInv, PhantomInv, ListFits, PhantomName \/ UpdateUser \/ Tell
  PROVE  ListFits' /\ WalkFits'
<1>1. Typed /\ JobFits /\ at \notin AtRest
  BY DEF UserListInv, PhantomInv, PhantomName, UpdateUser, Tell, AtRest
<1>2. CASE PhantomName
  <2>1. UNCHANGED <<list, job>> /\ at' = "update" /\ job.kind = "phantom" /\ at = "name"
    BY <1>1, <1>2, KindIs DEF PhantomName, listVars
  <2>2. \A x : On(x)' <=> On(x)
    BY <2>1 DEF On
  <2> QED
    BY <1>1, <2>1, <2>2 DEF ListFits, WalkFits
<1>3. CASE UpdateUser
  <2>1. /\ UNCHANGED job /\ at = "update" /\ at' = "tell"
        /\ job.kind \in {"add", "modify", "phantom"} /\ job \in Packets
    BY <1>1, <1>3, KindIs DEF UpdateUser
  <2>2. \A x : On(x)' <=> On(x) \/ x = job.id
    BY <1>1, <1>3, <2>1, UpdateRange
  <2> QED
    BY <1>1, <2>1, <2>2 DEF ListFits, WalkFits
<1>4. CASE Tell
  <2> DEFINE first == IF job.kind = "rank" THEN "find" ELSE "update"
  <2>1. Round(first) /\ UNCHANGED list /\ job.kind # "remove"
    BY <1>1, <1>4, KindIs DEF Tell, listVars
  <2>2. (job.kind \in {"add", "modify"} => first = "update") /\ (job.kind = "rank" => first = "find")
    OBVIOUS
  <2> HIDE DEF first
  <2> QED
    BY <1>1, <2>1, <2>2, RoundListFits
<1> QED
  BY <1>2, <1>3, <1>4

LEMMA SettingListFits ==
  ASSUME UserListInv, PhantomInv, ListFits, Record \/ FindUser \/ WriteUser \/ EndSetting
  PROVE  ListFits' /\ WalkFits'
<1>1. /\ Typed /\ JobFits /\ at \notin AtRest /\ UNCHANGED list
      /\ at \in {"record", "find", "write", "unlock"}
  BY DEF UserListInv, PhantomInv, Record, FindUser, WriteUser, EndSetting, AtRest, listVars
<1>2. \A x : On(x)' <=> On(x)
  BY <1>1 DEF On
<1>3. job.kind \in {"remove", "rank", "setting", "mute"}
  BY <1>1, KindIs
<1>4. at' \in {"find", "unlock", "remove", "write", "tell", "record", "idle"}
  BY DEF Record, FindUser, WriteUser, EndSetting
<1>5. WalkFits'
  BY <1>4 DEF WalkFits
<1>6. CASE EndSetting
  <2>1. at' = "idle"
    BY <1>6 DEF EndSetting
  <2> QED
    BY <1>5, <2>1 DEF ListFits, AtRest
<1>7. CASE UNCHANGED job
  <2>1. /\ job.id \notin job.todo
        /\ job.kind = "remove" => On(job.id) /\ \A i \in job.todo : On(i)
    BY <1>1 DEF ListFits
  <2>2. at' \notin {"logout", "walk"}
    BY <1>4
  <2>3. /\ job.id \notin job.todo
        /\ job.kind = "remove" => On(job.id)' /\ \A i \in job.todo : On(i)'
    BY <1>2, <1>7, <2>1
  <2>4. job.kind \notin {"add", "phantom", "modify", "unphantom"}
    BY <1>3
  <2>5. ListFits'
    BY <1>7, <2>2, <2>3, <2>4 DEF ListFits
  <2> QED
    BY <1>5, <2>5
<1>8. EndSetting \/ UNCHANGED job
  BY DEF Record, FindUser, WriteUser
<1> QED
  BY <1>5, <1>6, <1>7, <1>8

LEMMA GoListFits ==
  ASSUME UserListInv, PhantomInv, ListFits, WalkFits, RemoveUser \/ Logout \/ WalkPhantom \/ WalkEnd
  PROVE  ListFits' /\ WalkFits'
<1> USE UserListAssumption
<1>1. /\ Typed /\ JobFits /\ at \notin AtRest /\ list \in Seq(AnyNode) /\ rest \in Seq(AnyNode)
  BY DEF UserListInv, Typed, PhantomInv, RemoveUser, Logout, WalkPhantom, WalkEnd, AtRest
<1>2. CASE RemoveUser
  <2>1. /\ at = "remove" /\ at' = "logout" /\ UNCHANGED job /\ list' = Without(job.id)
        /\ job.kind \in {"remove", "unphantom"}
    BY <1>1, <1>2, KindIs DEF RemoveUser
  <2>2. \A x : On(x)' <=> On(x) /\ x # job.id
    BY <2>1, WithoutRange
  <2> QED
    BY <1>1, <2>1, <2>2 DEF ListFits, WalkFits
<1>3. CASE Logout /\ job.kind = "remove"
  <2>1. /\ at = "logout" /\ at' = "walk" /\ UNCHANGED <<job, list>> /\ rest' = list
    BY <1>3 DEF Logout, listVars
  <2>2. \A x : On(x)' <=> On(x)
    BY <2>1 DEF On
  <2>3. ListFits'
    BY <1>1, <1>3, <2>1, <2>2 DEF ListFits
  <2>4. \A u \in Range(list) : On(u.id)
    BY OnIsInRange
  <2>5. WalkFits'
    BY <2>1, <2>2, <2>4 DEF WalkFits, UserListInv, UniqueIds
  <2> QED
    BY <2>3, <2>5
<1>4. CASE Logout /\ job.kind # "remove"
  <2>1. Round("remove") /\ UNCHANGED list /\ job.kind = "unphantom"
    BY <1>1, <1>4, KindIs DEF Logout, listVars
  <2> QED
    BY <1>1, <2>1, RoundListFits
<1>5. CASE WalkEnd
  <2>1. Round("record") /\ UNCHANGED list /\ job.kind = "remove"
    BY <1>1, <1>5, KindIs DEF WalkEnd, listVars
  <2> QED
    BY <1>1, <2>1, RoundListFits
<1>6. CASE WalkPhantom
  <2>1. at = "walk" /\ UNCHANGED <<at, job>> /\ job.kind = "remove" /\ job \in Packets
    BY <1>1, <1>6, KindIs DEF WalkPhantom
  <2>2. PICK n \in DOMAIN rest :
          /\ IsNext(n) /\ list' = Without(rest[n].id)
          /\ rest' = SubSeq(rest, n + 1, Len(rest)) \/ rest' = <<>>
    BY <1>6 DEF WalkPhantom
  <2> DEFINE p == rest[n].id
  <2>3. job.id \in Users /\ job.todo \in SUBSET Users /\ p \in Phantoms
    <3>1. job.id \in Users
      BY <1>1, <2>1 DEF JobFits
    <3>2. p \in Phantoms
      BY <2>2, <3>1 DEF IsNext, PhantomInv, OnlyPhantoms, Range
    <3> QED
      BY <2>1, <3>1, <3>2 DEF Packets
  <2>4. \A x : On(x)' <=> On(x) /\ x # p
    BY <2>2, WithoutRange
  <2>5. ListFits'
    <3>1. p \notin job.todo
      BY <2>3
    <3> QED
      BY <1>1, <2>1, <2>4, <3>1 DEF ListFits
  <2>6. CASE rest' = <<>>
    BY <2>5, <2>6 DEF WalkFits, Range
  <2>7. CASE rest' = SubSeq(rest, n + 1, Len(rest))
    <3>1. /\ n \in 1..Len(rest) /\ Len(rest) \in Nat
          /\ DOMAIN rest' = 1..(Len(rest) - n)
          /\ \A k \in DOMAIN rest' : n + k \in DOMAIN rest /\ rest'[k] = rest[n + k]
      BY <1>1, <2>7, SuffixRange
    <3>2. \A i, j \in DOMAIN rest : rest[i].id = rest[j].id => i = j
      BY <2>1 DEF WalkFits
    <3>3. ASSUME NEW i \in DOMAIN rest', NEW j \in DOMAIN rest', rest'[i].id = rest'[j].id
          PROVE  i = j
      <4>1. n + i = n + j
        BY <3>1, <3>2, <3>3
      <4> QED
        BY <3>1, <4>1
    <3>4. ASSUME NEW u \in Range(rest')
          PROVE  On(u.id)'
      <4>1. PICK k \in DOMAIN rest' : u = rest'[k]
        BY DEF Range
      <4>2. n + k \in DOMAIN rest /\ u = rest[n + k] /\ n + k # n
        BY <3>1, <4>1
      <4>3. On(u.id) /\ u.id # p
        BY <2>1, <3>2, <4>2 DEF WalkFits, Range
      <4> QED
        BY <2>4, <4>3
    <3>5. \A i, j \in DOMAIN rest' : rest'[i].id = rest'[j].id => i = j
      BY <3>3
    <3> QED
      BY <2>5, <3>4, <3>5 DEF WalkFits
  <2> QED
    BY <2>2, <2>6, <2>7
<1> QED
  BY <1>2, <1>3, <1>4, <1>5, <1>6

\* The steps that neither handle a packet nor change the list.
LEMMA OtherListFits ==
  ASSUME ListFits, WalkFits,
         Login \/ LoginComplete \/ Disconnect \/ Close \/ DestroyList \/ Api \/ UNCHANGED vars
  PROVE  ListFits' /\ WalkFits'
<1>1. CASE Login \/ LoginComplete \/ Disconnect \/ Close \/ DestroyList
  BY <1>1 DEF Login, LoginComplete, Disconnect, Close, DestroyList, ListFits, WalkFits, AtRest, netVars
<1>2. CASE Api \/ UNCHANGED vars
  <2>1. UNCHANGED <<list, rest, at, job>>
    BY <1>2 DEF Api, GuiEvent, StartRecording, StopRecording, GetUser, LookUpLock, LookUpWalk,
                LookUpCopy, vars, listVars, netVars
  <2>2. \A x : On(x)' <=> On(x)
    BY <2>1 DEF On
  <2> QED
    BY <2>1, <2>2 DEF ListFits, WalkFits
<1> QED
  BY <1>1, <1>2

\* The look-ups.
LEMMA ReadersStay ==
  ASSUME UserListInv, ReaderFits, [Next]_vars
  PROVE  ReaderFits'
<1> USE UserListAssumption
<1>1. reader \in [Readers -> {Idle} \cup AnyLookUp] /\ list \in Seq(AnyNode)
  BY DEF UserListInv, Typed
<1>2. ASSUME NEW r \in Readers, NEW id, NEW for, Begin(r, id, for), for = "event" => r = Gui
      PROVE  ReaderFits'
  <2>1. /\ \A s \in Readers \ {r} : reader'[s] = reader[s]
        /\ reader'[r].at = "lock" /\ reader'[r].for = for
    BY <1>1, <1>2 DEF Begin
  <2> QED
    BY <1>2, <2>1 DEF ReaderFits
<1>3. CASE UNCHANGED reader
  BY <1>3 DEF ReaderFits
<1>4. ASSUME NEW r \in Readers, LookUpLock(r)
      PROVE  ReaderFits'
  <2>1. reader[r] \in AnyLookUp
    BY <1>1, <1>4 DEF LookUpLock, Idle
  <2>2. /\ \A s \in Readers \ {r} : reader'[s] = reader[s]
        /\ reader'[r].at = "walk" /\ reader'[r].for = reader[r].for /\ reader[r] # Idle
    BY <1>1, <1>4, <2>1 DEF LookUpLock, AnyLookUp, Idle
  <2> QED
    BY <2>2 DEF ReaderFits
<1>5. ASSUME NEW r \in Readers, LookUpWalk(r)
      PROVE  ReaderFits'
  <2>1. reader[r] \in AnyLookUp
    BY <1>1, <1>5 DEF LookUpWalk, Idle
  <2>2. /\ \A s \in Readers \ {r} : reader'[s] = reader[s]
        /\ reader'[r].id = reader[r].id /\ reader'[r].for = reader[r].for /\ reader[r] # Idle
        /\ reader'[r].user = Find(reader[r].id)
    BY <1>1, <1>5, <2>1 DEF LookUpWalk, AnyLookUp, Idle
  <2>3. Find(reader[r].id) # NoUser => Find(reader[r].id).id = reader[r].id
    BY DEF Find, On, Place
  <2> QED
    BY <2>2, <2>3 DEF ReaderFits
<1>6. ASSUME NEW r \in Readers, LookUpCopy(r)
      PROVE  ReaderFits'
  <2>1. /\ \A s \in Readers \ {r} : reader'[s] = reader[s]
        /\ reader'[r] = Idle
    BY <1>1, <1>6 DEF LookUpCopy
  <2> QED
    BY <2>1 DEF ReaderFits
<1>7. CASE GuiEvent
  BY <1>2, <1>3, <1>7 DEF GuiEvent
<1>8. CASE Network
  BY <1>3, <1>8 DEF Network, Packet, Login, LoginComplete, Packet5d, PacketPhantom, PacketUnphantom,
     PacketSetting, PhantomName, UpdateUser, Tell, Record, FindUser, WriteUser, EndSetting,
     RemoveUser, Logout, WalkPhantom, WalkEnd, Disconnect, Close, DestroyList, apiVars
<1>9. CASE StartRecording \/ (\E i \in Ids : StopRecording(i))
           \/ (\E r \in Readers, i \in Ids : GetUser(r, i))
  BY <1>2, <1>3, <1>9 DEF StartRecording, StopRecording, GetUser
<1>10. CASE UNCHANGED vars
  BY <1>3, <1>10 DEF vars, apiVars
<1> QED
  BY <1>4, <1>5, <1>6, <1>7, <1>8, <1>9, <1>10 DEF Next, Api
-----------------------------------------------------------------------------
(* Rows: what the events in the queue still tell the GUI.                  *)

\* The session is not over.
Live == at \notin {"offline", "close", "destroy"}

\* The GUI looks the user up to add a row, and has not failed to find him.
Awaits(id)  == reader[Gui] # Idle /\ reader[Gui].for = "event" /\ reader[Gui].id = id
WillAdd(id) == Awaits(id) /\ (reader[Gui].at = "copy" => reader[Gui].user # NoUser)

\* Whether the user is on the list as far as the events queued so far tell:
\* a login or logout that is done is told in a later step.
OwesLogin(id)  == at = "tell" /\ job.kind \in {"add", "phantom"} /\ job.id = id
OwesLogout(id) == at = "logout" /\ job.id = id
Told(id) == (On(id) /\ ~OwesLogin(id)) \/ OwesLogout(id)

\* What an event does to whether the user is there.
Turn(e, id, before, after) ==
  IF e = [type |-> "LOGIN", id |-> id] THEN ~before /\ after
  ELSE IF e = [type |-> "LOGOUT", id |-> id] THEN before /\ ~after ELSE before = after

\* f[k] is whether the user is there before the k-th event: logins and
\* logouts take turns.  The GUI has no row for who is not there, at most one
\* for who is, and one, or one to come, for who is there and stays.
Story(id, f) ==
  /\ f[Len(eventq) + 1] = Told(id)
  /\ \A k \in 1..Len(eventq) : Turn(eventq[k], id, f[k], f[k + 1])
  /\ ~f[1] => tree[id] = 0 /\ ~Awaits(id)
  /\ f[1] => tree[id] \in {0, 1} /\ (Awaits(id) => tree[id] = 0)
  /\ (\A k \in 1..(Len(eventq) + 1) : f[k]) /\ On(id) => tree[id] = 1 \/ WillAdd(id)

Stories == Live => \A id \in Ids : \E f \in [1..(Len(eventq) + 1) -> BOOLEAN] : Story(id, f)

\* While the session is not over there is no DISCONNECT, and a LOGOUT only
\* after the login is complete; when it is over the DISCONNECT is last, or
\* taken, and the rows are gone.
QueueFits ==
  /\ Live => \A k \in DOMAIN eventq : eventq[k].type # "DISCONNECT"
  /\ Live /\ ~loggedin => \A k \in DOMAIN eventq : eventq[k].type # "LOGOUT"
  /\ at \notin AtRest /\ job.kind \in {"remove", "unphantom"} => loggedin
  /\ ~Live /\ eventq # <<>> => eventq[Len(eventq)].type = "DISCONNECT"
  /\ ~Live /\ eventq = <<>> => \A id \in Ids : tree[id] = 0 /\ ~Awaits(id)
  /\ at = "offline" => list = <<>>

RowsTyped == tree \in [Ids -> Nat]

RowInv ==
  /\ ListFits /\ WalkFits /\ ReaderFits
  /\ Orderly => QueueFits /\ Stories /\ RowsTyped

\* A step of the network thread that tells nothing.
LEMMA StoriesStay ==
  ASSUME Stories, Live, UNCHANGED <<eventq, tree, reader>>,
         \A id \in Ids : Told(id)' <=> Told(id),
         \A id \in Ids : On(id)' /\ Told(id)' => On(id)
  PROVE  Stories'
<1>1. ASSUME NEW id \in Ids
      PROVE  \E f \in [1..(Len(eventq') + 1) -> BOOLEAN] : Story(id, f)'
  <2>1. PICK f \in [1..(Len(eventq) + 1) -> BOOLEAN] : Story(id, f)
    BY DEF Stories
  <2>2. Awaits(id)' = Awaits(id) /\ WillAdd(id)' = WillAdd(id)
    BY DEF Awaits, WillAdd
  <2>3. Story(id, f)'
    <3>1. f[Len(eventq') + 1] = Told(id)'
      BY <2>1 DEF Story, Told
    <3> QED
      BY <2>1, <2>2, <3>1 DEF Story
  <2> QED
    BY <2>3
<1> QED
  BY <1>1 DEF Stories

\* A step of the network thread that queues an event.
LEMMA StoriesGrow ==
  ASSUME eventq \in Seq(Events), Stories, Live, UNCHANGED <<tree, reader>>,
         NEW e \in Events, eventq' = Append(eventq, e),
         \A id \in Ids : Turn(e, id, Told(id), Told(id)'),
         \A id \in Ids : On(id)' => On(id)
  PROVE  Stories'
<1> DEFINE n == Len(eventq)
<1>1. /\ n \in Nat /\ Len(eventq') = n + 1 /\ eventq'[n + 1] = e
      /\ \A k \in 1..n : eventq'[k] = eventq[k]
  BY AppendProperties
<1> HIDE DEF n
<1>2. ASSUME NEW id \in Ids
      PROVE  \E f \in [1..(Len(eventq') + 1) -> BOOLEAN] : Story(id, f)'
  <2>1. PICK f \in [1..(n + 1) -> BOOLEAN] : Story(id, f)
    BY DEF Stories, n
  <2>2. PICK told \in BOOLEAN : told <=> Told(id)'
    OBVIOUS
  <2>3. PICK g \in [1..(n + 2) -> BOOLEAN] :
          g = [k \in 1..(n + 2) |-> IF k = n + 2 THEN told ELSE f[k]]
    <3>1. \A k \in 1..(n + 2) : (IF k = n + 2 THEN told ELSE f[k]) \in BOOLEAN
      BY <1>1
    <3> QED
      BY <3>1
  <2>4. g[n + 2] = told /\ \A k \in 1..(n + 1) : g[k] = f[k]
    BY <1>1, <2>3
  <2>5. Awaits(id)' = Awaits(id) /\ WillAdd(id)' = WillAdd(id)
    BY DEF Awaits, WillAdd
  <2>6. f[n + 1] = Told(id) /\ \A k \in 1..n : Turn(eventq[k], id, f[k], f[k + 1])
    BY <2>1 DEF Story, n
  <2>7. Turn(e, id, f[n + 1], told)
    <3>1. Turn(e, id, Told(id), Told(id)')
      OBVIOUS
    <3>2. f[n + 1] \in BOOLEAN /\ (f[n + 1] <=> Told(id))
      BY <1>1, <2>6
    <3> QED
      BY <2>2, <3>1, <3>2 DEF Turn
  <2>8. \A k \in 1..(n + 1) : Turn(eventq'[k], id, g[k], g[k + 1])
    <3>1. ASSUME NEW k \in 1..(n + 1)
          PROVE  Turn(eventq'[k], id, g[k], g[k + 1])
      <4>1. CASE k = n + 1
        BY <1>1, <2>4, <2>7, <4>1
      <4>2. CASE k \in 1..n
        <5>1. g[k] = f[k] /\ g[k + 1] = f[k + 1] /\ eventq'[k] = eventq[k]
          BY <1>1, <2>4, <4>2
        <5> QED
          BY <2>6, <4>2, <5>1
      <4> QED
        BY <1>1, <4>1, <4>2
    <3> QED
      BY <3>1
  <2>9. /\ g[1] = f[1]
        /\ (\A k \in 1..(n + 2) : g[k]) => \A k \in 1..(n + 1) : f[k]
    BY <1>1, <2>4
  <2>10. /\ ~g[1] => tree'[id] = 0 /\ ~Awaits(id)'
         /\ g[1] => tree'[id] \in {0, 1} /\ (Awaits(id)' => tree'[id] = 0)
    BY <2>1, <2>5, <2>9 DEF Story
  <2>11. (\A k \in 1..(n + 2) : g[k]) /\ On(id)' => tree'[id] = 1 \/ WillAdd(id)'
    BY <2>1, <2>5, <2>9 DEF Story, n
  <2>12. g[n + 2] = Told(id)'
    <3>1. Told(id)' \in BOOLEAN
      BY DEF Told
    <3> QED
      BY <2>2, <2>4, <3>1
  <2>13. Len(eventq') + 1 = n + 2
    BY <1>1
  <2>14. Story(id, g)'
    BY <1>1, <2>8, <2>10, <2>11, <2>12, <2>13 DEF Story
  <2> QED
    BY <2>13, <2>14
<1> QED
  BY <1>2 DEF Stories

\* The GUI takes the event at the head of the queue.  What it does about the
\* user of the event is left to the caller.
LEMMA StoriesShrink ==
  ASSUME eventq \in Seq(Events), Stories, eventq # <<>>, eventq' = Tail(eventq),
         UNCHANGED <<list, at, job>>, reader[Gui] = Idle,
         \A id \in Ids :
           \/ /\ Head(eventq) # [type |-> "LOGIN", id |-> id]
              /\ Head(eventq) # [type |-> "LOGOUT", id |-> id]
              /\ tree'[id] = tree[id] /\ ~Awaits(id)'
           \/ /\ Head(eventq) = [type |-> "LOGIN", id |-> id]
              /\ tree'[id] = tree[id] /\ Awaits(id)' /\ WillAdd(id)'
           \/ /\ Head(eventq) = [type |-> "LOGOUT", id |-> id]
              /\ tree[id] \in {0, 1} => tree'[id] = 0
              /\ ~Awaits(id)'
  PROVE  Stories'
<1> DEFINE n == Len(eventq)
<1>1. /\ n \in Nat /\ n > 0 /\ Len(eventq') = n - 1 /\ Head(eventq) = eventq[1]
      /\ \A k \in 1..(n - 1) : eventq'[k] = eventq[k + 1]
  BY HeadTailProperties
<1> HIDE DEF n
<1>2. ASSUME NEW id \in Ids, Live
      PROVE  \E f \in [1..(Len(eventq') + 1) -> BOOLEAN] : Story(id, f)'
  <2>1. PICK f \in [1..(n + 1) -> BOOLEAN] : Story(id, f)
    BY <1>2 DEF Stories, n
  <2>2. PICK g \in [1..n -> BOOLEAN] : g = [k \in 1..n |-> f[k + 1]]
    <3>1. \A k \in 1..n : f[k + 1] \in BOOLEAN
      BY <1>1
    <3> QED
      BY <3>1
  <2>3. \A k \in 1..n : g[k] = f[k + 1]
    BY <2>2
  <2>4. f[n + 1] = Told(id) /\ \A k \in 1..n : Turn(eventq[k], id, f[k], f[k + 1])
    BY <2>1 DEF Story, n
  <2>5. ~Awaits(id) /\ ~WillAdd(id)
    BY DEF Awaits, WillAdd, Idle
  <2>6. Turn(Head(eventq), id, f[1], g[1])
    <3>1. 1 \in 1..n
      BY <1>1
    <3> QED
      BY <1>1, <2>3, <2>4, <3>1
  <2>7. f[1] \in BOOLEAN /\ g[1] \in BOOLEAN /\ (f[1] => tree[id] \in {0, 1}) /\ (~f[1] => tree[id] = 0)
    <3>1. 1 \in 1..n /\ 1 \in 1..(n + 1)
      BY <1>1
    <3> QED
      BY <2>1, <3>1 DEF Story
  <2>8. On(id)' = On(id) /\ Told(id)' = Told(id)
    BY DEF On, Told, OwesLogin, OwesLogout
  <2>9. f[1] /\ (\A k \in 1..n : g[k]) => \A k \in 1..(n + 1) : f[k]
    <3>1. ASSUME f[1], \A k \in 1..n : g[k], NEW k \in 1..(n + 1)
          PROVE  f[k]
      <4>1. CASE k = 1
        BY <3>1, <4>1
      <4>2. CASE k # 1
        <5>1. k - 1 \in 1..n /\ (k - 1) + 1 = k
          BY <1>1, <4>2
        <5> QED
          BY <2>3, <3>1, <5>1
      <4> QED
        BY <4>1, <4>2
    <3> QED
      BY <3>1
  <2>10. f[1] /\ (\A k \in 1..n : g[k]) /\ On(id) => tree[id] = 1
    BY <2>1, <2>5, <2>9 DEF Story, n
  <2>11. /\ ~g[1] => tree'[id] = 0 /\ ~Awaits(id)'
         /\ g[1] => tree'[id] \in {0, 1} /\ (Awaits(id)' => tree'[id] = 0)
         /\ (\A k \in 1..n : g[k]) /\ On(id)' => tree'[id] = 1 \/ WillAdd(id)'
    <3>0. (\A k \in 1..n : g[k]) => g[1]
      BY <1>1
    <3>1. CASE /\ Head(eventq) # [type |-> "LOGIN", id |-> id]
               /\ Head(eventq) # [type |-> "LOGOUT", id |-> id]
               /\ tree'[id] = tree[id] /\ ~Awaits(id)'
      <4>1. f[1] = g[1]
        BY <2>6, <3>1 DEF Turn
      <4> QED
        BY <2>7, <2>8, <2>10, <3>0, <3>1, <4>1
    <3>2. CASE /\ Head(eventq) = [type |-> "LOGIN", id |-> id]
               /\ tree'[id] = tree[id] /\ Awaits(id)' /\ WillAdd(id)'
      <4>1. ~f[1] /\ g[1]
        BY <2>6, <3>2 DEF Turn
      <4> QED
        BY <2>7, <3>2, <4>1
    <3>3. CASE /\ Head(eventq) = [type |-> "LOGOUT", id |-> id]
               /\ tree[id] \in {0, 1} => tree'[id] = 0
               /\ ~Awaits(id)'
      <4>1. f[1] /\ ~g[1]
        <5>1. [type |-> "LOGOUT", id |-> id] # [type |-> "LOGIN", id |-> id]
          OBVIOUS
        <5> QED
          BY <2>6, <3>3, <5>1 DEF Turn
      <4> QED
        BY <2>7, <3>0, <3>3, <4>1
    <3> QED
      BY <3>1, <3>2, <3>3
  <2>12. \A k \in 1..(n - 1) : Turn(eventq'[k], id, g[k], g[k + 1])
    <3>1. ASSUME NEW k \in 1..(n - 1)
          PROVE  Turn(eventq'[k], id, g[k], g[k + 1])
      <4>1. k + 1 \in 1..n /\ k \in 1..n
        BY <1>1
      <4>2. g[k] = f[k + 1] /\ g[k + 1] = f[(k + 1) + 1] /\ eventq'[k] = eventq[k + 1]
        BY <1>1, <2>3, <4>1
      <4> QED
        BY <2>4, <4>1, <4>2
    <3> QED
      BY <3>1
  <2>13. g[n] = Told(id)'
    <3>1. n \in 1..n
      BY <1>1
    <3> QED
      BY <2>3, <2>4, <2>8, <3>1
  <2>14. Len(eventq') = n - 1 /\ Len(eventq') + 1 = n
    BY <1>1
  <2>15. Story(id, g)'
    BY <2>11, <2>12, <2>13, <2>14 DEF Story
  <2> QED
    BY <2>14, <2>15
<1> QED
  BY <1>2 DEF Stories, Live

\* The queue of a session that goes on.
LEMMA QueueStays ==
  ASSUME eventq \in Seq(Events), QueueFits, Live, Live', loggedin => loggedin',
         eventq' = eventq \/ \E e \in Events : /\ eventq' = Append(eventq, e)
                                               /\ e.type # "DISCONNECT"
                                               /\ e.type = "LOGOUT" => loggedin,
         at' \notin AtRest /\ job'.kind \in {"remove", "unphantom"} => loggedin
  PROVE  QueueFits'
<1>1. ASSUME NEW k \in DOMAIN eventq'
      PROVE  eventq'[k].type # "DISCONNECT" /\ (~loggedin' => eventq'[k].type # "LOGOUT")
  <2>1. CASE eventq' = eventq
    BY <2>1 DEF QueueFits
  <2>2. ASSUME NEW e \in Events, eventq' = Append(eventq, e), e.type # "DISCONNECT",
               e.type = "LOGOUT" => loggedin
        PROVE  eventq'[k].type # "DISCONNECT" /\ (~loggedin' => eventq'[k].type # "LOGOUT")
    <3>1. (k \in DOMAIN eventq /\ eventq'[k] = eventq[k]) \/ eventq'[k] = e
      BY <2>2
    <3> QED
      BY <2>2, <3>1 DEF QueueFits
  <2> QED
    BY <2>1, <2>2
<1> QED
  BY <1>1 DEF QueueFits, Live

LEMMA QueueGrows ==
  ASSUME eventq \in Seq(Events), QueueFits, Stories, Live, Live', UNCHANGED <<tree, reader>>,
         NEW type \in EventTypes, NEW id \in Ids, Queue(type, id),
         loggedin => loggedin', type = "LOGOUT" => loggedin,
         at' \notin AtRest /\ job'.kind \in {"remove", "unphantom"} => loggedin,
         \A x \in Ids : x # id \/ type \notin {"LOGIN", "LOGOUT"} => (Told(x)' <=> Told(x)),
         type = "LOGIN" => ~Told(id) /\ Told(id)',
         type = "LOGOUT" => Told(id) /\ ~Told(id)',
         \A x \in Ids : On(x)' => On(x)
  PROVE  QueueFits' /\ Stories'
<1> DEFINE e == [type |-> type, id |-> id]
<1>1. e \in Events /\ e.type = type /\ e.id = id
  BY DEF Events
<1>2. eventq' = Append(eventq, e) /\ e.type # "DISCONNECT"
  BY <1>1 DEF Queue, EventTypes
<1>3. QueueFits'
  <2> HIDE DEF e
  <2> QED
    BY <1>1, <1>2, QueueStays
<1>4. ASSUME NEW x \in Ids
      PROVE  Turn(e, x, Told(x), Told(x)')
  <2>1. Told(x) \in BOOLEAN /\ Told(x)' \in BOOLEAN
    BY DEF Told
  <2>2. CASE x # id \/ type \notin {"LOGIN", "LOGOUT"}
    <3>1. e # [type |-> "LOGIN", id |-> x] /\ e # [type |-> "LOGOUT", id |-> x]
      BY <2>2
    <3>2. Told(x) = Told(x)'
      BY <2>1, <2>2
    <3> QED
      BY <3>1, <3>2 DEF Turn
  <2>3. CASE x = id /\ type = "LOGIN"
    BY <2>3 DEF Turn
  <2>4. CASE x = id /\ type = "LOGOUT"
    <3>1. e # [type |-> "LOGIN", id |-> x] /\ e = [type |-> "LOGOUT", id |-> x]
      BY <2>4
    <3> QED
      BY <2>4, <3>1 DEF Turn
  <2> QED
    BY <2>2, <2>3, <2>4
<1>5. Stories'
  <2> HIDE DEF e
  <2> QED
    BY <1>1, <1>2, <1>4, StoriesGrow
<1> QED
  BY <1>3, <1>5

\* A step that owes nothing, before or after, and leaves the list alone.
LEMMA ToldStays ==
  ASSUME UNCHANGED list,
         \A x : ~OwesLogin(x) /\ ~OwesLogout(x) /\ ~(OwesLogin(x)') /\ ~(OwesLogout(x)')
  PROVE  \A x : (Told(x)' <=> Told(x)) /\ (On(x)' <=> On(x))
BY DEF Told, On

RowsHeld == UserListInv /\ PhantomInv /\ RowInv /\ Orderly

LEMMA PacketRows ==
  ASSUME RowsHeld, Packet
  PROVE  QueueFits' /\ Stories'
<1>1. /\ at = "idle" /\ UNCHANGED <<list, eventq, tree, reader, loggedin>>
      /\ at' \in {"update", "record", "find", "name", "remove"}
  BY DEF Packet, Packet5d, PacketPhantom, PacketUnphantom, PacketSetting, Listening, listVars,
         apiVars, FirstStep
<1>2. QueueFits /\ Stories /\ Live /\ Live' /\ eventq \in Seq(Events)
  BY <1>1 DEF RowsHeld, RowInv, Live, UserListInv, Typed
<1>3. job'.kind \in {"remove", "unphantom"} => loggedin
  <2>1. ASSUME NEW ids \in SUBSET Users, NEW kind \in {"add", "modify", "remove", "rank"},
               Packet5d(kind, ids)
        PROVE  job'.kind \in {"remove", "unphantom"} => loggedin
    BY <2>1 DEF Packet5d, RowsHeld
  <2> QED
    BY <2>1 DEF Packet, PacketPhantom, PacketUnphantom, PacketSetting, RowsHeld
<1>4. \A x : (Told(x)' <=> Told(x)) /\ (On(x)' <=> On(x))
  BY <1>1, ToldStays DEF OwesLogin, OwesLogout
<1> QED
  BY <1>1, <1>2, <1>3, <1>4, QueueStays, StoriesStay

LEMMA ComeRows ==
  ASSUME RowsHeld, PhantomName \/ UpdateUser \/ Tell
  PROVE  QueueFits' /\ Stories'
<1>1. /\ at \in {"name", "update", "tell"} /\ at \notin AtRest /\ UNCHANGED <<tree, reader, loggedin>>
      /\ Typed /\ JobFits /\ ListFits /\ QueueFits /\ Stories /\ Live /\ eventq \in Seq(Events)
  BY DEF PhantomName, UpdateUser, Tell, AtRest, RowsHeld, RowInv, UserListInv, Typed, PhantomInv,
         Live, apiVars
<1>2. job.kind \in {"add", "modify", "phantom", "rank"} /\ job \in Packets
  BY <1>1, KindIs
<1>3. CASE PhantomName
  <2>1. at = "name" /\ at' = "update" /\ UNCHANGED <<list, job, eventq>>
    BY <1>3 DEF PhantomName, listVars
  <2>2. \A x : (Told(x)' <=> Told(x)) /\ (On(x)' <=> On(x))
    BY <2>1, ToldStays DEF OwesLogin, OwesLogout
  <2>3. Live' /\ job'.kind \notin {"remove", "unphantom"}
    BY <1>2, <2>1 DEF Live
  <2> QED
    BY <1>1, <2>1, <2>2, <2>3, QueueStays, StoriesStay
<1>4. CASE UpdateUser
  <2>1. at = "update" /\ at' = "tell" /\ UNCHANGED <<job, eventq>>
    BY <1>4 DEF UpdateUser
  <2>2. \A x : On(x)' <=> On(x) \/ x = job.id
    BY <1>1, <1>2, <1>4, UpdateRange
  <2>3. \A x : ~OwesLogin(x) /\ ~OwesLogout(x) /\ ~(OwesLogout(x)')
    BY <2>1 DEF OwesLogin, OwesLogout
  <2>4. \A x : OwesLogin(x)' <=> job.kind \in {"add", "phantom"} /\ job.id = x
    BY <2>1 DEF OwesLogin
  <2>5. /\ job.kind \in {"add", "modify", "phantom"}
        /\ job.kind \in {"add", "phantom"} => ~On(job.id)
        /\ job.kind = "modify" => On(job.id)
    BY <1>1, <2>1, KindIs DEF ListFits
  <2>6. \A x : Told(x)' <=> Told(x)
    BY <2>2, <2>3, <2>4, <2>5 DEF Told
  <2>7. \A x : On(x)' /\ Told(x)' => On(x)
    BY <2>3, <2>6 DEF Told
  <2>8. Live' /\ job'.kind \notin {"remove", "unphantom"}
    BY <1>2, <2>1 DEF Live
  <2> QED
    BY <1>1, <2>1, <2>6, <2>7, <2>8, QueueStays, StoriesStay
<1>5. CASE Tell
  <2> DEFINE first == IF job.kind = "rank" THEN "find" ELSE "update"
             type == CASE job.kind = "modify" -> "MODIFY"
                       [] job.kind = "rank" -> "RANK_CHANGE"
                       [] OTHER -> "LOGIN"
  <2>1. Round(first) /\ UNCHANGED list /\ at = "tell" /\ Queue(type, job.id)
    BY <1>5 DEF Tell, listVars
  <2>2. first \in {"find", "update"}
    OBVIOUS
  <2>3. /\ type \in EventTypes /\ type # "LOGOUT"
        /\ type = "LOGIN" <=> job.kind \in {"add", "phantom"}
    BY <1>2 DEF EventTypes
  <2>4. job.id \in Ids
    BY <1>2 DEF Packets
  <2> HIDE DEF first, type
  <2>5. at' \in {"idle", "find", "update"} /\ (at' # "idle" => job'.kind = job.kind)
    BY <1>1, <2>1, <2>2, RoundCases
  <2>6. \A x : /\ On(x)' <=> On(x)
               /\ ~OwesLogout(x) /\ ~(OwesLogout(x)') /\ ~(OwesLogin(x)')
               /\ OwesLogin(x) <=> job.kind \in {"add", "phantom"} /\ job.id = x
    BY <2>1, <2>5 DEF On, OwesLogin, OwesLogout
  <2>7. job.kind \in {"add", "phantom"} => On(job.id)
    BY <1>1, <2>1 DEF ListFits
  <2>8. \A x \in Ids : x # job.id \/ type \notin {"LOGIN", "LOGOUT"} => (Told(x)' <=> Told(x))
    BY <2>3, <2>6 DEF Told
  <2>9. PICK id \in Ids : id = job.id
    BY <2>4
  <2>10. type = "LOGIN" => ~Told(id) /\ Told(id)'
    BY <2>3, <2>6, <2>7, <2>9 DEF Told
  <2>11. Live' /\ (at' \notin AtRest => job'.kind \notin {"remove", "unphantom"})
    BY <1>2, <2>5 DEF Live, AtRest
  <2>12. \A x \in Ids : On(x)' => On(x)
    BY <2>6
  <2> QED
    BY <1>1, <2>1, <2>3, <2>8, <2>9, <2>10, <2>11, <2>12, QueueGrows
<1> QED
  BY <1>3, <1>4, <1>5

LEMMA SettingRows ==
  ASSUME RowsHeld, Record \/ FindUser \/ WriteUser \/ EndSetting
  PROVE  QueueFits' /\ Stories'
<1>1. /\ at \in {"record", "find", "write", "unlock"} /\ at \notin AtRest
      /\ UNCHANGED <<list, tree, reader, loggedin>>
      /\ Typed /\ JobFits /\ QueueFits /\ Stories /\ Live /\ eventq \in Seq(Events)
  BY DEF Record, FindUser, WriteUser, EndSetting, AtRest, RowsHeld, RowInv, UserListInv, Typed,
         PhantomInv, Live, apiVars, listVars
<1>2. at' \in {"find", "unlock", "remove", "write", "tell", "record", "idle"} /\ Live'
  BY DEF Record, FindUser, WriteUser, EndSetting, Live
<1>3. at' = "idle" \/ UNCHANGED job
  BY DEF Record, FindUser, WriteUser, EndSetting
<1>4. job.kind \in {"remove", "rank", "setting", "mute"} /\ job \in Packets
  BY <1>1, KindIs
<1>5. \A x : (Told(x)' <=> Told(x)) /\ (On(x)' <=> On(x))
  <2>1. ASSUME NEW x
        PROVE  ~OwesLogin(x) /\ ~OwesLogout(x) /\ ~(OwesLogin(x)') /\ ~(OwesLogout(x)')
    <3>1. at' = "tell" => job'.kind \notin {"add", "phantom"}
      <4>1. job.kind \notin {"add", "phantom"}
        BY <1>4
      <4> QED
        BY <1>3, <4>1, Zenon
    <3> QED
      BY <1>1, <1>2, <3>1 DEF OwesLogin, OwesLogout
  <2> QED
    BY <1>1, <2>1, ToldStays
<1>6. at' \notin AtRest /\ job'.kind \in {"remove", "unphantom"} => loggedin
  BY <1>1, <1>3 DEF QueueFits, AtRest
<1>7. CASE UNCHANGED eventq
  BY <1>1, <1>2, <1>5, <1>6, <1>7, QueueStays, StoriesStay
<1>8. CASE Queue("MUTE_CHANGED", job.id)
  <2>1. job.id \in Ids /\ "MUTE_CHANGED" \in EventTypes
    BY <1>4 DEF Packets, EventTypes
  <2> QED
    BY <1>1, <1>2, <1>5, <1>6, <1>8, <2>1, QueueGrows
<1> QED
  BY <1>7, <1>8 DEF Record, FindUser, WriteUser, EndSetting

LEMMA GoRows ==
  ASSUME RowsHeld, RemoveUser \/ Logout \/ WalkPhantom \/ WalkEnd
  PROVE  QueueFits' /\ Stories'
<1> USE UserListAssumption
<1>1. /\ at \in {"remove", "logout", "walk"} /\ at \notin AtRest /\ UNCHANGED <<tree, reader, loggedin>>
      /\ Typed /\ JobFits /\ ListFits /\ QueueFits /\ Stories /\ Live /\ eventq \in Seq(Events)
      /\ rest \in Seq(AnyNode)
  BY DEF RemoveUser, Logout, WalkPhantom, WalkEnd, AtRest, RowsHeld, RowInv, UserListInv, Typed,
         PhantomInv, Live, apiVars
<1>2. job.kind \in {"remove", "unphantom"} /\ job \in Packets /\ loggedin
  BY <1>1, KindIs DEF QueueFits
<1>3. PICK id \in Ids : id = job.id
  BY <1>2 DEF Packets
<1>4. CASE RemoveUser
  <2>1. /\ at = "remove" /\ at' = "logout" /\ UNCHANGED <<job, eventq>> /\ list' = Without(id)
    BY <1>3, <1>4 DEF RemoveUser
  <2>2. \A x : On(x)' <=> On(x) /\ x # id
    BY <2>1, WithoutRange DEF RowsHeld
  <2>3. \A x : /\ ~OwesLogin(x) /\ ~OwesLogout(x) /\ ~(OwesLogin(x)')
               /\ OwesLogout(x)' <=> x = id
    BY <1>3, <2>1 DEF OwesLogin, OwesLogout
  <2>4. On(id)
    BY <1>1, <1>2, <1>3, <2>1 DEF ListFits
  <2>5. \A x : Told(x)' <=> Told(x)
    BY <2>2, <2>3, <2>4 DEF Told
  <2>6. Live' /\ \A x : On(x)' => On(x)
    BY <2>1, <2>2 DEF Live
  <2> QED
    BY <1>1, <1>2, <2>1, <2>5, <2>6, QueueStays, StoriesStay
<1>5. CASE Logout
  <2>1. at = "logout" /\ Queue("LOGOUT", id) /\ UNCHANGED list
    BY <1>3, <1>5 DEF Logout, listVars
  <2>2. at' \in {"walk", "idle", "remove"}
    BY <1>1, <1>5, RoundCases DEF Logout
  <2>3. \A x : /\ ~OwesLogin(x) /\ ~(OwesLogin(x)') /\ ~(OwesLogout(x)')
               /\ OwesLogout(x) <=> x = id
               /\ On(x)' <=> On(x)
    BY <1>3, <2>1, <2>2 DEF OwesLogin, OwesLogout, On
  <2>4. ~On(id)
    BY <1>1, <1>2, <1>3, <2>1 DEF ListFits
  <2>5. \A x : x # id => (Told(x)' <=> Told(x))
    BY <2>3 DEF Told
  <2>6. Told(id) /\ ~(Told(id)')
    BY <2>3, <2>4 DEF Told
  <2>7. Live' /\ (\A x \in Ids : On(x)' => On(x)) /\ "LOGOUT" \in EventTypes
    BY <2>2, <2>3 DEF Live, EventTypes
  <2> QED
    BY <1>1, <1>2, <2>1, <2>5, <2>6, <2>7, QueueGrows
<1>6. CASE WalkEnd
  <2>1. at = "walk" /\ UNCHANGED <<list, eventq>>
    BY <1>6 DEF WalkEnd, listVars
  <2>2. at' \in {"idle", "record"}
    BY <1>1, <1>6, RoundCases DEF WalkEnd
  <2>3. \A x : (Told(x)' <=> Told(x)) /\ (On(x)' <=> On(x))
    BY <2>1, <2>2, ToldStays DEF OwesLogin, OwesLogout
  <2>4. Live'
    BY <2>2 DEF Live
  <2> QED
    BY <1>1, <1>2, <2>1, <2>3, <2>4, QueueStays, StoriesStay
<1>7. CASE WalkPhantom
  <2>1. at = "walk" /\ UNCHANGED <<at, job>>
    BY <1>7 DEF WalkPhantom
  <2>2. PICK n \in DOMAIN rest : list' = Without(rest[n].id) /\ Queue("LOGOUT", rest[n].id)
    BY <1>7 DEF WalkPhantom
  <2>3. rest[n] \in AnyNode /\ rest[n] \in Range(rest)
    BY <1>1 DEF Range
  <2>4. PICK p \in Ids : p = rest[n].id
    BY <2>3 DEF AnyNode
  <2>5. On(p)
    BY <2>1, <2>3, <2>4 DEF RowsHeld, RowInv, WalkFits
  <2>6. \A x : On(x)' <=> On(x) /\ x # p
    BY <2>2, <2>4, WithoutRange DEF RowsHeld
  <2>7. \A x : ~OwesLogin(x) /\ ~(OwesLogin(x)') /\ ~OwesLogout(x) /\ ~(OwesLogout(x)')
    BY <2>1 DEF OwesLogin, OwesLogout
  <2>8. \A x : (Told(x) <=> On(x)) /\ (Told(x)' <=> (On(x)'))
    BY <2>7 DEF Told
  <2>9. Told(p) /\ ~(Told(p)') /\ \A x : x # p => (Told(x)' <=> Told(x))
    BY <2>5, <2>6, <2>8
  <2>10. Live' /\ (\A x \in Ids : On(x)' => On(x)) /\ "LOGOUT" \in EventTypes
    BY <2>1, <2>6 DEF Live, EventTypes
  <2>11. Queue("LOGOUT", p)
    BY <2>2, <2>4
  <2> QED
    BY <1>1, <1>2, <2>9, <2>10, <2>11, QueueGrows
<1> QED
  BY <1>4, <1>5, <1>6, <1>7

LEMMA SessionRows ==
  ASSUME RowsHeld, Login \/ LoginComplete \/ Disconnect \/ Close \/ DestroyList
  PROVE  QueueFits' /\ Stories'
<1>1. QueueFits /\ Stories /\ eventq \in Seq(Events) /\ UNCHANGED <<tree, reader>>
  BY DEF RowsHeld, RowInv, UserListInv, Typed, Login, LoginComplete, Disconnect, Close, DestroyList,
         apiVars
<1>2. CASE Login
  <2>1. /\ at = "offline" /\ at' = "idle" /\ eventq = <<>> /\ UNCHANGED <<list, eventq>>
    BY <1>2 DEF Login, listVars
  <2>2. list = <<>> /\ Len(eventq') = 0
    BY <1>1, <2>1 DEF QueueFits
  <2>3. QueueFits'
    <3>1. DOMAIN eventq' = {}
      BY <2>1
    <3> QED
      BY <2>1, <3>1 DEF QueueFits, Live, AtRest
  <2>4. ASSUME NEW id \in Ids
        PROVE  \E f \in [1..(Len(eventq') + 1) -> BOOLEAN] : Story(id, f)'
    <3>1. PICK f \in [1..1 -> BOOLEAN] : f = [k \in 1..1 |-> FALSE]
      OBVIOUS
    <3>2. f[1] = FALSE
      BY <3>1
    <3>3. ~(Told(id)')
      BY <2>1, <2>2 DEF Told, On, OwesLogin, OwesLogout
    <3>4. tree'[id] = 0 /\ ~(Awaits(id)')
      BY <1>1, <2>1 DEF QueueFits, Live, Awaits
    <3>5. Told(id)' \in BOOLEAN
      BY DEF Told
    <3>6. Story(id, f)'
      BY <2>2, <3>2, <3>3, <3>4, <3>5 DEF Story
    <3> QED
      BY <2>2, <3>6
  <2>5. Stories'
    BY <2>4 DEF Stories
  <2> QED
    BY <2>3, <2>5
<1>3. CASE LoginComplete
  <2>1. /\ at = "idle" /\ UNCHANGED <<list, at, job, eventq>> /\ loggedin'
    BY <1>3 DEF LoginComplete, listVars, netVars
  <2>2. \A x : (Told(x)' <=> Told(x)) /\ (On(x)' <=> On(x))
    BY <2>1, ToldStays DEF OwesLogin, OwesLogout
  <2>3. Live /\ Live' /\ at' \in AtRest
    BY <2>1 DEF Live, AtRest
  <2> QED
    BY <1>1, <2>1, <2>2, <2>3, QueueStays, StoriesStay
<1>4. CASE Disconnect
  <2> DEFINE e == [type |-> "DISCONNECT", id |-> 0]
  <2>1. e \in Events /\ e.type = "DISCONNECT"
    BY DEF Events
  <2>2. at' = "close" /\ eventq' = Append(eventq, e)
    BY <1>4 DEF Disconnect, Queue
  <2> HIDE DEF e
  <2>3. eventq' # <<>> /\ eventq'[Len(eventq')] = e
    BY <1>1, <2>1, <2>2
  <2> QED
    BY <2>1, <2>2, <2>3 DEF QueueFits, Stories, Live, AtRest
<1>5. CASE Close \/ DestroyList
  <2>1. /\ at \in {"close", "destroy"} /\ at' \in {"destroy", "offline"} /\ UNCHANGED eventq
        /\ at' = "offline" => list' = <<>>
    BY <1>5 DEF Close, DestroyList
  <2>2. \A x : Awaits(x)' <=> Awaits(x)
    BY <1>1 DEF Awaits
  <2> QED
    BY <1>1, <2>1, <2>2 DEF QueueFits, Stories, Live, AtRest
<1> QED
  BY <1>2, <1>3, <1>4, <1>5

\* A step of an API thread other than the GUI's taking an event.
LEMMA ReaderRows ==
  ASSUME RowsHeld, UNCHANGED <<eventq, list, at, job, loggedin>>,
         \A id \in Ids :
           \/ tree'[id] = tree[id] /\ ~Awaits(id) /\ ~(Awaits(id)')
           \/ tree'[id] = tree[id] /\ Awaits(id) /\ (On(id) /\ WillAdd(id) => WillAdd(id)')
           \/ Awaits(id) /\ ~WillAdd(id) /\ tree'[id] = tree[id] /\ ~(Awaits(id)')
           \/ Awaits(id) /\ tree'[id] = tree[id] + 1 /\ ~(Awaits(id)')
  PROVE  QueueFits' /\ Stories'
<1>1. QueueFits /\ Stories /\ eventq \in Seq(Events)
  BY DEF RowsHeld, RowInv, UserListInv, Typed
<1>2. QueueFits'
  BY <1>1 DEF QueueFits, Live
<1>3. ASSUME NEW id \in Ids, Live
      PROVE  \E f \in [1..(Len(eventq') + 1) -> BOOLEAN] : Story(id, f)'
  <2>1. PICK f \in [1..(Len(eventq) + 1) -> BOOLEAN] : Story(id, f)
    BY <1>1, <1>3 DEF Stories
  <2>2. On(id)' = On(id) /\ Told(id)' = Told(id)
    BY DEF On, Told, OwesLogin, OwesLogout
  <2>3. f[1] \in BOOLEAN /\ ((\A k \in 1..(Len(eventq) + 1) : f[k]) => f[1])
    <3>1. Len(eventq) \in Nat
      BY <1>1
    <3>2. 1 \in 1..(Len(eventq) + 1)
      BY <3>1
    <3> QED
      BY <3>2
  <2>4. WillAdd(id)' => Awaits(id)'
    BY DEF WillAdd, Awaits
  <2>5. /\ ~f[1] => tree'[id] = 0 /\ ~(Awaits(id)')
        /\ f[1] => tree'[id] \in {0, 1} /\ (Awaits(id)' => tree'[id] = 0)
        /\ (\A k \in 1..(Len(eventq) + 1) : f[k]) /\ On(id) => tree'[id] = 1 \/ WillAdd(id)'
    <3>1. /\ ~f[1] => tree[id] = 0 /\ ~Awaits(id)
          /\ f[1] => tree[id] \in {0, 1} /\ (Awaits(id) => tree[id] = 0)
          /\ (\A k \in 1..(Len(eventq) + 1) : f[k]) /\ On(id) => tree[id] = 1 \/ WillAdd(id)
      BY <2>1 DEF Story
    <3>2. WillAdd(id) => Awaits(id)
      BY DEF WillAdd
    <3>3. CASE tree'[id] = tree[id] /\ ~Awaits(id) /\ ~(Awaits(id)')
      BY <3>1, <3>2, <3>3
    <3>4. CASE tree'[id] = tree[id] /\ Awaits(id) /\ (On(id) /\ WillAdd(id) => WillAdd(id)')
      BY <2>3, <3>1, <3>4
    <3>5. CASE Awaits(id) /\ ~WillAdd(id) /\ tree'[id] = tree[id] /\ ~(Awaits(id)')
      BY <2>3, <3>1, <3>5
    <3>6. CASE Awaits(id) /\ tree'[id] = tree[id] + 1 /\ ~(Awaits(id)')
      BY <2>3, <3>1, <3>6
    <3> QED
      BY <3>3, <3>4, <3>5, <3>6
  <2>6. Story(id, f)'
    BY <2>1, <2>2, <2>5 DEF Story
  <2> QED
    BY <2>6
<1>4. Stories'
  BY <1>3 DEF Stories, Live
<1> QED
  BY <1>2, <1>4

\* A step after which the GUI does what it did, or begins a look-up that is
\* not for an event.
LEMMA OtherReader ==
  ASSUME RowsHeld, UNCHANGED <<eventq, list, at, job, loggedin, tree>>,
         UNCHANGED reader[Gui]
           \/ (reader[Gui] = Idle /\ (reader'[Gui] = Idle \/ reader'[Gui].for # "event"))
  PROVE  QueueFits' /\ Stories'
<1>1. ASSUME NEW id \in Ids
      PROVE  \/ tree'[id] = tree[id] /\ ~Awaits(id) /\ ~(Awaits(id)')
             \/ tree'[id] = tree[id] /\ Awaits(id) /\ (On(id) /\ WillAdd(id) => WillAdd(id)')
  BY DEF Awaits, WillAdd
<1> QED
  BY <1>1, ReaderRows

LEMMA LookUpRows ==
  ASSUME RowsHeld, NEW r \in Readers, LookUpLock(r) \/ LookUpWalk(r) \/ LookUpCopy(r)
  PROVE  QueueFits' /\ Stories' /\ RowsTyped'
<1> USE UserListAssumption
<1>1. /\ reader \in [Readers -> {Idle} \cup AnyLookUp] /\ reader[r] \in AnyLookUp /\ reader[r] # Idle
      /\ UNCHANGED <<eventq, list, at, job, loggedin>>
      /\ list \in Seq(AnyNode) /\ ReaderFits /\ tree \in [Ids -> Nat]
  BY DEF RowsHeld, RowInv, RowsTyped, UserListInv, Typed, LookUpLock, LookUpWalk, LookUpCopy, Idle,
         netVars, listVars
<1>2. Gui \in Readers
  OBVIOUS
<1>3. CASE LookUpLock(r)
  <2>1. UNCHANGED tree /\ reader' = [reader EXCEPT ![r].at = "walk"] /\ reader[r].at = "lock"
    BY <1>3 DEF LookUpLock
  <2>2. /\ reader'[r] # Idle /\ reader'[r].for = reader[r].for /\ reader'[r].id = reader[r].id
        /\ reader'[r].at = "walk"
    BY <1>1, <2>1 DEF AnyLookUp, Idle
  <2>3. r # Gui => reader'[Gui] = reader[Gui]
    BY <1>1, <1>2, <2>1
  <2>4. CASE r = Gui
    <3>1. \A id : (Awaits(id)' <=> Awaits(id)) /\ (WillAdd(id)' <=> Awaits(id))
      BY <1>1, <2>2, <2>4 DEF Awaits, WillAdd
    <3>2. \A id : WillAdd(id) => Awaits(id)
      BY DEF WillAdd
    <3> QED
      BY <1>1, <2>1, <3>1, <3>2, ReaderRows DEF RowsTyped
  <2> QED
    BY <1>1, <2>1, <2>3, <2>4, OtherReader DEF RowsTyped
<1>4. CASE LookUpWalk(r)
  <2>1. UNCHANGED tree /\ reader[r].at = "walk"
        /\ reader' = [reader EXCEPT ![r].at = "copy", ![r].user = Find(reader[r].id)]
    BY <1>4 DEF LookUpWalk
  <2>2. /\ reader'[r] # Idle /\ reader'[r].for = reader[r].for /\ reader'[r].id = reader[r].id
        /\ reader'[r].user = Find(reader[r].id)
    BY <1>1, <2>1 DEF AnyLookUp, Idle
  <2>3. r # Gui => reader'[Gui] = reader[Gui]
    BY <1>1, <1>2, <2>1
  <2>4. CASE r = Gui
    <3>1. \A id : Awaits(id)' <=> Awaits(id)
      BY <1>1, <2>2, <2>4 DEF Awaits
    <3>2. ASSUME NEW id \in Ids, On(id)
          PROVE  Find(id) # NoUser
      <4>1. Place(id) \in DOMAIN list /\ Find(id) = list[Place(id)]
        BY <3>2 DEF On, Place, Find
      <4>2. Find(id) \in AnyNode
        BY <1>1, <4>1
      <4> QED
        BY <4>2 DEF AnyNode, NoUser, Ids
    <3>3. \A id \in Ids : Awaits(id) /\ On(id) => WillAdd(id)'
      BY <2>2, <2>4, <3>1, <3>2 DEF WillAdd, Awaits
    <3> QED
      BY <1>1, <2>1, <3>1, <3>3, ReaderRows DEF RowsTyped
  <2> QED
    BY <1>1, <2>1, <2>3, <2>4, OtherReader DEF RowsTyped
<1>5. CASE LookUpCopy(r)
  <2>1. /\ reader[r].at = "copy" /\ reader' = [reader EXCEPT ![r] = Idle]
        /\ tree' = IF reader[r].for = "event" /\ reader[r].user # NoUser
                   THEN [tree EXCEPT ![reader[r].user.id] = @ + 1] ELSE tree
    BY <1>5 DEF LookUpCopy
  <2>2. reader'[r] = Idle /\ (r # Gui => reader'[Gui] = reader[Gui])
    BY <1>1, <1>2, <2>1
  <2>3. CASE reader[r].for # "event"
    <3>1. UNCHANGED tree
      BY <2>1, <2>3
    <3>2. CASE r = Gui
      <4>1. \A id : ~Awaits(id) /\ ~(Awaits(id)')
        BY <2>2, <2>3, <3>2 DEF Awaits
      <4> QED
        BY <1>1, <3>1, <4>1, ReaderRows DEF RowsTyped
    <3> QED
      BY <1>1, <2>2, <3>1, <3>2, OtherReader DEF RowsTyped
  <2>4. CASE reader[r].for = "event"
    <3>1. r = Gui /\ (reader[Gui].user # NoUser => reader[Gui].user.id = reader[Gui].id)
      BY <1>1, <2>1, <2>4 DEF ReaderFits
    <3>2. \A id : ~(Awaits(id)') /\ (Awaits(id) <=> id = reader[Gui].id)
      BY <1>1, <2>2, <2>4, <3>1 DEF Awaits
    <3>3. reader[Gui].id \in Ids
      BY <1>1, <3>1 DEF AnyLookUp
    <3>4. CASE reader[Gui].user = NoUser
      <4>1. UNCHANGED tree
        BY <2>1, <3>1, <3>4
      <4>2. \A id : ~WillAdd(id)
        BY <2>1, <3>1, <3>4 DEF WillAdd
      <4> QED
        BY <1>1, <3>2, <4>1, <4>2, ReaderRows DEF RowsTyped
    <3>5. CASE reader[Gui].user # NoUser
      <4>1. tree' = [tree EXCEPT ![reader[Gui].id] = @ + 1]
        BY <2>1, <2>4, <3>1, <3>5
      <4>2. \A id \in Ids : tree'[id] = IF id = reader[Gui].id THEN tree[id] + 1 ELSE tree[id]
        BY <1>1, <3>3, <4>1
      <4>3. tree' \in [Ids -> Nat]
        BY <1>1, <3>3, <4>1
      <4> QED
        BY <1>1, <3>2, <4>2, <4>3, ReaderRows DEF RowsTyped
    <3> QED
      BY <3>4, <3>5
  <2> QED
    BY <2>3, <2>4
<1> QED
  BY <1>3, <1>4, <1>5

\* The GUI takes an event.
LEMMA EventRows ==
  ASSUME RowsHeld, GuiEvent
  PROVE  QueueFits' /\ Stories' /\ RowsTyped'
<1> USE UserListAssumption
<1>1. /\ eventq \in Seq(Events) /\ eventq # <<>> /\ eventq' = Tail(eventq) /\ reader[Gui] = Idle
      /\ reader \in [Readers -> {Idle} \cup AnyLookUp] /\ tree \in [Ids -> Nat]
      /\ QueueFits /\ Stories /\ UNCHANGED <<list, at, job, loggedin>>
  BY DEF RowsHeld, RowInv, RowsTyped, UserListInv, Typed, GuiEvent, listVars, netVars
<1> DEFINE ev == Head(eventq)
<1>2. ev \in Events /\ ev = eventq[1] /\ Len(eventq) \in Nat /\ Len(eventq) > 0
  BY <1>1
<1>3. \/ ev.type = "LOGIN" /\ Begin(Gui, ev.id, "event") /\ UNCHANGED tree
      \/ /\ ev.type \in {"MODIFY", "RANK_CHANGE"} /\ UNCHANGED tree
         /\ Begin(Gui, ev.id, "call") \/ UNCHANGED reader
      \/ /\ ev.type = "LOGOUT" /\ UNCHANGED reader
         /\ tree' = IF loggedin /\ HasRow(ev.id) THEN [tree EXCEPT ![ev.id] = @ - 1] ELSE tree
      \/ ev.type = "MUTE_CHANGED" /\ UNCHANGED <<reader, tree>>
      \/ ev.type = "DISCONNECT" /\ UNCHANGED reader /\ tree' = [i \in Ids |-> 0]
  BY DEF GuiEvent
<1> HIDE DEF ev
<1>4. ev.type # "DISCONNECT" => ev.id \in Ids /\ ev = [type |-> ev.type, id |-> ev.id]
  BY <1>2 DEF Events
<1>5. \A id, for : Begin(Gui, id, for) =>
        /\ reader'[Gui] # Idle /\ reader'[Gui].for = for /\ reader'[Gui].id = id
        /\ reader'[Gui].at = "lock"
  BY <1>1 DEF Begin, Idle
<1>6. \A id : ~Awaits(id)
  BY <1>1 DEF Awaits
<1>7. RowsTyped'
  <2>1. CASE ev.type = "LOGOUT"
    <3>1. CASE loggedin /\ HasRow(ev.id)
      <4>1. tree' = [tree EXCEPT ![ev.id] = @ - 1] /\ tree[ev.id] > 0 /\ ev.id \in Ids
        BY <1>3, <1>4, <2>1, <3>1 DEF HasRow
      <4> QED
        BY <1>1, <4>1 DEF RowsTyped
    <3> QED
      BY <1>1, <1>3, <2>1, <3>1 DEF RowsTyped
  <2> QED
    BY <1>1, <1>3, <2>1 DEF RowsTyped
<1>8. CASE ~Live
  <2>1. eventq[Len(eventq)].type = "DISCONNECT"
    BY <1>1, <1>8 DEF QueueFits
  <2>2. CASE Len(eventq) = 1
    <3>1. ev.type = "DISCONNECT"
      BY <1>2, <2>1, <2>2
    <3>2. UNCHANGED reader /\ (\A id \in Ids : tree'[id] = 0) /\ \A id : ~(Awaits(id)')
      BY <1>3, <1>6, <3>1 DEF Awaits
    <3>3. eventq' = <<>>
      BY <1>1, <2>2
    <3> QED
      BY <1>1, <1>7, <1>8, <3>2, <3>3 DEF QueueFits, Stories, Live, AtRest
  <2>3. CASE Len(eventq) > 1
    <3>1. eventq' # <<>> /\ eventq'[Len(eventq')] = eventq[Len(eventq)]
      <4>1. Len(eventq') = Len(eventq) - 1 /\ \A k \in 1..Len(eventq') : eventq'[k] = eventq[k + 1]
        BY <1>1, HeadTailProperties
      <4>2. Len(eventq) - 1 \in 1..Len(eventq') /\ (Len(eventq) - 1) + 1 = Len(eventq)
        BY <1>2, <2>3, <4>1
      <4>3. eventq' # <<>>
        <5>1. eventq' \in Seq(Events)
          BY <1>1
        <5>2. Len(eventq') > 0
          BY <1>2, <2>3, <4>1
        <5> QED
          BY <5>1, <5>2
      <4> QED
        BY <4>1, <4>2, <4>3
    <3> QED
      BY <1>1, <1>7, <1>8, <2>1, <3>1 DEF QueueFits, Stories, Live, AtRest
  <2>4. Len(eventq) = 1 \/ Len(eventq) > 1
    BY <1>2
  <2> QED
    BY <2>2, <2>3, <2>4
<1>9. CASE Live
  <2>1. 1 \in DOMAIN eventq
    BY <1>1, <1>2
  <2>2. ev.type # "DISCONNECT" /\ (ev.type = "LOGOUT" => loggedin)
    BY <1>1, <1>2, <1>9, <2>1 DEF QueueFits
  <2>3. \A k \in DOMAIN eventq' : \E j \in DOMAIN eventq : eventq'[k] = eventq[j]
    <3>1. /\ DOMAIN eventq' = 1..(Len(eventq) - 1) /\ DOMAIN eventq = 1..Len(eventq)
          /\ \A k \in 1..(Len(eventq) - 1) : eventq'[k] = eventq[k + 1]
      BY <1>1, HeadTailProperties
    <3>2. \A k \in 1..(Len(eventq) - 1) : k + 1 \in 1..Len(eventq)
      BY <1>2
    <3> QED
      BY <3>1, <3>2
  <2>4. QueueFits'
    BY <1>1, <1>9, <2>3 DEF QueueFits, Live
  <2>5. PICK i \in Ids : i = ev.id
    BY <1>4, <2>2
  <2>6. CASE ev.type = "LOGIN"
    <3>1. UNCHANGED tree /\ \A id : (Awaits(id)' <=> id = i) /\ (WillAdd(id)' <=> id = i)
      BY <1>3, <1>5, <2>5, <2>6 DEF Awaits, WillAdd
    <3>2. \A id : /\ ev = [type |-> "LOGIN", id |-> id] <=> id = i
                  /\ ev # [type |-> "LOGOUT", id |-> id]
      BY <1>4, <2>5, <2>6
    <3>3. Stories'
      BY <1>1, <3>1, <3>2, StoriesShrink DEF ev
    <3> QED
      BY <1>7, <2>4, <3>3
  <2>7. CASE ev.type = "LOGOUT"
    <3>1. \A id : /\ ev = [type |-> "LOGOUT", id |-> id] <=> id = i
                  /\ ev # [type |-> "LOGIN", id |-> id]
      BY <1>4, <2>5, <2>7
    <3>2. \A id : ~(Awaits(id)')
      BY <1>3, <1>6, <2>7 DEF Awaits
    <3>3. tree' = IF tree[i] > 0 THEN [tree EXCEPT ![i] = @ - 1] ELSE tree
      BY <1>3, <2>2, <2>5, <2>7 DEF HasRow
    <3>4. /\ \A id \in Ids : id # i => tree'[id] = tree[id]
          /\ tree[i] \in {0, 1} => tree'[i] = 0
      BY <1>1, <3>3
    <3>5. Stories'
      BY <1>1, <3>1, <3>2, <3>4, StoriesShrink DEF ev
    <3> QED
      BY <1>7, <2>4, <3>5
  <2>8. CASE ev.type \notin {"LOGIN", "LOGOUT"}
    <3>1. UNCHANGED tree /\ \A id : ~(Awaits(id)')
      BY <1>3, <1>5, <1>6, <2>2, <2>8 DEF Awaits
    <3>2. \A id : /\ ev # [type |-> "LOGOUT", id |-> id]
                  /\ ev # [type |-> "LOGIN", id |-> id]
      BY <2>8
    <3>3. Stories'
      BY <1>1, <3>1, <3>2, StoriesShrink DEF ev
    <3> QED
      BY <1>7, <2>4, <3>3
  <2> QED
    BY <2>6, <2>7, <2>8
<1> QED
  BY <1>8, <1>9

LEMMA ApiRows ==
  ASSUME RowsHeld, Api
  PROVE  QueueFits' /\ Stories' /\ RowsTyped'
<1> USE UserListAssumption
<1>1. reader \in [Readers -> {Idle} \cup AnyLookUp] /\ RowsTyped /\ Gui \in Readers
  BY DEF RowsHeld, RowInv, UserListInv, Typed
<1>2. CASE GuiEvent
  BY <1>2, EventRows
<1>3. CASE \E r \in Readers : LookUpLock(r) \/ LookUpWalk(r) \/ LookUpCopy(r)
  BY <1>3, LookUpRows
<1>4. CASE StartRecording
  BY <1>1, <1>4, OtherReader DEF StartRecording, listVars, netVars, RowsTyped
<1>5. ASSUME NEW r \in Readers, NEW id \in Ids, NEW for \in {"call", "stop"},
             reader[r] = Idle, Begin(r, id, for),
             UNCHANGED <<listVars, netVars, loggedin, eventq, tree>>
      PROVE  QueueFits' /\ Stories' /\ RowsTyped'
  <2>1. /\ r # Gui => reader'[Gui] = reader[Gui]
        /\ r = Gui => reader'[Gui].for # "event"
    BY <1>1, <1>5 DEF Begin
  <2> QED
    BY <1>1, <1>5, <2>1, OtherReader DEF listVars, netVars, RowsTyped
<1>6. ASSUME NEW i \in Ids, StopRecording(i)
      PROVE  QueueFits' /\ Stories' /\ RowsTyped'
  BY <1>1, <1>5, <1>6 DEF StopRecording
<1>7. ASSUME NEW r \in Readers, NEW i \in Ids, GetUser(r, i)
      PROVE  QueueFits' /\ Stories' /\ RowsTyped'
  BY <1>5, <1>7 DEF GetUser
<1> QED
  BY <1>2, <1>3, <1>4, <1>6, <1>7 DEF Api

LEMMA RowInductive ==
  Spec => []RowInv
<1>1. Init => RowInv
  <2> SUFFICES ASSUME Init PROVE RowInv
    OBVIOUS
  <2> USE UserListAssumption
  <2>1. tree \in [Ids -> Nat] /\ \A id \in Ids : tree[id] = 0
    BY DEF Init
  <2>2. \A r \in Readers : reader[r] = Idle
    BY DEF Init
  <2>3. \A id : ~Awaits(id)
    BY <2>2 DEF Awaits
  <2>4. at = "offline" /\ eventq = <<>> /\ list = <<>>
    BY DEF Init
  <2>5. QueueFits /\ Stories
    BY <2>1, <2>3, <2>4 DEF QueueFits, Stories, Live, AtRest
  <2> QED
    BY <2>1, <2>2, <2>4, <2>5 DEF RowInv, RowsTyped, ListFits, WalkFits, ReaderFits, AtRest
<1>2. UserListInv /\ PhantomInv /\ RowInv /\ [Next]_vars => RowInv'
  <2> SUFFICES ASSUME UserListInv, PhantomInv, RowInv, [Next]_vars PROVE RowInv'
    OBVIOUS
  <2>1. ReaderFits'
    BY ReadersStay DEF RowInv
  <2>2. ListFits' /\ WalkFits'
    BY PacketListFits, ComeListFits, SettingListFits, GoListFits, OtherListFits
    DEF RowInv, Next, Network
  <2>3. ASSUME Orderly
        PROVE  QueueFits' /\ Stories' /\ RowsTyped'
    <3>1. RowsHeld /\ RowsTyped /\ Gui \in Readers
      BY <2>3, UserListAssumption DEF RowsHeld, RowInv
    <3>2. CASE UNCHANGED vars
      BY <3>1, <3>2, OtherReader
      DEF vars, listVars, lockVars, netVars, apiVars, RowsTyped
    <3>3. CASE Network
      <4>1. RowsTyped'
        BY <3>1, <3>3 DEF Network, Packet, Login, LoginComplete, Packet5d, PacketPhantom, PacketUnphantom,
           PacketSetting, PhantomName, UpdateUser, Tell, Record, FindUser, WriteUser, EndSetting,
           RemoveUser, Logout, WalkPhantom, WalkEnd, Disconnect, Close, DestroyList, apiVars, RowsTyped
      <4> QED
        BY <3>1, <3>3, <4>1, PacketRows, ComeRows, SettingRows, GoRows, SessionRows DEF Network
    <3>4. CASE Api
      BY <3>1, <3>4, ApiRows
    <3> QED
      BY <3>2, <3>3, <3>4 DEF Next
  <2> QED
    BY <2>1, <2>2, <2>3 DEF RowInv
<1> QED
  BY <1>1, <1>2, UserListInductive, PhantomInductive, PTL DEF Spec

\* Once the GUI has taken every event its rows are the users on the list,
\* each once: a LOGIN whose user is gone again when the GUI looks him up
\* leaves no row, and no LOGOUT, MODIFY or phantom leaves one too many.  It
\* takes an orderly server: a LOGOUT before the login is complete is ignored.
THEOREM RowsAreUsers == Spec => [](Orderly => RowsMatch)
<1>1. RowInv /\ UserListInv => (Orderly => RowsMatch)
  <2> SUFFICES ASSUME RowInv, Orderly, at = "idle", eventq = <<>>,
                      reader[Gui].at \notin {"lock", "walk", "copy"}, UserListInv, NEW id \in Ids
               PROVE  tree[id] = IF On(id) THEN 1 ELSE 0
    BY DEF RowsMatch
  <2>1. reader[Gui] = Idle
    <3>1. reader[Gui] \in {Idle} \cup AnyLookUp
      BY UserListAssumption DEF UserListInv, Typed
    <3> QED
      BY <3>1 DEF AnyLookUp
  <2>2. Len(eventq) = 0 /\ ~WillAdd(id)
    BY <2>1 DEF WillAdd, Awaits
  <2>3. PICK f \in [1..1 -> BOOLEAN] : Story(id, f)
    BY <2>2 DEF RowInv, Stories, Live
  <2>4. f[1] \in BOOLEAN /\ (f[1] <=> On(id))
    BY <2>2, <2>3 DEF Story, Told, OwesLogin, OwesLogout
  <2> QED
    BY <2>2, <2>3, <2>4 DEF Story
<1> QED
  BY <1>1, RowInductive, UserListInductive, PTL
=============================================================================
