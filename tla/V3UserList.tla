------------------------------ MODULE V3UserList ------------------------------
(***************************************************************************)
(* The user list of libventrilo3.c, the mutex around it, and the rows the  *)
(* GUI derives from the events about it.                                   *)
(*                                                                         *)
(* The network thread is the only one to change the list: 0x5d (users log  *)
(* in, are modified, log out), 0x58 (phantoms), 0x46 (settings of a user)  *)
(* and _v3_logout.  API threads look users up.  The mutex is of type       *)
(* PTHREAD_MUTEX_ERRORCHECK: locking it twice is an error that changes     *)
(* nothing, and the first unlock releases it.  _v3_get_user,               *)
(* _v3_update_user and _v3_remove_user lock and unlock it themselves, also *)
(* inside a handler that holds it, so the handler goes on without it.      *)
(*                                                                         *)
(* A user is a node of the list with a serial number: two logins with the  *)
(* same id are two nodes, and a node that left the list has been freed.    *)
(***************************************************************************)
EXTENDS Naturals, Sequences, FiniteSets, SequencesExt

CONSTANTS
  Users, Phantoms,  (* ids the server gives to users and to phantoms        *)
  Readers, Gui,     (* API threads; Gui is the one that takes the events    *)
  Net, Nobody,      (* the network thread; the owner of a free mutex        *)
  MaxNodes,         (* bound: nodes created                                 *)
  MaxCalls,         (* bound: look-ups of the readers for their own sake    *)
  MaxEvents,        (* bound: length of the event queue at which the server *)
                    (* still sends packets                                  *)
  MayRecord,        (* TRUE: the GUI may record the conversation            *)
  Orderly,          (* TRUE: nobody leaves before the login is complete     *)
  Reuse             (* TRUE: freed memory may be handed out to another      *)
                    (* thread before the code has read it for the last time *)

ASSUME UserListAssumption ==
  /\ Gui \in Readers /\ Net \notin Readers /\ Nobody \notin Readers \cup {Net}
  /\ 0 \notin Users \cup Phantoms /\ Users \cap Phantoms = {}
  /\ MaxNodes \in Nat /\ MaxCalls \in Nat /\ MaxEvents \in Nat
  /\ MayRecord \in BOOLEAN /\ Orderly \in BOOLEAN /\ Reuse \in BOOLEAN

Ids     == Users \cup Phantoms
Threads == Readers \cup {Net}
NoUser  == [node |-> 0, id |-> 0, real |-> 0]
Nodes   == [node : 1..MaxNodes, id : Ids, real : Users \cup {0}]

\* A 0x5d in progress: what it does, to whom now, to whom still.
Kinds == {"add", "modify", "remove", "rank", "phantom", "unphantom", "setting", "mute"}
NoJob == [kind |-> "none", id |-> 0, real |-> 0, todo |-> {}]
Jobs  == {NoJob} \cup [kind : Kinds, id : Ids, real : Users \cup {0}, todo : SUBSET Users]
NetPCs == {"offline", "idle", "name", "update", "tell", "record", "find", "remove",
           "logout", "walk", "write", "unlock", "close", "destroy"}

VARIABLES
  list,      (* v3_user_list, head first                                    *)
  nodes,     (* nodes created so far                                        *)
  owner,     (* owner of userlist_mutex                                     *)
  vrfh,      (* owner of vrfh_mutex                                         *)
  recording, (* v3_vrfh is not NULL                                         *)
  loggedin,  (* _v3_user_loggedin                                           *)
  at, job,   (* network thread: program counter; the packet it handles      *)
  rest,      (* what is left of the list in its walk over the phantoms      *)
  reader,    (* API threads: the look-up in progress                        *)
  calls,     (* look-ups so far                                             *)
  eventq,    (* the event queue                                             *)
  tree       (* GUI: rows in the channel tree for each id                   *)

netVars  == <<at, job, rest>>
listVars == <<list, nodes>>
apiVars  == <<reader, calls, tree>>
lockVars == <<owner, vrfh, recording>>
vars == <<listVars, lockVars, loggedin, netVars, apiVars, eventq>>

\* v3_get_user: waiting for the mutex, walking the list with it, copying the
\* user it found.  "for" is why: a LOGIN event, the end of a recording, or
\* any other reason.
Idle    == [at |-> "idle"]
LookUps == [at : {"lock", "walk", "copy"}, id : Ids, user : Nodes \cup {NoUser},
            for : {"event", "stop", "call"}]
EventTypes == {"LOGIN", "MODIFY", "LOGOUT", "RANK_CHANGE", "MUTE_CHANGED"}
Events  == [type : EventTypes, id : Ids] \cup {[type |-> "DISCONNECT", id |-> 0]}

TypeOK ==
  /\ list \in Seq(Nodes) /\ nodes \in 0..MaxNodes
  /\ owner \in Threads \cup {Nobody} /\ vrfh \in Threads \cup {Nobody}
  /\ recording \in BOOLEAN /\ loggedin \in BOOLEAN
  /\ at \in NetPCs /\ job \in Jobs /\ rest \in Seq(Nodes)
  /\ reader \in [Readers -> {Idle} \cup LookUps]
  /\ calls \in 0..MaxCalls
  /\ eventq \in Seq(Events)
  /\ tree \in [Ids -> Nat]

Init ==
  /\ list = <<>> /\ nodes = 0 /\ owner = Nobody /\ vrfh = Nobody
  /\ recording = FALSE /\ loggedin = FALSE
  /\ at = "offline" /\ job = NoJob /\ rest = <<>>
  /\ reader = [r \in Readers |-> Idle] /\ calls = 0
  /\ eventq = <<>> /\ tree = [i \in Ids |-> 0]

On(id)    == \E i \in DOMAIN list : list[i].id = id
Place(id) == CHOOSE i \in DOMAIN list : list[i].id = id
Find(id)  == IF On(id) THEN list[Place(id)] ELSE NoUser
Without(id) == IF On(id) THEN RemoveAt(list, Place(id)) ELSE list
Queue(type, id) == eventq' = Append(eventq, [type |-> type, id |-> id])

\* A function that locks and unlocks for itself, called by the network
\* thread: it waits for any other owner and leaves the mutex free.
LockAndUnlock == owner \in {Nobody, Net} /\ owner' = Nobody
Lock(t)   == owner = Nobody /\ owner' = t
Unlock(t) == owner' = IF owner = t THEN Nobody ELSE owner
-----------------------------------------------------------------------------
(* The network thread: packets.                                            *)

\* A new login of the GUI, after the DISCONNECT of the last one; 0x34.
Login ==
  /\ at = "offline" /\ ~loggedin /\ eventq = <<>> /\ nodes < MaxNodes
  /\ at' = "idle"
  /\ UNCHANGED <<listVars, lockVars, loggedin, job, rest, apiVars, eventq>>

LoginComplete ==
  /\ at = "idle" /\ ~loggedin /\ loggedin' = TRUE
  /\ UNCHANGED <<listVars, lockVars, netVars, apiVars, eventq>>

Listening == at = "idle" /\ Len(eventq) < MaxEvents

\* Where the 0x5d handler begins with each user.
FirstStep(kind) == CASE kind \in {"add", "modify"} -> "update"
                     [] kind = "remove" -> "record"
                     [] kind = "rank" -> "find"

\* 0x5d: the mutex is locked, then the users are handled one by one.  The
\* server adds users that are not on the list, and modifies or removes
\* users that are.
Packet5d(kind, ids) ==
  /\ Listening /\ ids # {}
  /\ kind = "add" => nodes + Cardinality(ids) <= MaxNodes
  /\ kind = "remove" /\ Orderly => loggedin
  /\ \A i \in ids : On(i) <=> kind # "add"
  /\ Lock(Net)
  /\ \E i \in ids : job' = [kind |-> kind, id |-> i, real |-> 0, todo |-> ids \ {i}]
  /\ at' = FirstStep(kind)
  /\ UNCHANGED <<listVars, vrfh, recording, loggedin, rest, apiVars, eventq>>

\* 0x58: the name of the phantom is that of the real user.
PacketPhantom(p, real) ==
  /\ Listening /\ ~On(p) /\ On(real) /\ nodes < MaxNodes
  /\ job' = [kind |-> "phantom", id |-> p, real |-> real, todo |-> {}]
  /\ at' = "name"
  /\ UNCHANGED <<listVars, lockVars, loggedin, rest, apiVars, eventq>>

PacketUnphantom(p) ==
  /\ Listening /\ On(p) /\ (Orderly => loggedin)
  /\ job' = [kind |-> "unphantom", id |-> p, real |-> 0, todo |-> {}]
  /\ at' = "remove"
  /\ UNCHANGED <<listVars, lockVars, loggedin, rest, apiVars, eventq>>

\* 0x46: the handler locks the mutex to write to the user it looks up.
PacketSetting(kind, id) ==
  /\ Listening /\ Lock(Net)
  /\ job' = [kind |-> kind, id |-> id, real |-> 0, todo |-> {}]
  /\ at' = "find"
  /\ UNCHANGED <<listVars, vrfh, recording, loggedin, rest, apiVars, eventq>>

\* The end of one round of the loop in the 0x5d handler; after the last one
\* the handler unlocks the mutex.
Round(first) ==
  IF job.todo = {} THEN at' = "idle" /\ job' = NoJob /\ Unlock(Net)
  ELSE /\ at' = first /\ UNCHANGED owner
       /\ \E i \in job.todo : job' = [job EXCEPT !.id = i, !.todo = @ \ {i}]
-----------------------------------------------------------------------------
(* The network thread: users come.                                         *)

PhantomName ==
  /\ at = "name" /\ LockAndUnlock /\ at' = "update"
  /\ UNCHANGED <<listVars, vrfh, recording, loggedin, job, rest, apiVars, eventq>>

\* _v3_update_user: in place, or at the end of the list.
UpdateUser ==
  /\ at = "update" /\ LockAndUnlock /\ at' = "tell"
  /\ IF On(job.id)
     THEN /\ list' = [i \in DOMAIN list |->
                        IF list[i].id = job.id THEN [list[i] EXCEPT !.real = job.real] ELSE list[i]]
          /\ UNCHANGED nodes
     ELSE /\ list' = Append(list, [node |-> nodes + 1, id |-> job.id, real |-> job.real])
          /\ nodes' = nodes + 1
  /\ UNCHANGED <<vrfh, recording, loggedin, job, rest, apiVars, eventq>>

Tell ==
  /\ at = "tell" /\ Round(IF job.kind = "rank" THEN "find" ELSE "update")
  /\ Queue(CASE job.kind = "modify" -> "MODIFY"
             [] job.kind = "rank" -> "RANK_CHANGE"
             [] OTHER -> "LOGIN", job.id)
  /\ UNCHANGED <<listVars, vrfh, recording, loggedin, rest, apiVars>>
-----------------------------------------------------------------------------
(* The network thread: users go.                                           *)

\* _v3_vrf_record_event, under vrfh_mutex; it calls v3_get_user.
Record ==
  /\ at = "record" /\ at' = IF job.kind = "remove" THEN "find" ELSE "unlock"
  /\ IF recording THEN vrfh = Nobody /\ LockAndUnlock ELSE UNCHANGED owner
  /\ UNCHANGED <<listVars, vrfh, recording, loggedin, job, rest, apiVars, eventq>>

\* _v3_get_user.
FindUser ==
  /\ at = "find" /\ LockAndUnlock
  /\ \/ job.kind = "remove" /\ at' = "remove"
     \/ job.kind \in {"setting", "mute", "rank"} /\ On(job.id) /\ at' = "write"
     \/ job.kind \in {"setting", "mute"} /\ ~On(job.id) /\ at' = "unlock"
     \/ job.kind = "rank" /\ ~On(job.id) /\ at' = "tell"
  /\ UNCHANGED <<listVars, vrfh, recording, loggedin, job, rest, apiVars, eventq>>

\* 0x46 and the rank change of 0x5d write to the user they found.  A mute
\* is an event too, and stops the recording of the user.
WriteUser ==
  /\ at = "write"
  /\ \/ job.kind = "rank" /\ at' = "tell" /\ UNCHANGED eventq
     \/ job.kind = "setting" /\ at' = "unlock" /\ UNCHANGED eventq
     \/ job.kind = "mute" /\ at' \in {"record", "unlock"} /\ Queue("MUTE_CHANGED", job.id)
  /\ UNCHANGED <<listVars, lockVars, loggedin, job, rest, apiVars>>

EndSetting ==
  /\ at = "unlock" /\ at' = "idle" /\ job' = NoJob /\ Unlock(Net)
  /\ UNCHANGED <<listVars, vrfh, recording, loggedin, rest, apiVars, eventq>>

\* Mutant: _v3_remove_user does not lock.
RemoveUnlocked ==
  /\ at = "remove" /\ at' = "logout"
  /\ list' = Without(job.id)
  /\ UNCHANGED <<nodes, lockVars, loggedin, job, rest, apiVars, eventq>>

\* _v3_remove_user.
RemoveUser ==
  /\ at = "remove" /\ LockAndUnlock /\ at' = "logout"
  /\ list' = Without(job.id)
  /\ UNCHANGED <<nodes, vrfh, recording, loggedin, job, rest, apiVars, eventq>>

\* Mutant: the phantoms are not walked over.
LogoutOnly ==
  /\ at = "logout" /\ Queue("LOGOUT", job.id) /\ Round("record")
  /\ UNCHANGED <<listVars, vrfh, recording, loggedin, rest, apiVars>>

Logout ==
  /\ at = "logout" /\ Queue("LOGOUT", job.id)
  /\ IF job.kind = "remove" THEN at' = "walk" /\ rest' = list /\ UNCHANGED <<owner, job>>
                             ELSE Round("remove") /\ UNCHANGED rest
  /\ UNCHANGED <<listVars, vrfh, recording, loggedin, apiVars>>

\* The walk over the list meets the next phantom of the user at n.
IsNext(n) == rest[n].real = job.id /\ \A k \in 1..(n - 1) : rest[k].real # job.id

\* Mutant: the phantoms go without an event.
WalkQuietly ==
  /\ at = "walk" /\ LockAndUnlock
  /\ \E n \in DOMAIN rest : /\ IsNext(n)
                            /\ list' = Without(rest[n].id)
                            /\ rest' = SubSeq(rest, n + 1, Len(rest))
  /\ UNCHANGED <<nodes, vrfh, recording, loggedin, at, job, apiVars, eventq>>

\* Its phantoms are removed, each with an event.  u = u->next then reads the
\* phantom just freed: the memory is intact, or another thread has been
\* given it for a copy of a user, whose next is NULL.
WalkPhantom ==
  /\ at = "walk" /\ LockAndUnlock
  /\ \E n \in DOMAIN rest :
       /\ IsNext(n)
       /\ list' = Without(rest[n].id)
       /\ Queue("LOGOUT", rest[n].id)
       /\ \/ rest' = SubSeq(rest, n + 1, Len(rest))
          \/ Reuse /\ rest' = <<>>
  /\ UNCHANGED <<nodes, vrfh, recording, loggedin, at, job, apiVars>>

WalkEnd ==
  /\ at = "walk" /\ ~ \E n \in DOMAIN rest : IsNext(n)
  /\ Round("record") /\ rest' = <<>>
  /\ UNCHANGED <<listVars, vrfh, recording, loggedin, apiVars, eventq>>

\* _v3_logout: the event, the flag, the list, which it frees without the mutex.
Disconnect ==
  /\ at = "idle" /\ at' = "close" /\ Queue("DISCONNECT", 0)
  /\ UNCHANGED <<listVars, lockVars, loggedin, job, rest, apiVars>>

Close ==
  /\ at = "close" /\ at' = "destroy" /\ loggedin' = FALSE
  /\ UNCHANGED <<listVars, lockVars, job, rest, apiVars, eventq>>

DestroyList ==
  /\ at = "destroy" /\ at' = "offline" /\ list' = <<>>
  /\ UNCHANGED <<nodes, lockVars, loggedin, job, rest, apiVars, eventq>>
-----------------------------------------------------------------------------
(* API threads.                                                            *)

Begin(r, id, for) ==
  reader' = [reader EXCEPT ![r] = [at |-> "lock", id |-> id, user |-> NoUser, for |-> for]]

GetUser(r, id) ==
  /\ reader[r] = Idle /\ calls < MaxCalls
  /\ Begin(r, id, "call") /\ calls' = calls + 1
  /\ UNCHANGED <<listVars, lockVars, loggedin, netVars, eventq, tree>>

LookUpLock(r) ==
  /\ reader[r].at = "lock" /\ Lock(r)
  /\ reader' = [reader EXCEPT ![r].at = "walk"]
  /\ UNCHANGED <<listVars, vrfh, recording, loggedin, netVars, calls, eventq, tree>>

\* Mutant: as if the mutex were recursive, v3_get_user still owns it after
\* the call of _v3_get_user.
LookUpKeepsLock(r) ==
  /\ reader[r].at = "walk"
  /\ reader' = [reader EXCEPT ![r].at = "copy", ![r].user = Find(reader[r].id)]
  /\ UNCHANGED <<listVars, lockVars, loggedin, netVars, calls, eventq, tree>>

\* The call of _v3_get_user in v3_get_user: whether it finds the user or
\* not, it unlocks the mutex.
LookUpWalk(r) ==
  /\ reader[r].at = "walk"
  /\ Unlock(r)
  /\ reader' = [reader EXCEPT ![r].at = "copy", ![r].user = Find(reader[r].id)]
  /\ UNCHANGED <<listVars, vrfh, recording, loggedin, netVars, calls, eventq, tree>>

\* _v3_copy_user, then what the caller does with the copy: the handler of a
\* LOGIN event adds a row, v3_vrf_record_stop ends the recording.
LookUpCopy(r) ==
  /\ reader[r].at = "copy"
  /\ reader' = [reader EXCEPT ![r] = Idle]
  /\ tree' = IF reader[r].for = "event" /\ reader[r].user # NoUser
             THEN [tree EXCEPT ![reader[r].user.id] = @ + 1] ELSE tree
  /\ IF reader[r].for = "stop" THEN vrfh' = Nobody /\ recording' = FALSE
                               ELSE UNCHANGED <<vrfh, recording>>
  /\ UNCHANGED <<listVars, owner, loggedin, netVars, calls, eventq>>

StartRecording ==
  /\ MayRecord /\ reader[Gui] = Idle /\ ~recording /\ calls < MaxCalls
  /\ recording' = TRUE /\ calls' = calls + 1
  /\ UNCHANGED <<listVars, owner, vrfh, loggedin, netVars, reader, eventq, tree>>

\* v3_vrf_record_stop: vrfh_mutex first, then v3_get_user.
StopRecording(id) ==
  /\ reader[Gui] = Idle /\ recording /\ vrfh = Nobody
  /\ vrfh' = Gui /\ Begin(Gui, id, "stop")
  /\ UNCHANGED <<listVars, owner, recording, loggedin, netVars, calls, eventq, tree>>

\* Whether ManglerChannelTree::removeUser finds a row to remove.
HasRow(id) == tree[id] > 0

\* getNetworkEvent.  LOGIN looks the user up; LOGOUT, MODIFY and RANK_CHANGE
\* are ignored unless logged in; DISCONNECT clears the tree.
GuiEvent ==
  /\ reader[Gui] = Idle /\ eventq # <<>>
  /\ eventq' = Tail(eventq)
  /\ LET ev == Head(eventq) IN
       \/ /\ ev.type = "LOGIN"
          /\ Begin(Gui, ev.id, "event") /\ UNCHANGED <<calls, tree>>
       \/ /\ ev.type \in {"MODIFY", "RANK_CHANGE"}
          /\ IF loggedin THEN Begin(Gui, ev.id, "call") ELSE UNCHANGED reader
          /\ UNCHANGED <<calls, tree>>
       \/ /\ ev.type = "LOGOUT"
          /\ tree' = IF loggedin /\ HasRow(ev.id) THEN [tree EXCEPT ![ev.id] = @ - 1] ELSE tree
          /\ UNCHANGED <<reader, calls>>
       \/ /\ ev.type = "MUTE_CHANGED"
          /\ UNCHANGED <<reader, calls, tree>>
       \/ /\ ev.type = "DISCONNECT"
          /\ tree' = [i \in Ids |-> 0]
          /\ UNCHANGED <<reader, calls>>
  /\ UNCHANGED <<listVars, lockVars, loggedin, netVars>>
-----------------------------------------------------------------------------
Packet ==
  \/ \E ids \in SUBSET Users, kind \in {"add", "modify", "remove", "rank"} : Packet5d(kind, ids)
  \/ \E p \in Phantoms, real \in Users : PacketPhantom(p, real)
  \/ \E p \in Phantoms : PacketUnphantom(p)
  \/ \E kind \in {"setting", "mute"}, i \in Ids : PacketSetting(kind, i)

Network ==
  \/ Login \/ LoginComplete \/ Packet
  \/ PhantomName \/ UpdateUser \/ Tell
  \/ Record \/ FindUser \/ WriteUser \/ EndSetting \/ RemoveUser \/ Logout \/ WalkPhantom \/ WalkEnd
  \/ Disconnect \/ Close \/ DestroyList

Api ==
  \/ GuiEvent \/ StartRecording \/ (\E i \in Ids : StopRecording(i))
  \/ \E r \in Readers : \/ \E i \in Ids : GetUser(r, i)
                        \/ LookUpLock(r) \/ LookUpWalk(r) \/ LookUpCopy(r)

Next == Network \/ Api
Spec == Init /\ [][Next]_vars

\* The network thread goes on with a packet it has begun, a look-up with its
\* steps.  The mutex is free again and again, so that who waits for it gets it.
Handle == \/ PhantomName \/ UpdateUser \/ Tell \/ Record \/ FindUser \/ WriteUser \/ EndSetting
          \/ RemoveUser \/ Logout \/ WalkPhantom \/ WalkEnd \/ Close \/ DestroyList

FairSpec ==
  /\ Spec
  /\ SF_vars(Handle)
  /\ \A r \in Readers :
       SF_vars(LookUpLock(r)) /\ WF_vars(LookUpWalk(r)) /\ WF_vars(LookUpCopy(r))
-----------------------------------------------------------------------------
(* Properties.                                                             *)

\* No two users on the list have the same id.
UniqueIds == \A i, j \in DOMAIN list : list[i].id = list[j].id => i = j

\* Between packets the network thread does not hold the mutex, and an API
\* thread holds it only while it walks the list: no path leaks the lock.
LockIsReleased ==
  /\ at \in {"idle", "offline", "close", "destroy"} => owner # Net
  /\ \A r \in Readers : owner = r <=> reader[r].at = "walk"

\* While a thread walks the list with the mutex locked nobody else changes
\* the list, _v3_logout excepted.
StableUnderLock ==
  [][list' # list /\ at # "destroy" => \A r \in Readers : reader[r].at # "walk"]_list

\* libventrilo3.c:5048, "disconnect all user's phantoms": between packets no
\* phantom of a user who is gone is on the list.
PhantomsGoToo ==
  at = "idle" => \A i \in DOMAIN list : list[i].real # 0 => On(list[i].real)

\* Once the GUI has taken every event its rows are the users on the list,
\* each once, whatever happened between an event and its look-up.
RowsMatch ==
  at = "idle" /\ eventq = <<>> /\ reader[Gui].at \notin {"lock", "walk", "copy"}
    => \A i \in Ids : tree[i] = IF On(i) THEN 1 ELSE 0

\* A look-up that has begun returns: the mutex always comes back, unless a
\* recording goes on, the end of which can wait for ever.
LookUpReturns ==
  \A r \in Readers : reader[r] # Idle ~> (reader[r] = Idle \/ recording)

\* libventrilo3.c:6378, "This function returns a COPY of the user structure":
\* the user that is copied is on the list.
CopyIsOfUser ==
  \A r \in Readers :
    reader[r].at = "copy" /\ reader[r].user # NoUser
      => \E i \in DOMAIN list : list[i].node = reader[r].user.node

=============================================================================
