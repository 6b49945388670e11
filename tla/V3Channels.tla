------------------------------ MODULE V3Channels ------------------------------
(***************************************************************************)
(* The channel list of libventrilo3.c, the channel each user is in, and    *)
(* the tree of rows the GUI keeps of both.                                 *)
(*                                                                         *)
(* The network thread changes the list: 0x60 and 0x49 add, modify and      *)
(* remove channels, 0x3b moves one before another or moves a user, 0x53    *)
(* moves a user.  For each change it queues an event.  The GUI takes the   *)
(* events later and looks up what they name as it is then; a row hangs     *)
(* under the row of its parent and goes when that row goes.                *)
(*                                                                         *)
(* The locks of the lists are left to V3UserList: here a list is changed   *)
(* in one step and the event queued in the next.  The user may see the     *)
(* channels (the right see_chan_list).                                     *)
(***************************************************************************)
EXTENDS Integers, Sequences, FiniteSets, SequencesExt

CONSTANTS
  Channels, Users,  (* ids the server gives to channels and to users        *)
  Pieces,           (* what a name can hold between two separators          *)
  MaxAdds,          (* bound: channels added                                *)
  MaxSteps,         (* bound: other packets                                 *)
  MaxEvents,        (* bound: length of the event queue at which the server *)
                    (* still sends packets                                  *)
  Readd             (* TRUE: the server may use the id of a channel again   *)

\* A user or a channel is moved by the same packet, 0x3b, so the ids differ; 0 is
\* the lobby, and -1, which no uint16_t is, stands for nowhere.
ASSUME ChannelsAssumption ==
  /\ Channels \cap Users = {} /\ {0, -1} \cap (Channels \cup Users) = {}
  /\ MaxAdds \in Nat /\ MaxSteps \in Nat /\ MaxEvents \in Nat /\ Readd \in BOOLEAN

Lobby  == 0
Away   == -1
Places == Channels \cup {Lobby}

VARIABLES
  chans,     (* v3_channel_list: the ids, head first                        *)
  parent,    (* their parents; Away for a channel that is not on the list   *)
  place,     (* channel of each user of the user list, Away for nobody      *)
  loggedin,  (* _v3_user_loggedin                                           *)
  at, event, (* network thread: program counter; the event it will queue    *)
  eventq,    (* the event queue                                             *)
  rows,      (* the tree of the GUI: what each row shows and hangs under    *)
  lobby,     (* the tree has the row of the lobby, at its top               *)
  adds, steps,
  past,      (* history: channels that were once removed                    *)
  unfound    (* history: channels updateChannel found no row for            *)

listVars == <<chans, parent, place>>
netVars  == <<loggedin, at, event>>
guiVars  == <<rows, lobby, unfound>>
vars     == <<listVars, netVars, eventq, guiVars, adds, steps, past>>

EventTypes == {"USER_LOGIN", "USER_LOGOUT", "USER_CHAN_MOVE", "CHAN_ADD", "CHAN_MODIFY",
               "CHAN_REMOVE", "CHAN_MOVE", "LOGIN_COMPLETE", "DISCONNECT"}
Events  == [type : EventTypes, id : Users \cup Places, channel : Places]
NoEvent == [type |-> "DISCONNECT", id |-> Lobby, channel |-> Lobby]
Event(type, id, c) == [type |-> type, id |-> id, channel |-> c]
Rows    == [id : Users \cup Channels, under : Places \cup {Away}]

TypeOK ==
  /\ chans \in Seq(Channels)
  /\ parent \in [Channels -> Places \cup {Away}] /\ place \in [Users -> Places \cup {Away}]
  /\ loggedin \in BOOLEAN /\ at \in {"idle", "tell", "close", "offline"}
  /\ event \in Events /\ eventq \in Seq(Events)
  /\ rows \subseteq Rows /\ lobby \in BOOLEAN
  /\ adds \in Nat /\ steps \in Nat
  /\ past \subseteq Channels /\ unfound \subseteq Channels

Init ==
  /\ chans = <<>> /\ parent = [c \in Channels |-> Away] /\ place = [u \in Users |-> Away]
  /\ loggedin = FALSE /\ at = "idle" /\ event = NoEvent
  /\ eventq = <<>> /\ rows = {} /\ lobby = TRUE
  /\ adds = 0 /\ steps = 0 /\ past = {} /\ unfound = {}
-----------------------------------------------------------------------------
(* The list.                                                               *)

Listed   == {chans[i] : i \in DOMAIN chans}

\* The position of c, 0 if it is not on the list.
Position(s, c) == IF \E i \in DOMAIN s : s[i] = c
                  THEN CHOOSE i \in DOMAIN s : s[i] = c /\ \A j \in 1..(i - 1) : s[j] # c
                  ELSE 0

\* Mutant: dest is the target itself instead of its predecessor.
MoveBehind(s, id, target) ==
  LET dest == Position(s, target)
      k    == Position(s, id)
  IN IF dest = 0 \/ k = 0 \/ k = dest THEN s
     ELSE InsertAt(RemoveAt(s, k), IF k < dest THEN dest ELSE dest + 1, id)

\* The loop of 0x3b: dest is the predecessor of the target, 0 for NULL; the
\* node is taken out and linked in behind dest.  It stays where it is if it
\* is dest.
MoveBefore(s, id, target) ==
  LET dest == Position(s, target) - 1
      k    == Position(s, id)
  IN IF dest < 0 \/ k = 0 \/ k = dest THEN s
     ELSE InsertAt(RemoveAt(s, k), IF k < dest THEN dest ELSE dest + 1, id)

\* The parents of c are on the list, up to the lobby.
InTree(c) == c = Lobby \/ \E up \in SUBSET Listed :
                             c \in up /\ \A d \in up : parent[d] \in up \cup {Lobby}

\* v3_get_channel_path: the channels from the root down to c whose names it
\* joins; it ends silently at a parent that is not on the list.  The code counts
\* no steps: no path is longer than the list.
Ancestry[n \in 0..Len(chans)] ==
  [c \in Places |-> IF c \notin Listed \/ n = 0 THEN <<>> ELSE Append(Ancestry[n - 1][parent[c]], c)]
Path(name, c) == LET line == Ancestry[Len(chans)][c]
                 IN [i \in DOMAIN line |-> name[line[i]]]

\* Mutant: the first channel of that name, wherever it is.
AnyChild(p, piece, name) ==
  LET Fits(c) == name[c] = piece
  IN IF \E c \in Listed : Fits(c) THEN chans[SelectInSeq(chans, Fits)] ELSE Away

\* The first channel on the list with this parent and this name.
Child(p, piece, name) ==
  LET Fits(c) == parent[c] = p /\ name[c] = piece
  IN IF \E c \in Listed : Fits(c) THEN chans[SelectInSeq(chans, Fits)] ELSE Away

\* The way down along the names, without going back; Away once a name is not found.
Descent(name, path) ==
  LET down[n \in 0..Len(path)] ==
        IF n = 0 THEN Lobby
        ELSE IF down[n - 1] = Away THEN Away ELSE Child(down[n - 1], path[n], name)
  IN down

\* v3_get_channel_id: the channel at the end of the way, 0 if a name is not found.
ChannelId(name, path) ==
  LET last == Descent(name, path)[Len(path)] IN IF last = Away THEN Lobby ELSE last
-----------------------------------------------------------------------------
(* Network thread.                                                         *)

\* The server sends a packet; the ones that are not an addition are counted.
Packet ==
  /\ at = "idle" /\ Len(eventq) < MaxEvents
Change ==
  /\ Packet /\ loggedin /\ steps < MaxSteps
  /\ steps' = steps + 1
  /\ UNCHANGED <<adds, loggedin, eventq, guiVars>>

\* The handler has changed a list and will queue the event.
Then(e) == at' = "tell" /\ event' = e

\* v3_queue_event: while the list has no channel every event names the lobby,
\* also the one that says which channel was the last to be removed.
Queued(e) == IF chans # <<>> THEN e
             ELSE Event(e.type, IF e.type = "CHAN_REMOVE" THEN Lobby ELSE e.id, Lobby)

\* Mutant: the event overtakes the ones before it.
TellInFront ==
  /\ at = "tell"
  /\ eventq' = <<Queued(event)>> \o eventq
  /\ at' = "idle" /\ event' = NoEvent
  /\ UNCHANGED <<listVars, loggedin, guiVars, adds, steps, past>>

Tell ==
  /\ at = "tell"
  /\ eventq' = Append(eventq, Queued(event))
  /\ at' = "idle" /\ event' = NoEvent
  /\ UNCHANGED <<listVars, loggedin, guiVars, adds, steps, past>>

\* 0x60, for each channel, and 0x49 with V3_ADD_CHANNEL: _v3_update_channel
\* appends a channel it does not find.  The server lists a parent before its
\* children, offers no channel whose parents are gone, and uses an id again
\* only if nothing refers to it any more.
AddChannel ==
  /\ Packet /\ adds < MaxAdds
  /\ \E c \in Channels \ Listed, p \in Places :
       /\ InTree(p) /\ (Readd \/ c \notin past)
       /\ \A d \in Listed : parent[d] # c
       /\ \A u \in Users : place[u] # c
       /\ chans' = Append(chans, c)
       /\ parent' = [parent EXCEPT ![c] = p]
       /\ Then(Event("CHAN_ADD", c, c))
  /\ adds' = adds + 1
  /\ UNCHANGED <<place, loggedin, eventq, guiVars, steps, past>>

\* 0x49 with V3_MODIFY_CHANNEL: name, comment, protection.  No client offers
\* to change the parent, and the server is taken not to.
ModifyChannel ==
  /\ Change
  /\ \E c \in Listed : InTree(c) /\ Then(Event("CHAN_MODIFY", c, c))
  /\ UNCHANGED <<listVars, past>>

\* _v3_remove_channel: only the channel itself, not what is below it.
Removed(c) == RemoveAt(chans, Position(chans, c))

\* 0x49 with V3_REMOVE_CHANNEL.  Users and channels in it may be moved or
\* removed by packets before this one or after it.
RemoveChannel ==
  /\ Change
  /\ \E c \in Listed :
       /\ chans' = Removed(c)
       /\ parent' = [parent EXCEPT ![c] = Away]
       /\ past' = past \cup {c}
       /\ Then(Event("CHAN_REMOVE", c, c))
  /\ UNCHANGED place

\* 0x3b for a channel: the list is changed and the event queued under one
\* lock.  No event if the channel is where it should be, or one is unknown.
MoveChannel ==
  /\ Packet /\ loggedin /\ steps < MaxSteps
  /\ steps' = steps + 1
  /\ \E id, target \in Channels :
       /\ chans' = MoveBefore(chans, id, target)
       /\ eventq' = IF {id, target} \subseteq Listed /\ Position(chans, id) # Position(chans, target) - 1
                    THEN Append(eventq, Event("CHAN_MOVE", id, target)) ELSE eventq
  /\ UNCHANGED <<parent, place, netVars, guiVars, adds, past>>

\* 0x5d: a user comes, into a channel that exists.
UserLogin ==
  /\ Packet /\ steps < MaxSteps
  /\ \E u \in Users, c \in Places :
       /\ place[u] = Away /\ InTree(c)
       /\ place' = [place EXCEPT ![u] = c]
       /\ Then(Event("USER_LOGIN", u, c))
  /\ steps' = steps + 1
  /\ UNCHANGED <<chans, parent, loggedin, eventq, guiVars, adds, past>>

\* 0x5d: a user leaves.
UserLogout ==
  /\ Change
  /\ \E u \in Users :
       /\ place[u] # Away
       /\ place' = [place EXCEPT ![u] = Away]
       /\ Then(Event("USER_LOGOUT", u, place[u]))
  /\ UNCHANGED <<chans, parent, past>>

\* 0x53, and 0x3b for a user: into a channel that exists.
MoveUser ==
  /\ Change
  /\ \E u \in Users, c \in Places :
       /\ place[u] # Away /\ InTree(c)
       /\ place' = [place EXCEPT ![u] = c]
       /\ Then(Event("USER_CHAN_MOVE", u, c))
  /\ UNCHANGED <<chans, parent, past>>

\* 0x34: the lists are complete.
LoginComplete ==
  /\ Packet /\ ~loggedin
  /\ loggedin' = TRUE
  /\ eventq' = Append(eventq, Event("LOGIN_COMPLETE", Lobby, Lobby))
  /\ UNCHANGED <<listVars, at, event, guiVars, adds, steps, past>>

\* _v3_logout: DISCONNECT is queued first; then the flag and the lists go.
Disconnect ==
  /\ at = "idle" /\ loggedin
  /\ eventq' = Append(eventq, NoEvent)
  /\ at' = "close"
  /\ UNCHANGED <<listVars, loggedin, event, guiVars, adds, steps, past>>

DestroyLists ==
  /\ at = "close"
  /\ chans' = <<>> /\ parent' = [c \in Channels |-> Away]
  /\ place' = [u \in Users |-> Away]
  /\ loggedin' = FALSE /\ at' = "offline"
  /\ UNCHANGED <<event, eventq, guiVars, adds, steps, past>>
-----------------------------------------------------------------------------
(* The GUI: getNetworkEvent and the channel tree.                          *)

\* The row of the lobby is made when the GUI connects.  DISCONNECT takes it with
\* the others; no event follows, so lobby keeps its value.
HasRow(c) == (c = Lobby /\ lobby) \/ \E r \in rows : r.id = c

\* Erasing a row erases the rows that hang under it, at any depth: those in every
\* set that holds the row and what hangs under its members.
HoldsBelow(S, c) ==
  \A r \in rows : r.id = c \/ r.under = c \/ (\E q \in S : r.under = q.id) => r \in S
Erased(c) == {r \in rows : \E S \in SUBSET rows : HoldsBelow(S, c) /\ r \notin S}

WithoutUser(u) == {r \in rows : r.id # u}

\* addUser: without a row of the channel there is no row for the user.
UserAdded(rest, u, c) ==
  IF (c = Lobby /\ lobby) \/ \E r \in rest : r.id = c THEN rest \cup {[id |-> u, under |-> c]} ELSE rest

\* Mutant: the old row stays.
UserMovedCopy(u, c) == UserAdded(rows, u, c)

\* USER_CHAN_MOVE: removeUser and addUser, under the channel of the event.
UserMoved(u, c) == UserAdded(WithoutUser(u), u, c)

\* addChannel: without a row of the parent it goes to the top, beside the lobby.
ChannelAdded(c) ==
  rows \cup {[id |-> c, under |-> IF HasRow(parent[c]) THEN parent[c] ELSE Away]}

\* What the rows are after event e.
Shown(e) ==
  CASE e.type = "USER_LOGIN"     /\ place[e.id] # Away         -> UserAdded(rows, e.id, e.channel)
    [] e.type = "USER_LOGOUT"    /\ loggedin                   -> WithoutUser(e.id)
    [] e.type = "USER_CHAN_MOVE" /\ place[e.id] # Away         -> UserMoved(e.id, e.channel)
    [] e.type = "CHAN_ADD"       /\ e.id \in Listed            -> ChannelAdded(e.id)
    [] e.type = "CHAN_REMOVE"    /\ loggedin /\ HasRow(e.id)   -> Erased(e.id)
    [] e.type = "DISCONNECT"                                   -> {}
    [] OTHER                                                   -> rows

\* updateChannel writes to the row of the channel; an empty row if it has none.
Missed(e) == IF e.type = "CHAN_MODIFY" /\ loggedin /\ e.id \in Listed /\ ~HasRow(e.id)
             THEN {e.id} ELSE {}

\* removeChannel(0).
LosesLobby(e) == e.type = "CHAN_REMOVE" /\ loggedin /\ e.id = Lobby

GuiEvent ==
  /\ eventq # <<>>
  /\ eventq' = Tail(eventq)
  /\ rows' = Shown(Head(eventq))
  /\ lobby' = (lobby /\ ~LosesLobby(Head(eventq)))
  /\ unfound' = unfound \cup Missed(Head(eventq))
  /\ UNCHANGED <<listVars, netVars, adds, steps, past>>
-----------------------------------------------------------------------------
Network == \/ Tell \/ AddChannel \/ ModifyChannel \/ RemoveChannel \/ MoveChannel
           \/ UserLogin \/ UserLogout \/ MoveUser \/ LoginComplete \/ Disconnect \/ DestroyLists

Next == Network \/ GuiEvent
Spec == Init /\ [][Next]_vars
-----------------------------------------------------------------------------
(* Properties.                                                             *)

\* The channels other than id, in their order.
Others(s, id) == RemoveAt(s, Position(s, id))

\* A CHAN_MOVE event follows a move that lost no channel and repeated none,
\* left the others in their order, and put this one right before its target.
MovedBefore ==
  [][\A c, t \in Channels :
       eventq' = Append(eventq, Event("CHAN_MOVE", c, t)) /\ c # t
         => /\ Others(chans', c) = Others(chans, c)
            /\ Len(chans') = Len(chans)
            /\ Position(chans', c) + 1 = Position(chans', t)]_<<eventq, chans>>

\* The lists are a tree: nobody is in a channel that is gone.
Rooted ==
  /\ \A c \in Listed : InTree(c)
  /\ \A u \in Users : place[u] # Away => InTree(place[u])

\* The rows the lists call for.
Due == {[id |-> c, under |-> parent[c]] : c \in Listed}
         \cup {[id |-> u, under |-> place[u]] : u \in {v \in Users : place[v] # Away}}

\* When the GUI has taken every event and the lists are a tree again, its rows
\* are that tree: whether the users and channels below a removed channel were
\* moved or removed before it or after, and although each event is acted upon
\* with what the lists say later.  The exception: once the last channel of
\* the list was removed, which the GUI takes for the lobby (LosesLobby), that row is
\* gone with all below it until the session ends.
TreeMatches ==
  eventq = <<>> /\ at \in {"idle", "offline"} /\ Rooted /\ (lobby \/ at = "offline") => rows = Due

\* updateChannel, which does not return when it finds no row, is called for a
\* channel that has one, unless the server has used an id again.
RowIsFound == unfound \subseteq past

\* v3_get_channel_path and v3_get_channel_id, by which the GUI stores a default
\* channel and finds it at the next login: in a tree whose siblings have
\* different names, the path of a channel names that channel.
PathNamesChannel ==
  Rooted => \A name \in [Listed -> Pieces] :
    (\A c, d \in Listed : c # d /\ parent[c] = parent[d] => name[c] # name[d])
      => \A c \in Listed : ChannelId(name, Path(name, c)) = c
=============================================================================
