----------------------------- MODULE V3Session -----------------------------
(***************************************************************************)
(* One Ventrilo client library (libventrilo3.c) driven by two kinds of     *)
(* threads:                                                                *)
(*                                                                         *)
(*  - network threads.  ManglerNetwork::connect runs v3_login and then     *)
(*    loops over _v3_recv / _v3_process_message.  Every login starts a     *)
(*    thread of its own, so thread and session are the same number here.   *)
(*  - API threads (the GUI, the audio capture thread), which never touch   *)
(*    the socket: each API call checks v3_is_loggedin(), reads the fd of   *)
(*    the event pipe and writes one v3_event to it under the sendq lock.   *)
(*                                                                         *)
(* The library talks back through the event queue (see V3EventQueue).      *)
(* All of this state is process-global in the code and is kept global      *)
(* here: a thread acts on the socket and the pipe the globals name, which  *)
(* are not always those it created.                                        *)
(***************************************************************************)
EXTENDS Naturals, Sequences, FiniteSets

CONSTANTS
  Clients,      (* the threads that call the API                           *)
  MaxSessions,  (* bound: calls of v3_login                                *)
  MaxCmds,      (* bound: API calls that write to the pipe                 *)
  MaxEvents,    (* bound: queue length at which the server still sends     *)
                (* error messages                                          *)
  PipeCap,      (* v3_events the non-blocking pipe can hold                *)
  Eager         (* TRUE: the application may log in again as soon as it    *)
                (* has read DISCONNECT, even while the old network thread  *)
                (* is still inside _v3_logout, and after a session that    *)
                (* select() cut off                                        *)

ASSUME SessionAssumption ==
  /\ MaxSessions \in Nat
  /\ MaxCmds \in Nat
  /\ MaxEvents \in Nat
  /\ PipeCap \in Nat \ {0}
  /\ Eager \in BOOLEAN

Sessions == 1..MaxSessions

Ops == {"cmd", "logout"}

\* Program counter of a network thread.  "Cut": it has ended because select()
\* failed, in the loop of an established session.
PCs == {"None", "Pipe", "Connect", "Select", "Drain", "Read",
        "LogoutQueue", "LogoutClose", "LogoutFree", "Failed", "Done", "Cut"}

\* How far v3_login has come: waiting for the answer to 0x00, processing
\* messages until 0x34, or returned TRUE (the receive loop of the caller).
Phases == {"hello", "login", "main"}

\* Where _v3_logout was called from: the pipe, a failed receive, a 0x59 or
\* a 0x06 packet.
Callers == {"pipe", "recv", "kick", "bye"}

VARIABLES
  pc, phase, both, caller,  (* per network thread                          *)
  sockd,                    (* session whose connection is open, 0 for -1  *)
  loggedin,                 (* _v3_user_loggedin                           *)
  evpipe, pipe,             (* session whose pipe is open (0: -1), content *)
  sendq,                    (* network thread that holds sendq, 0 for none *)
  call,                     (* per client: the API call in progress        *)
  written, sent,            (* events written so far; those sent, in order *)
  eventq,                   (* the inbound event queue                     *)
  notified,                 (* DISCONNECT events queued by each thread     *)
  session, online           (* logins so far; the application's view       *)

netVars  == <<pc, phase, both, caller>>
connVars == <<sockd, loggedin>>
pipeVars == <<evpipe, pipe, sendq>>
apiVars  == <<call, written>>
appVars  == <<session, online>>
vars == <<netVars, connVars, pipeVars, apiVars, sent, eventq, notified, appVars>>

NoCall == [at |-> "idle"]
Calls  == {NoCall} \cup [at : {"checked"}, op : Ops]
                   \cup [at : {"write"}, op : Ops, fd : Sessions]
PipeEvents == [id : Nat, op : Ops]
Packets    == [id : Nat, on : Sessions]
AppEvents  == [type : {"LOGIN_COMPLETE", "ERROR_MSG", "DISCONNECT"}, by : Sessions]

TypeOK ==
  /\ pc \in [Sessions -> PCs]
  /\ phase \in [Sessions -> Phases]
  /\ both \in [Sessions -> BOOLEAN]
  /\ caller \in [Sessions -> Callers]
  /\ sockd \in 0..MaxSessions /\ evpipe \in 0..MaxSessions
  /\ sendq \in 0..MaxSessions /\ session \in 0..MaxSessions
  /\ loggedin \in BOOLEAN /\ online \in BOOLEAN
  /\ pipe \in Seq(PipeEvents) /\ Len(pipe) <= PipeCap
  /\ call \in [Clients -> Calls]
  /\ written \in Nat
  /\ sent \in Seq(Packets)
  /\ eventq \in Seq(AppEvents)
  /\ notified \in [Sessions -> Nat]

Init ==
  /\ pc = [s \in Sessions |-> "None"]
  /\ phase = [s \in Sessions |-> "hello"]
  /\ both = [s \in Sessions |-> FALSE]
  /\ caller = [s \in Sessions |-> "recv"]
  /\ sockd = 0 /\ loggedin = FALSE
  /\ evpipe = 0 /\ pipe = <<>> /\ sendq = 0
  /\ call = [c \in Clients |-> NoCall] /\ written = 0
  /\ sent = <<>> /\ eventq = <<>>
  /\ notified = [s \in Sessions |-> 0]
  /\ session = 0 /\ online = FALSE

Goto(s, to) == pc' = [pc EXCEPT ![s] = to]

Queue(s, type) == eventq' = Append(eventq, [type |-> type, by |-> s])
-----------------------------------------------------------------------------
(* The application: logging in and polling for events.                     *)

Running(s) == pc[s] \notin {"None", "Done", "Cut"}

\* onConnectHandler: a new thread runs ManglerNetwork::connect.
Connect ==
  /\ ~online /\ session < MaxSessions
  /\ Eager \/ \A s \in Sessions : ~Running(s) /\ pc[s] # "Cut"
  /\ session' = session + 1 /\ online' = TRUE
  /\ Goto(session + 1, "Pipe")
  /\ UNCHANGED <<phase, both, caller, connVars, pipeVars, apiVars, sent, eventq, notified>>

\* getNetworkEvent: one event off the queue.  DISCONNECT puts the
\* application back into the state in which it can connect.
GetEvent ==
  /\ eventq # <<>>
  /\ eventq' = Tail(eventq)
  /\ online' = IF Head(eventq).type = "DISCONNECT" THEN FALSE ELSE online
  /\ UNCHANGED <<netVars, connVars, pipeVars, apiVars, sent, notified, session>>
-----------------------------------------------------------------------------
(* An API call (v3_logout, v3_start_audio, ...) of client c.               *)

Pending == Cardinality({c \in Clients : call[c] # NoCall})

\* if (!v3_is_loggedin()) return;
ApiCheck(c, op) ==
  /\ call[c] = NoCall /\ loggedin /\ written + Pending < MaxCmds
  /\ call' = [call EXCEPT ![c] = [at |-> "checked", op |-> op]]
  /\ UNCHANGED <<netVars, connVars, pipeVars, written, sent, eventq, notified, appVars>>

\* The event is built, then v3_server.evpipe[1] is read as an argument.
ApiReadFd(c) ==
  /\ call[c].at = "checked"
  /\ call' = [call EXCEPT ![c] = IF evpipe = 0 THEN NoCall
                                 ELSE [at |-> "write", op |-> call[c].op, fd |-> evpipe]]
  /\ UNCHANGED <<netVars, connVars, pipeVars, written, sent, eventq, notified, appVars>>

\* The pipe the write may reach: the one the fd was read from or, once that
\* one is closed, whichever pipe has been given the same descriptor since.
Reaches(fd) == IF fd = evpipe THEN {TRUE} ELSE IF evpipe = 0 THEN {FALSE} ELSE BOOLEAN

\* A full pipe refuses the write; _v3_evpipe_write logs it and returns V3_OK.
Accepts == Len(pipe) < PipeCap

EvpipeWrite(c) ==
  /\ call[c].at = "write" /\ sendq = 0
  /\ written' = written + 1
  /\ \E open \in Reaches(call[c].fd) :
       pipe' = IF open /\ Accepts
               THEN Append(pipe, [id |-> written + 1, op |-> call[c].op]) ELSE pipe
  /\ call' = [call EXCEPT ![c] = NoCall]
  /\ UNCHANGED <<netVars, connVars, evpipe, sendq, sent, eventq, notified, appVars>>
-----------------------------------------------------------------------------
(* v3_login, on the network thread.                                        *)

\* From the top of v3_login to the pipe.  A bad server name, a failed DNS
\* lookup or a failed pipe() returns before there is one.  The pipe of a
\* login that failed earlier is not closed, only forgotten.
LoginPipe(s) ==
  /\ pc[s] = "Pipe"
  /\ \/ Goto(s, "Failed") /\ UNCHANGED <<evpipe, pipe>>
     \/ Goto(s, "Connect") /\ evpipe' = s /\ pipe' = <<>>
  /\ UNCHANGED <<phase, both, caller, connVars, sendq, apiVars, sent, eventq, notified, appVars>>

\* _v3_server_auth (may time out), _v3_login_connect (sets _v3_sockd even
\* when connect() fails) and the 0x00 message.
LoginConnect(s) ==
  /\ pc[s] = "Connect"
  /\ \/ Goto(s, "Failed") /\ sockd' \in {sockd, s}
     \/ Goto(s, "Select") /\ sockd' = s
  /\ UNCHANGED <<phase, both, caller, loggedin, pipeVars, apiVars, sent, eventq, notified, appVars>>

\* v3_login returned FALSE: ManglerNetwork::connect puts the GUI back into
\* its disconnected state and the thread ends.  Nothing is closed.
LoginFailed(s) ==
  /\ pc[s] = "Failed" /\ Goto(s, "Done")
  /\ online' = FALSE
  /\ UNCHANGED <<phase, both, caller, connVars, pipeVars, apiVars, sent, eventq, notified, session>>
-----------------------------------------------------------------------------
(* _v3_recv and v3_message_waiting, on the network thread.                 *)

\* Where the thread goes when _v3_recv returns NULL, and at the loop test
\* after a message: v3_login loops until 0x34, its caller while logged in.
AfterNull(s)  == IF phase[s] = "main" THEN "Done" ELSE "Failed"
LoopTest(s, l) == IF phase[s] = "main" /\ ~l THEN "Done" ELSE "Select"

RecvClosed(s) ==
  /\ pc[s] = "Select" /\ sockd = 0
  /\ Goto(s, AfterNull(s))
  /\ UNCHANGED <<phase, both, caller, connVars, pipeVars, apiVars, sent, eventq, notified, appVars>>

PipeReadable == evpipe # 0 /\ pipe # <<>>

\* select() reports the pipe, with (V3_BOTH_WAITING) or without the socket.
SelectEvent(s) ==
  /\ pc[s] = "Select" /\ sockd # 0 /\ PipeReadable /\ sendq = 0
  /\ sendq' = s
  /\ \E msg \in BOOLEAN : both' = [both EXCEPT ![s] = msg]
  /\ Goto(s, "Drain")
  /\ UNCHANGED <<phase, caller, connVars, evpipe, pipe, apiVars, sent, eventq, notified, appVars>>

\* Mutant: select() is asked about the socket first.
SelectMsgFirst(s) ==
  /\ pc[s] = "Select" /\ sockd # 0
  /\ Goto(s, "Read")
  /\ UNCHANGED <<phase, both, caller, connVars, pipeVars, apiVars, sent, eventq, notified, appVars>>

\* select() reports only the socket.
SelectMsg(s) ==
  /\ pc[s] = "Select" /\ sockd # 0 /\ ~PipeReadable
  /\ Goto(s, "Read")
  /\ UNCHANGED <<phase, both, caller, connVars, pipeVars, apiVars, sent, eventq, notified, appVars>>

\* select() fails, as it does when a signal handler has run (the jukebox takes
\* SIGINT and calls v3_logout from the handler): _v3_recv returns NULL, and
\* nobody has called _v3_logout.
SelectFails(s) ==
  /\ pc[s] = "Select" /\ sockd # 0
  /\ Goto(s, IF phase[s] = "main" THEN "Cut" ELSE "Failed")
  /\ UNCHANGED <<phase, both, caller, connVars, pipeVars, apiVars, sent, eventq, notified, appVars>>

CallLogout(s, from) == Goto(s, "LogoutQueue") /\ caller' = [caller EXCEPT ![s] = from]

\* What one event read off the pipe puts on the wire: send() on a closed
\* socket fails, and _v3_send ignores it.
Transmit(e) == IF sockd = 0 THEN sent ELSE Append(sent, [id |-> e.id, on |-> sockd])

\* Mutants: the event stays in the pipe; the case of the logout is missing.
DrainPeeks(s) ==
  /\ pc[s] = "Drain" /\ PipeReadable
  /\ \/ Head(pipe).op = "logout" /\ CallLogout(s, "pipe") /\ UNCHANGED sent
     \/ Head(pipe).op = "cmd" /\ sent' = Transmit(Head(pipe)) /\ UNCHANGED <<pc, caller>>
  /\ UNCHANGED <<phase, both, connVars, pipeVars, apiVars, eventq, notified, appVars>>

DrainSkipsLogout(s) ==
  /\ pc[s] = "Drain" /\ PipeReadable
  /\ pipe' = Tail(pipe)
  /\ sent' = IF Head(pipe).op = "cmd" THEN Transmit(Head(pipe)) ELSE sent
  /\ UNCHANGED <<netVars, connVars, evpipe, sendq, apiVars, eventq, notified, appVars>>

DrainOne(s) ==
  /\ pc[s] = "Drain" /\ PipeReadable
  /\ pipe' = Tail(pipe)
  /\ \/ /\ Head(pipe).op = "logout"
        /\ CallLogout(s, "pipe")
        /\ UNCHANGED sent
     \/ /\ Head(pipe).op = "cmd"
        /\ sent' = Transmit(Head(pipe))
        /\ UNCHANGED <<pc, caller>>
  /\ UNCHANGED <<phase, both, connVars, evpipe, sendq, apiVars, eventq, notified, appVars>>

\* Mutant: no unlock.
DrainEndLocked(s) ==
  /\ pc[s] = "Drain" /\ ~PipeReadable
  /\ Goto(s, IF both[s] THEN "Read" ELSE "Select")
  /\ both' = [both EXCEPT ![s] = FALSE]
  /\ UNCHANGED <<phase, caller, connVars, pipeVars, apiVars, sent, eventq, notified, appVars>>

\* read() has nothing more: unlock, and go on to the message if there is one.
\* (both is put back, as caller is below, so that a value nobody reads any
\* more does not tell states apart.)
DrainEnd(s) ==
  /\ pc[s] = "Drain" /\ ~PipeReadable
  /\ sendq' = 0
  /\ Goto(s, IF both[s] THEN "Read" ELSE "Select")
  /\ both' = [both EXCEPT ![s] = FALSE]
  /\ UNCHANGED <<phase, caller, connVars, evpipe, pipe, apiVars, sent, eventq, notified, appVars>>

\* Mutant: _v3_recv returns NULL without calling _v3_logout.
ReadFailsQuietly(s) ==
  /\ pc[s] = "Read"
  /\ \/ UNCHANGED connVars
     \/ sockd' = 0 /\ loggedin' = FALSE
  /\ Goto(s, AfterNull(s))
  /\ UNCHANGED <<phase, both, caller, pipeVars, apiVars, sent, eventq, notified, appVars>>

\* _v3_recv_enc_msg finds no connection (0), meets the end of the stream
\* and closes the connection itself (0), or breaks off inside a message (-1).
ReadFails(s) ==
  /\ pc[s] = "Read"
  /\ \/ UNCHANGED connVars
     \/ sockd' = 0 /\ loggedin' = FALSE
  /\ CallLogout(s, "recv")
  /\ UNCHANGED <<phase, both, pipeVars, apiVars, sent, eventq, notified, appVars>>
-----------------------------------------------------------------------------
(* _v3_process_message: the packets that decide the life of the session.   *)

\* Any packet without a bearing on it.  After the first one, v3_login sends 0x48.
ReadOther(s) ==
  /\ pc[s] = "Read" /\ sockd # 0
  /\ phase' = [phase EXCEPT ![s] = IF @ = "hello" THEN "login" ELSE @]
  /\ Goto(s, LoopTest(s, loggedin))
  /\ UNCHANGED <<both, caller, connVars, pipeVars, apiVars, sent, eventq, notified, appVars>>

\* 0x34 ends the login: v3_login queues LOGIN_COMPLETE and returns TRUE.
ReadReady(s) ==
  /\ pc[s] = "Read" /\ sockd # 0 /\ phase[s] = "login"
  /\ loggedin' = TRUE
  /\ phase' = [phase EXCEPT ![s] = "main"]
  /\ Queue(s, "LOGIN_COMPLETE")
  /\ Goto(s, "Select")
  /\ UNCHANGED <<both, caller, sockd, pipeVars, apiVars, sent, notified, appVars>>

\* 0x06 with an error (V3_FAILURE) or 0x59, both without a disconnect.
\* The receive loop ignores V3_FAILURE; v3_login ignores the result of the
\* first message and gives up at a 0x59 there.
ReadError(s, type) ==
  /\ pc[s] = "Read" /\ sockd # 0 /\ Len(eventq) < MaxEvents
  /\ IF loggedin THEN Queue(s, "ERROR_MSG") ELSE UNCHANGED eventq
  /\ phase' = [phase EXCEPT ![s] = IF @ = "hello" /\ type = "0x06" THEN "login" ELSE @]
  /\ Goto(s, IF <<phase[s], type>> \in {<<"hello", "0x59">>, <<"login", "0x06">>}
             THEN "Failed" ELSE LoopTest(s, loggedin))
  /\ UNCHANGED <<both, caller, connVars, pipeVars, apiVars, sent, notified, appVars>>

\* 0x59 with close_connection: the error is queued first, then _v3_logout.
ReadKick(s) ==
  /\ pc[s] = "Read" /\ sockd # 0
  /\ IF loggedin THEN Queue(s, "ERROR_MSG") ELSE UNCHANGED eventq
  /\ CallLogout(s, "kick")
  /\ UNCHANGED <<phase, both, connVars, pipeVars, apiVars, sent, notified, appVars>>

\* 0x06 with bit 0: _v3_logout first.
ReadBye(s) ==
  /\ pc[s] = "Read" /\ sockd # 0
  /\ CallLogout(s, "bye")
  /\ UNCHANGED <<phase, both, connVars, pipeVars, apiVars, sent, eventq, notified, appVars>>
-----------------------------------------------------------------------------
(* _v3_logout, in the order of its statements.                             *)

\* Mutant: a logout from the pipe only queues the event and drains on.
LogoutQueueOnly(s) ==
  /\ pc[s] = "LogoutQueue" /\ Goto(s, IF caller[s] = "pipe" THEN "Drain" ELSE "LogoutClose")
  /\ Queue(s, "DISCONNECT")
  /\ notified' = [notified EXCEPT ![s] = @ + 1]
  /\ UNCHANGED <<phase, both, caller, connVars, pipeVars, apiVars, sent, appVars>>

LogoutQueue(s) ==
  /\ pc[s] = "LogoutQueue" /\ Goto(s, "LogoutClose")
  /\ Queue(s, "DISCONNECT")
  /\ notified' = [notified EXCEPT ![s] = @ + 1]
  /\ UNCHANGED <<phase, both, caller, connVars, pipeVars, apiVars, sent, appVars>>

\* _v3_close_connection.
LogoutClose(s) ==
  /\ pc[s] = "LogoutClose" /\ Goto(s, "LogoutFree")
  /\ sockd' = 0 /\ loggedin' = FALSE
  /\ UNCHANGED <<phase, both, caller, pipeVars, apiVars, sent, eventq, notified, appVars>>

\* Where the caller of _v3_logout goes on.  A 0x06 disconnect makes
\* _v3_process_message return V3_FAILURE after an ERROR_MSG it queues only
\* while logged in; after a 0x59 v3_login reads on, except in its hello.
AfterLogout(s) ==
  CASE caller[s] = "pipe" -> "Drain"
    [] caller[s] = "recv" -> AfterNull(s)
    [] caller[s] = "kick" -> IF phase[s] = "hello" THEN "Failed" ELSE LoopTest(s, loggedin)
    [] caller[s] = "bye"  -> IF phase[s] = "login" THEN "Failed" ELSE LoopTest(s, loggedin)

\* Mutant: the pipe is left open.
LogoutKeepsPipe(s) ==
  /\ pc[s] = "LogoutFree" /\ Goto(s, AfterLogout(s))
  /\ phase' = [phase EXCEPT ![s] = IF @ = "hello" /\ caller[s] = "bye" THEN "login" ELSE @]
  /\ IF caller[s] = "bye" /\ loggedin THEN Queue(s, "ERROR_MSG") ELSE UNCHANGED eventq
  /\ caller' = [caller EXCEPT ![s] = "recv"]
  /\ UNCHANGED <<both, connVars, pipeVars, apiVars, sent, notified, appVars>>

\* The lists and strings are freed (see V3UserList), the pipe is closed.
LogoutFree(s) ==
  /\ pc[s] = "LogoutFree" /\ Goto(s, AfterLogout(s))
  /\ evpipe' = 0 /\ pipe' = <<>>
  /\ phase' = [phase EXCEPT ![s] = IF @ = "hello" /\ caller[s] = "bye" THEN "login" ELSE @]
  /\ IF caller[s] = "bye" /\ loggedin THEN Queue(s, "ERROR_MSG") ELSE UNCHANGED eventq
  /\ caller' = [caller EXCEPT ![s] = "recv"]
  /\ UNCHANGED <<both, connVars, sendq, apiVars, sent, notified, appVars>>
-----------------------------------------------------------------------------
LoginStep(s)  == LoginPipe(s) \/ LoginConnect(s) \/ LoginFailed(s)
RecvStep(s)   == RecvClosed(s) \/ SelectEvent(s) \/ DrainOne(s) \/ DrainEnd(s)
PacketStep(s) == \/ ReadFails(s) \/ ReadOther(s) \/ ReadReady(s)
                 \/ (\E type \in {"0x06", "0x59"} : ReadError(s, type))
                 \/ ReadKick(s) \/ ReadBye(s)
LogoutStep(s) == LogoutQueue(s) \/ LogoutClose(s) \/ LogoutFree(s)
Network(s)    == LoginStep(s) \/ RecvStep(s) \/ PacketStep(s) \/ LogoutStep(s)
Api(c)        == (\E op \in Ops : ApiCheck(c, op)) \/ ApiReadFd(c) \/ EvpipeWrite(c)

Next ==
  \/ Connect \/ GetEvent
  \/ \E s \in Sessions : Network(s) \/ SelectMsg(s) \/ SelectFails(s)
  \/ \E c \in Clients : Api(c)

Spec == Init /\ [][Next]_vars

\* A thread that can run does run, and the application polls every 10 ms.
\* An API call that has begun completes: the network thread lets go of sendq
\* before each select(), so a waiting thread gets it (SF).  Nothing obliges
\* the server to send (SelectMsg), select() to fail (SelectFails), the user to connect
\* or to call the API.
FairSpec ==
  /\ Spec
  /\ WF_vars(GetEvent)
  /\ \A s \in Sessions : WF_vars(Network(s))
  /\ \A c \in Clients : WF_vars(ApiReadFd(c)) /\ SF_vars(EvpipeWrite(c))
-----------------------------------------------------------------------------
(* Properties.                                                             *)

Ids(q) == {q[i].id : i \in DOMAIN q}

\* Events reach the server in the order in which the API threads wrote them
\* to the pipe, none twice, whatever was dropped at a full pipe or lost with
\* a connection, and whichever network thread reads the pipe.
SentInOrder ==
  \A i, j \in DOMAIN sent : i < j => sent[i].id < sent[j].id

\* The pipe never holds an event that was sent already.
PipeIsAhead ==
  \A i \in DOMAIN sent : \A j \in DOMAIN pipe : sent[i].id < pipe[j].id

\* The outbound path implements CommandChannel.
Channel == INSTANCE CommandChannel
             WITH issued <- written, delivered <- [i \in DOMAIN sent |-> sent[i].id]
ImplementsChannel == Channel!Spec

\* Once v3_login has returned TRUE the thread of the session cannot end
\* without having queued a DISCONNECT, so that the application learns of it:
\* whatever the server sends, wherever the connection breaks, whoever logs
\* out.  The one exception is a select() that fails ("Cut"), after which the
\* jukebox ends its process.
EndIsNotified ==
  \A s \in Sessions : pc[s] = "Done" /\ phase[s] = "main" => notified[s] > 0

\* While a session is up its thread works on the connection and the pipe it
\* created, and the API is open exactly then.
OwnConnection ==
  \A s \in Sessions :
    phase[s] = "main" /\ pc[s] = "Select" /\ sockd # 0 => sockd = s /\ evpipe = s /\ loggedin

\* From the lock before the first read of the pipe to the unlock after the
\* last, the _v3_logout called in between included.
Draining(s) ==
  \/ pc[s] = "Drain"
  \/ caller[s] = "pipe" /\ pc[s] \in {"LogoutQueue", "LogoutClose", "LogoutFree"}

\* The network thread that drains a pipe, and no other, holds sendq: two
\* never drain at once, and none ends, fails or blocks in select() or recv()
\* with the lock an API thread is waiting for.
SendqReleased == \A s \in Sessions : sendq = s <=> Draining(s)

\* When the thread of an established session is gone nothing of the session is
\* left, no socket, no pipe an API thread could still fill, no login flag; or,
\* if select() cut it off, all of it is: the API still takes calls, which
\* nobody reads.  In neither case does it keep the lock that they need.
AllOrNothing ==
  (\A s \in Sessions : ~Running(s)) /\ session # 0 /\ phase[session] = "main"
    => /\ IF pc[session] = "Cut"
          THEN sockd = session /\ evpipe = session /\ loggedin
          ELSE sockd = 0 /\ evpipe = 0 /\ pipe = <<>> /\ ~loggedin
       /\ sendq = 0

\* Nothing is sent on the connection of a session after the application was
\* told that it is over.
QuietAfterNotice ==
  [][\A i \in DOMAIN sent' : i > Len(sent) => notified[sent'[i].on] = 0]_<<sent, notified>>

\* Every event the pipe accepted is sent, or the connection or the login it
\* met ends (the thread, if select() fails): the pipe is served even if the
\* server never stops sending, and whatever else is refused at a full pipe.
AcceptedIsServed ==
  \A i \in 1..MaxCmds :
    i \in Ids(pipe) ~> (i \in Ids(sent) \/ sockd = 0 \/ ~Running(session))

\* A logout that the pipe accepted takes the application back to where it
\* can connect again, unless select() fails before the thread has read it,
\* as the signal that made the jukebox call v3_logout makes it fail.
LogoutIsServed ==
  (\E i \in DOMAIN pipe : pipe[i].op = "logout")
    ~> (~online \/ pc[session] = "Cut")

\* libventrilo3.c:7128: "_v3_logout() responds by queueing a V3_EVENT_DISCONNECT
\* event", one for the session.  (A second _v3_logout also frees the strings of v3_luser twice.)
NotifiedOnce == \A s \in Sessions : notified[s] <= 1
=============================================================================
