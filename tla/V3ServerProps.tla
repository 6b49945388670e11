---------------------------- MODULE V3ServerProps ----------------------------
(***************************************************************************)
(* The server properties: the tab of the admin window (mangleradmin.cpp),  *)
(* the three calls it makes, and the transactions of 0x4c messages in      *)
(* libventrilo3.c that read or write one property after another.           *)
(*                                                                         *)
(* The GUI writes OPEN, CLOSE and UPDATE to the event pipe.  The network   *)
(* thread gives each transaction a random id, _v3_server_prop_tid, and     *)
(* goes on from one answer of the server to the next until the last        *)
(* property; it drops the answers of any other transaction.  A value is    *)
(* abstracted to the number of the OPEN that read it or of the UPDATE that *)
(* entered it, which is also the id of the transaction: rand() is assumed  *)
(* not to repeat an id that is still in use.                               *)
(***************************************************************************)
EXTENDS Integers, Sequences

CONSTANTS
  Finish,       (* V3_SRV_PROP_FINISH; properties are numbered from 2       *)
  Skipped,      (* the numbers in between that name no property             *)
  MaxAsked,     (* bound: OPEN and UPDATE requests the user causes          *)
  MaxSessions   (* bound: logins                                            *)

\* A number that names no property stands alone: 4, 6 and 0x17 of 2..0x1B.
ASSUME ServerPropsAssumption ==
  /\ Finish \in Nat /\ Finish > 2 /\ Skipped \subseteq 3..(Finish - 2)
  /\ \A p \in Skipped : p + 1 \notin Skipped
  /\ MaxAsked \in Nat /\ MaxSessions \in Nat

CHAT_FILTER == 2
Settings == (CHAT_FILTER..(Finish - 1)) \ Skipped

VARIABLES
  isOpen, SrvEditorOpen, SrvIsNotUpdating, isAdmin,  (* of the GUI          *)
  tab,        (* ServerTab is shown                                         *)
  sensitive,  (* ServerVBox takes input                                     *)
  shown,      (* where the values in the form come from                     *)
  loggedin, pipe, events,
  wire,       (* 0x4c requests and the answers to them, which echo them     *)
  tid,        (* _v3_server_prop_tid                                        *)
  prop,       (* _v3_server_prop                                            *)
  asked, sessions,  (* count for the bounds; asked numbers the requests     *)
  sending,    (* history: an UPDATE is being sent                           *)
  cut,        (* history: another request took its place                    *)
  late,       (* history: the GUI was given settings while it updated       *)
  dropped,    (* history: the pipe was full for the last OPEN or UPDATE     *)
  sent, done  (* history: <<tid, property, value>>; transactions completed  *)

flagVars == <<isOpen, SrvEditorOpen, SrvIsNotUpdating, isAdmin>>
formVars == <<tab, sensitive, shown>>
guiVars  == <<flagVars, formVars, asked, late, dropped>>
netVars  == <<wire, tid, prop, sending, cut, sent, done>>
SPvars     == <<guiVars, netVars, loggedin, pipe, events, sessions>>

Requests == [type : {"open", "update", "close"}, n : Nat]
Messages == [sub : {"recv", "send"}, property : 0..Finish, tid : Nat]
Events   == [type : {"received", "sent", "auth", "disconnect"}, of : Nat,
             prop : [Settings -> Nat]]

SPTypeOK ==
  /\ {isOpen, SrvEditorOpen, SrvIsNotUpdating, isAdmin, tab, sensitive, loggedin,
      sending, cut, late, dropped} \subseteq BOOLEAN
  /\ pipe \in Seq(Requests) /\ wire \in Seq(Messages) /\ events \in Seq(Events)
  /\ {tid, shown, asked} \subseteq Nat /\ sessions \in 0..MaxSessions
  /\ prop \in [Settings -> Nat]
  /\ sent \subseteq Nat \X Settings \X Nat /\ done \subseteq Nat

SPInit ==
  /\ isOpen = FALSE /\ SrvEditorOpen = FALSE /\ SrvIsNotUpdating = TRUE /\ isAdmin = FALSE
  /\ tab = FALSE /\ sensitive = TRUE /\ shown = 0
  /\ loggedin = FALSE /\ pipe = <<>> /\ events = <<>> /\ wire = <<>>
  /\ tid = 0 /\ prop = [p \in Settings |-> 0]
  /\ asked = 0 /\ sessions = 0
  /\ sending = FALSE /\ cut = FALSE /\ late = FALSE /\ dropped = FALSE /\ sent = {} /\ done = {}
-----------------------------------------------------------------------------
(* The GUI.                                                                *)

\* v3_serverprop_open, _close and _update: nothing when not logged in; and a full
\* pipe loses the request, which they do not say.
Written(p, request) == IF loggedin THEN {p, Append(p, request)} ELSE {p}

Open(n)   == [type |-> "open", n |-> n]
Update(n) == [type |-> "update", n |-> n]
Close     == [type |-> "close", n |-> 0]

\* An OPEN or UPDATE behind what pipe p holds.
Ask(p, request) ==
  /\ asked' = asked + 1
  /\ pipe' \in Written(p, request)
  /\ dropped' = (loggedin /\ pipe' = p)

\* adminWindow_show_cb
Show(admin) ==
  /\ isOpen' = TRUE
  /\ IF admin /\ SrvIsNotUpdating
     THEN SrvEditorOpen' = TRUE /\ Ask(pipe, Open(asked + 1))
     ELSE UNCHANGED <<SrvEditorOpen, asked, pipe, dropped>>

\* The menu item, until DISCONNECT is taken.
ShowWindow ==
  /\ ~isOpen /\ asked < MaxAsked
  /\ loggedin \/ \E i \in DOMAIN events : events[i].type = "disconnect"
  /\ Show(isAdmin)
  /\ UNCHANGED <<SrvIsNotUpdating, isAdmin, formVars, late, netVars, loggedin, events, sessions>>

\* Mutant: the window closes the transaction of an update, too.
HideAnyhow ==
  /\ isOpen' = FALSE /\ tab' = FALSE
  /\ IF SrvEditorOpen THEN pipe' \in Written(pipe, Close) ELSE UNCHANGED pipe
  /\ SrvEditorOpen' = FALSE

\* adminWindow_hide_cb
Hide ==
  /\ isOpen' = FALSE /\ tab' = FALSE
  /\ IF SrvEditorOpen /\ SrvIsNotUpdating
     THEN SrvEditorOpen' = FALSE /\ pipe' \in Written(pipe, Close)
     ELSE UNCHANGED <<SrvEditorOpen, pipe>>

HideWindow ==
  /\ isOpen /\ Hide
  /\ UNCHANGED <<SrvIsNotUpdating, isAdmin, sensitive, shown, asked, late, dropped, netVars,
                 loggedin, events, sessions>>

\* ServerUpdate_clicked_cb
ServerUpdate ==
  /\ isOpen /\ tab /\ sensitive /\ asked < MaxAsked
  /\ sensitive' = FALSE /\ SrvIsNotUpdating' = FALSE
  /\ Ask(pipe, Update(asked + 1))
  /\ UNCHANGED <<isOpen, SrvEditorOpen, isAdmin, tab, shown, late, netVars,
                 loggedin, events, sessions>>

Takes(type) ==
  /\ events # <<>> /\ Head(events).type = type
  /\ events' = Tail(events)

\* serverSettingsUpdated
TakeReceived ==
  /\ Takes("received")
  /\ sensitive' = TRUE /\ SrvIsNotUpdating' = TRUE /\ tab' = TRUE
  /\ shown' = Head(events).of
  /\ late' = (late \/ ~SrvIsNotUpdating)
  /\ UNCHANGED <<isOpen, SrvEditorOpen, isAdmin, asked, dropped, netVars, loggedin, pipe, sessions>>

\* Mutant: the form waits for settings nobody has asked for.
SendDoneOnly ==
  /\ SrvIsNotUpdating' = TRUE /\ SrvEditorOpen' = isOpen
  /\ pipe' \in Written(pipe, Close) /\ UNCHANGED <<asked, dropped>>
  /\ IF isOpen THEN UNCHANGED sensitive ELSE sensitive' = TRUE

\* Mutant: the form is unlocked, and nothing is read again.
SendDoneUnlocks ==
  /\ SrvIsNotUpdating' = TRUE /\ SrvEditorOpen' = isOpen
  /\ pipe' \in Written(pipe, Close) /\ UNCHANGED <<asked, dropped>>
  /\ sensitive' = TRUE

\* serverSettingsSendDone
SendDone ==
  /\ SrvIsNotUpdating' = TRUE /\ SrvEditorOpen' = isOpen
  /\ IF isOpen
     THEN (\E p \in Written(pipe, Close) : Ask(p, Open(asked + 1))) /\ UNCHANGED sensitive
     ELSE pipe' \in Written(pipe, Close) /\ sensitive' = TRUE /\ UNCHANGED <<asked, dropped>>

TakeSent ==
  /\ Takes("sent") /\ SendDone
  /\ UNCHANGED <<isOpen, isAdmin, tab, shown, late, netVars, loggedin, sessions>>

\* ADMIN_AUTH: the rights come and go; a user who asked for the window when
\* entering the password gets it.
TakeAuth ==
  /\ Takes("auth")
  /\ isAdmin' = ~isAdmin
  /\ \/ ~isAdmin /\ ~isOpen /\ asked < MaxAsked /\ Show(TRUE)
     \/ UNCHANGED <<isOpen, SrvEditorOpen, asked, pipe, dropped>>
  /\ UNCHANGED <<SrvIsNotUpdating, formVars, late, netVars, loggedin, sessions>>

\* onDisconnectHandler: admin->hide(), admin->clear()
TakeDisconnect ==
  /\ Takes("disconnect")
  /\ IF isOpen THEN tab' = FALSE ELSE UNCHANGED tab
  /\ isOpen' = FALSE /\ isAdmin' = FALSE
  /\ sensitive' = TRUE /\ SrvIsNotUpdating' = TRUE /\ SrvEditorOpen' = FALSE
  /\ UNCHANGED <<shown, asked, late, dropped, netVars, loggedin, pipe, sessions>>

TakeEvent == TakeReceived \/ TakeSent \/ TakeAuth \/ TakeDisconnect
-----------------------------------------------------------------------------
(* The network thread.                                                     *)

Message(sub, p, id) == [sub |-> sub, property |-> p, tid |-> id]
Queue(type, of) == events' = Append(events, [type |-> type, of |-> of, prop |-> prop'])

\* Another request takes the place of what is under way.
Replaces == cut' = (cut \/ sending)

\* V3_EVENT_SRV_PROP_OPEN, _CLOSE and _UPDATE in the drain of the pipe.
ReadOpen ==
  /\ pipe # <<>> /\ Head(pipe).type = "open" /\ pipe' = Tail(pipe)
  /\ tid' = Head(pipe).n
  /\ wire' = Append(wire, Message("recv", 0, tid'))
  /\ Replaces /\ sending' = FALSE
  /\ UNCHANGED <<guiVars, prop, sent, done, loggedin, events, sessions>>

ReadClose ==
  /\ pipe # <<>> /\ Head(pipe).type = "close" /\ pipe' = Tail(pipe)
  /\ tid' = 0
  /\ Replaces /\ sending' = FALSE
  /\ UNCHANGED <<guiVars, wire, prop, sent, done, loggedin, events, sessions>>

ReadUpdate ==
  /\ pipe # <<>> /\ Head(pipe).type = "update" /\ pipe' = Tail(pipe)
  /\ tid' = Head(pipe).n
  /\ prop' = [p \in Settings |-> tid']
  /\ wire' = Append(wire, Message("send", CHAT_FILTER, tid'))
  /\ sent' = sent \cup {<<tid', CHAT_FILTER, prop'[CHAT_FILTER]>>}
  /\ Replaces /\ sending' = TRUE
  /\ UNCHANGED <<guiVars, done, loggedin, events, sessions>>

\* What is asked for after p has come ...
AfterRecv(p) == p + 1 + (IF {p, p + 1} \cap Skipped # {} THEN 1 ELSE 0)

\* ... and what is sent when p is acknowledged; beyond Finish: nothing.
AfterSend(p) == p + 1 + (IF p + 1 \in Skipped \cup {Finish} THEN 1 ELSE 0)

\* Mutant: whatever comes is part of the transaction.
AnyAnswer(m) == TRUE

Current(m) == m.tid = tid

\* An answer of the server, which is told the value in a "recv".
Answer(m) ==
  /\ wire # <<>> /\ m = Head(wire) /\ m.sub \in {"recv", "send"}
  /\ UNCHANGED <<guiVars, tid, cut, loggedin, pipe, sessions>>

Ignore(m) ==
  /\ Answer(m) /\ ~Current(m)
  /\ wire' = Tail(wire)
  /\ UNCHANGED <<prop, sending, sent, done, events>>

Received(m) ==
  /\ Answer(m) /\ Current(m) /\ m.sub = "recv"
  /\ prop' = IF m.property = 0 THEN [p \in Settings |-> 0]
             ELSE [p \in Settings |-> IF p = m.property THEN m.tid ELSE prop[p]]
  /\ LET next == AfterRecv(m.property)
     IN IF next <= Finish
        THEN wire' = Append(Tail(wire), Message("recv", next, m.tid)) /\ UNCHANGED events
        ELSE wire' = Tail(wire) /\ Queue("received", m.tid)
  /\ UNCHANGED <<sending, sent, done>>

Acknowledged(m) ==
  /\ Answer(m) /\ Current(m) /\ m.sub = "send"
  /\ LET next == AfterSend(m.property)
     IN IF next <= Finish
        THEN /\ wire' = Append(Tail(wire), Message("send", next, m.tid))
             /\ sent' = sent \cup {<<m.tid, next, prop[next]>>}
             /\ UNCHANGED <<prop, sending, done, events>>
        ELSE /\ wire' = Tail(wire) /\ prop' = prop
             /\ done' = done \cup {m.tid} /\ sending' = FALSE
             /\ Queue("sent", m.tid) /\ UNCHANGED sent

ProcessMessage ==
  LET m == Head(wire)
  IN Ignore(m) \/ Received(m) \/ Acknowledged(m)

Thread == ReadOpen \/ ReadClose \/ ReadUpdate \/ ProcessMessage

\* The server grants or takes away the rights of an administrator.
Authorise ==
  /\ loggedin /\ \A i \in DOMAIN events : events[i].type # "auth"
  /\ events' = Append(events, [type |-> "auth", of |-> 0, prop |-> prop])
  /\ UNCHANGED <<guiVars, netVars, loggedin, pipe, sessions>>

\* _v3_logout leaves the id and the properties as they are.
Logout ==
  /\ loggedin /\ loggedin' = FALSE
  /\ events' = Append(events, [type |-> "disconnect", of |-> 0, prop |-> prop])
  /\ pipe' = <<>> /\ wire' = <<>> /\ sending' = FALSE
  /\ UNCHANGED <<guiVars, tid, prop, cut, sent, done, sessions>>

\* The user can connect again once DISCONNECT was taken.
Login ==
  /\ ~loggedin /\ events = <<>> /\ sessions < MaxSessions
  /\ loggedin' = TRUE /\ sessions' = sessions + 1
  /\ UNCHANGED <<guiVars, netVars, pipe, events>>

SPNext ==
  \/ ShowWindow \/ HideWindow \/ ServerUpdate \/ TakeEvent
  \/ Thread \/ Authorise \/ Logout \/ Login

SPSpec == SPInit /\ [][SPNext]_SPvars

SPFairSpec == SPSpec /\ WF_SPvars(TakeEvent) /\ WF_SPvars(Thread)
-----------------------------------------------------------------------------
(* Properties.                                                             *)

\* What the GUI is given was read in one transaction, all of it; what a
\* completed transaction has sent is one form, all of it and nothing else.
\* Reads and writes share a buffer and may overtake each other.
TransfersAreWhole ==
  /\ \A i \in DOMAIN events : events[i].type = "received" =>
       \A p \in Settings : events[i].prop[p] = events[i].of
  /\ \A n \in done : {w \in sent : w[1] = n} = {<<n, p, n>> : p \in Settings}

\* An update is cut short by another request only if the GUI was given
\* settings while it was updating, which an earlier OPEN had asked for.
CutOnlyLate == cut => late

\* Once nothing is under way the form shows what was read after the last
\* update that was sent, unless the pipe was full for the last OPEN or UPDATE.
FormIsCurrent ==
  pipe = <<>> /\ wire = <<>> /\ events = <<>> /\ loggedin /\ ~dropped
    => (isOpen /\ tab /\ SrvEditorOpen => \A n \in done : n < shown)

\* A form that takes no input takes some again, or is gone, unless the request it
\* waits for was lost: nobody tells the GUI that the pipe was full.
FormUnlocks == tab /\ ~sensitive ~> sensitive \/ ~tab \/ dropped
=============================================================================
