---------------------------- MODULE GuiConnection ----------------------------
(***************************************************************************)
(* The connect button of the GTK client, quick connect, and the timer that *)
(* connects again after a persistent connection was lost (mangler.cpp),    *)
(* over the network threads they create (manglernetwork.cpp).              *)
(*                                                                         *)
(* The label of the button is the state: a click and DISCONNECT do what it *)
(* says.  Network threads change it when they get the gdk lock.  What a    *)
(* session does inside is V3Session; here a login succeeds or fails, and a *)
(* session ends, with or without being asked.                              *)
(***************************************************************************)
EXTENDS Naturals

CONSTANTS
  MaxThreads,  (* bound: connection attempts                                *)
  Delay        (* seconds from a loss to the next attempt (15)              *)

ASSUME ConnectionAssumption == MaxThreads \in Nat /\ Delay \in Nat \ {0}

Threads == 1..MaxThreads

VARIABLES
  label, sensitive,     (* of connectButton                                 *)
  named,                (* connectedServerName is not empty                 *)
  wantDisconnect,
  timers, waited,       (* reconnect timers; seconds since lastAttempt      *)
  dialog,               (* the quick connect dialog is open                 *)
  pc, loggedin,         (* network threads; _v3_user_loggedin               *)
  eventq,               (* DISCONNECT events the GUI has not taken          *)
  asked,                (* history: the user has disconnected or cancelled  *)
                        (* since the last attempt                           *)
  hasty                 (* history: the user started an attempt while a     *)
                        (* thread was not done, within 10 ms of its end, or *)
                        (* with quick connect while the timer was counting  *)

buttonVars == <<label, sensitive>>
timerVars  == <<timers, waited>>
netVars    == <<pc, loggedin>>
history    == <<asked, hasty>>
vars == <<buttonVars, named, wantDisconnect, timerVars, dialog, netVars, eventq, history>>

Labels == {"gtk-connect", "gtk-disconnect", "gtk-cancel"}
Busy   == {"new", "login", "entered", "main", "failed"}

In(states) == {t \in Threads : pc[t] \in states}

TypeOK ==
  /\ label \in Labels /\ sensitive \in BOOLEAN
  /\ named \in BOOLEAN /\ wantDisconnect \in BOOLEAN
  /\ timers \in Nat /\ waited \in 0..Delay /\ dialog \in BOOLEAN
  /\ pc \in [Threads -> Busy \cup {"none", "closing", "done"}] /\ loggedin \in BOOLEAN
  /\ eventq \in Nat /\ asked \in BOOLEAN /\ hasty \in BOOLEAN

Init ==
  /\ label = "gtk-connect" /\ sensitive = TRUE
  /\ named = FALSE /\ wantDisconnect = FALSE
  /\ timers = 0 /\ waited = 0 /\ dialog = FALSE
  /\ pc = [t \in Threads |-> "none"] /\ loggedin = FALSE
  /\ eventq = 0 /\ asked = FALSE /\ hasty = FALSE
-----------------------------------------------------------------------------
(* What handlers share.                                                    *)

\* onConnectHandler: a thread for ManglerNetwork::connect.
NewThread ==
  \E t \in In({"none"}) :
    /\ \A u \in In({"none"}) : t <= u
    /\ pc' = [pc EXCEPT ![t] = "new"]
    /\ asked' = FALSE

\* connectButton_clicked_cb with gtk-connect: a server is selected, or none
\* is, or one without a host, port or user name.
ToServer ==
  \/ named' = TRUE /\ wantDisconnect' = FALSE /\ NewThread
  \/ UNCHANGED <<named, wantDisconnect, pc, asked>>
  \/ named' = TRUE /\ UNCHANGED <<wantDisconnect, pc, asked>>

\* Mutant: the user's wish is not looked at.
AnyLoss == named

\* Whether a loss is one to recover from; the setting may be either.
Unwanted == named /\ ~wantDisconnect

onDisconnectHandler ==
  \/ /\ label = "gtk-disconnect"
     /\ sensitive' = TRUE /\ named' = FALSE
     /\ \/ label' = "gtk-connect" /\ UNCHANGED timerVars
        \/ Unwanted /\ label' = "gtk-cancel" /\ timers' = timers + 1 /\ waited' = 0
  \/ /\ label # "gtk-disconnect"
     /\ label' = "gtk-connect"
     /\ UNCHANGED <<sensitive, named, timerVars>>
-----------------------------------------------------------------------------
(* The user.                                                               *)

Hurry == hasty \/ In(Busy \cup {"closing"}) # {} \/ eventq # 0

Clickable(l) == label = l /\ sensitive /\ ~dialog

ClickConnect ==
  /\ Clickable("gtk-connect")
  /\ ToServer
  /\ hasty' = (IF pc' # pc THEN Hurry ELSE hasty)
  /\ UNCHANGED <<buttonVars, timerVars, dialog, loggedin, eventq>>

ClickCancel ==
  /\ Clickable("gtk-cancel")
  /\ wantDisconnect' = TRUE /\ asked' = TRUE
  /\ onDisconnectHandler
  /\ UNCHANGED <<dialog, netVars, eventq, hasty>>

\* v3_logout asks the network thread, which may end at any time.
ClickDisconnect ==
  /\ Clickable("gtk-disconnect")
  /\ wantDisconnect' = TRUE /\ asked' = TRUE
  /\ UNCHANGED <<buttonVars, named, timerVars, dialog, netVars, eventq, hasty>>

\* Its button is sensitive if nobody was logged in when the dialog came up.
QuickDialog ==
  /\ ~dialog /\ ~loggedin
  /\ dialog' = TRUE
  /\ UNCHANGED <<buttonVars, named, wantDisconnect, timerVars, netVars, eventq, history>>

QuickCancel ==
  /\ dialog /\ dialog' = FALSE
  /\ UNCHANGED <<buttonVars, named, wantDisconnect, timerVars, netVars, eventq, history>>

QuickConnect ==
  /\ dialog /\ dialog' = FALSE
  /\ named' = FALSE
  /\ NewThread
  /\ hasty' = (Hurry \/ label = "gtk-cancel")
  /\ UNCHANGED <<buttonVars, wantDisconnect, timerVars, loggedin, eventq>>

User == ClickConnect \/ ClickCancel \/ ClickDisconnect \/ QuickDialog \/ QuickCancel \/ QuickConnect
-----------------------------------------------------------------------------
(* The GUI: events, and reconnectStatusHandler once a second.              *)

TakeDisconnect ==
  /\ eventq > 0 /\ eventq' = eventq - 1
  /\ onDisconnectHandler
  /\ UNCHANGED <<wantDisconnect, dialog, netVars, history>>

\* Mutant: the label is not looked at.
WaitingAnyhow == ~wantDisconnect

Waiting == label = "gtk-cancel" /\ ~wantDisconnect

TimerEnds ==
  /\ timers > 0 /\ ~Waiting
  /\ timers' = timers - 1
  /\ UNCHANGED <<buttonVars, named, wantDisconnect, waited, dialog, netVars, eventq, history>>

\* A second is longer than _v3_logout takes, and than getNetworkEvent waits.
TimerCounts ==
  /\ timers > 0 /\ Waiting /\ waited < Delay
  /\ In({"closing"}) = {} /\ eventq = 0
  /\ waited' = waited + 1
  /\ UNCHANGED <<buttonVars, named, wantDisconnect, timers, dialog, netVars, eventq, history>>

\* Mutant: the label is left to what connecting makes of it.
TimerKeepsLabel ==
  /\ timers > 0 /\ Waiting /\ waited = Delay
  /\ timers' = timers - 1 /\ waited' = 0
  /\ ToServer
  /\ UNCHANGED <<buttonVars, dialog, loggedin, eventq, hasty>>

TimerConnects ==
  /\ timers > 0 /\ Waiting /\ waited = Delay
  /\ timers' = timers - 1 /\ waited' = 0
  /\ label' = "gtk-connect"
  /\ ToServer
  /\ UNCHANGED <<sensitive, dialog, loggedin, eventq, hasty>>

Timer == TimerEnds \/ TimerCounts \/ TimerConnects
-----------------------------------------------------------------------------
(* ManglerNetwork::connect.                                                *)

Goto(t, l) == pc' = [pc EXCEPT ![t] = l]

Begin(t) ==
  /\ pc[t] = "new" /\ Goto(t, "login")
  /\ sensitive' = FALSE
  /\ UNCHANGED <<label, named, wantDisconnect, timerVars, dialog, loggedin, eventq, history>>

\* In some of the cases v3_login has called _v3_logout (see V3Session).
LoginFails(t) ==
  /\ pc[t] = "login" /\ Goto(t, "failed")
  /\ eventq' \in {eventq, eventq + 1}
  /\ UNCHANGED <<buttonVars, named, wantDisconnect, timerVars, dialog, loggedin, history>>

LoginSucceeds(t) ==
  /\ pc[t] = "login" /\ Goto(t, "entered")
  /\ loggedin' = TRUE
  /\ UNCHANGED <<buttonVars, named, wantDisconnect, timerVars, dialog, eventq, history>>

\* Mutant: the label is not set to gtk-disconnect before.
ShowFailureOnly(t) ==
  /\ pc[t] = "failed" /\ Goto(t, "done")
  /\ wantDisconnect' = TRUE
  /\ onDisconnectHandler
  /\ UNCHANGED <<dialog, loggedin, eventq, history>>

\* The label is set to gtk-disconnect and wantDisconnect set, for
\* onDisconnectHandler to undo the rest and never to wait.
ShowFailure(t) ==
  /\ pc[t] = "failed" /\ Goto(t, "done")
  /\ wantDisconnect' = TRUE
  /\ label' = "gtk-connect" /\ sensitive' = TRUE /\ named' = FALSE
  /\ UNCHANGED <<timerVars, dialog, loggedin, eventq, history>>

ShowConnected(t) ==
  /\ pc[t] = "entered" /\ Goto(t, "main")
  /\ label' = "gtk-disconnect" /\ sensitive' = TRUE
  /\ UNCHANGED <<named, wantDisconnect, timerVars, dialog, loggedin, eventq, history>>

\* _v3_logout: DISCONNECT is queued, then the connection is closed.
EndSession(t) ==
  /\ pc[t] = "main" /\ loggedin /\ Goto(t, "closing")
  /\ eventq' = eventq + 1
  /\ UNCHANGED <<buttonVars, named, wantDisconnect, timerVars, dialog, loggedin, history>>

CloseConnection(t) ==
  /\ pc[t] = "closing" /\ Goto(t, "done")
  /\ loggedin' = FALSE
  /\ UNCHANGED <<buttonVars, named, wantDisconnect, timerVars, dialog, eventq, history>>

\* while (v3_is_loggedin()): another thread has closed it.
Leave(t) ==
  /\ pc[t] = "main" /\ ~loggedin /\ Goto(t, "done")
  /\ UNCHANGED <<buttonVars, named, wantDisconnect, timerVars, dialog, loggedin, eventq, history>>

Network(t) == \/ Begin(t) \/ LoginFails(t) \/ LoginSucceeds(t) \/ ShowFailure(t)
              \/ ShowConnected(t) \/ EndSession(t) \/ CloseConnection(t) \/ Leave(t)
-----------------------------------------------------------------------------
Next == User \/ TakeDisconnect \/ Timer \/ \E t \in Threads : Network(t)

Spec == Init /\ [][Next]_vars

\* The GUI's main loop runs its timers; a thread in _v3_logout ends.
FairSpec == /\ Spec /\ WF_vars(TakeDisconnect) /\ WF_vars(Timer)
            /\ \A t \in Threads : WF_vars(CloseConnection(t))
-----------------------------------------------------------------------------
(* Properties.                                                             *)

\* An attempt begins only when the thread of the one before is done, _v3_logout
\* included, and its DISCONNECT is taken: also one the timer makes long after its
\* loss, with other attempts in between, and one of a user who waits for the first
\* and does not use quick connect while the timer counts.  It is what V3Session
\* takes for granted with Eager = FALSE: _v3_logout would close the connection of
\* the next login.
InTurn ==
  [][\A t \in Threads : pc[t] = "none" /\ pc'[t] # "none" /\ ~hasty' =>
       In(Busy \cup {"closing"}) = {} /\ eventq = 0]_<<pc, hasty>>

\* The button offers what can be done: to disconnect in a session, to connect
\* or to stop waiting if no thread runs.  It waits only with a timer that will
\* end it, and only if the user has not disconnected.
ButtonTells ==
  ~hasty =>
    /\ In({"main"}) # {} => label = "gtk-disconnect" /\ sensitive
    /\ In(Busy \cup {"closing"}) = {} /\ eventq = 0 => label # "gtk-disconnect" /\ sensitive
    /\ label = "gtk-cancel" => timers > 0 /\ ~asked

\* Waiting for the next attempt ends: it is made, or the user cancels.
WaitEnds == label = "gtk-cancel" ~> label # "gtk-cancel"
=============================================================================
