------------------------- MODULE GuiConnectionProofs -------------------------
(***************************************************************************)
(* InTurn, OneConnection and ButtonTells for any number of attempts and    *)
(* any delay.                                                              *)
(*                                                                         *)
(* The invariant says, as long as the user is not hasty, what the button   *)
(* looks like in each phase of the one thread there is: this is what keeps *)
(* the next attempt from being made in any phase but the last.             *)
(***************************************************************************)
EXTENDS GuiConnection, TLAPS

Active == In(Busy \cup {"closing"})

PCs == Busy \cup {"none", "closing", "done"}

Shape ==
  /\ pc \in [Threads -> PCs]
  /\ label \in Labels /\ eventq \in Nat /\ timers \in Nat /\ waited \in Nat

\* What the button looks like while a thread is at l.
Looks(l) ==
  /\ l \in {"new", "login", "entered"} =>
       label = "gtk-connect" /\ eventq = 0 /\ (sensitive <=> l = "new")
  /\ l = "failed"  => label = "gtk-connect" /\ ~sensitive
  /\ l = "main"    => label = "gtk-disconnect" /\ eventq = 0 /\ sensitive
  /\ l = "closing" => sensitive /\ (eventq = 0 => label # "gtk-disconnect")
  /\ l \in {"entered", "main", "closing"} => loggedin

\* And while no thread is busy.
AtRest == sensitive /\ (eventq = 0 => label # "gtk-disconnect")

\* The wait has a timer, and nobody objects.  Once a second is over, the
\* thread that lost the connection is gone.
Waits ==
  label = "gtk-cancel" =>
    /\ timers > 0 /\ ~wantDisconnect
    /\ waited > 0 => Active = {} /\ eventq = 0

Calm ==
  /\ \A t, u \in Active : t = u
  /\ \A t \in Active : Looks(pc[t])
  /\ In(Busy) = {} => AtRest
  /\ Waits

IInv == Shape /\ (asked => wantDisconnect) /\ (~hasty => Calm)
-----------------------------------------------------------------------------
LEMMA NewShape ==
  ASSUME Shape, NewThread
  PROVE  pc' \in [Threads -> PCs] /\ asked' = FALSE
BY DEF Shape, NewThread, In, Busy, PCs

LEMMA ServerShape ==
  ASSUME Shape, ToServer, asked => wantDisconnect
  PROVE  pc' \in [Threads -> PCs] /\ (asked' => wantDisconnect')
<1>1. CASE named' = TRUE /\ wantDisconnect' = FALSE /\ NewThread
  BY <1>1, NewShape
<1>2. CASE UNCHANGED <<wantDisconnect, pc, asked>>
  <2>1. pc' = pc /\ (asked' => wantDisconnect')
    BY <1>2
  <2> QED
    BY <2>1 DEF Shape
<1> QED
  BY <1>1, <1>2 DEF ToServer

LEMMA HandlerShape ==
  ASSUME Shape, onDisconnectHandler
  PROVE  label' \in Labels /\ timers' \in Nat /\ waited' \in Nat
BY DEF Shape, onDisconnectHandler, Labels, timerVars

\* Another attempt: all is quiet before, and the button shows gtk-connect.
LEMMA NewKeeps ==
  ASSUME Shape, Calm, NewThread, Active = {}, eventq = 0, UNCHANGED <<eventq, sensitive>>,
         label' = "gtk-connect"
  PROVE  Calm'
<1>1. PICK t \in Threads : pc[t] = "none" /\ pc' = [pc EXCEPT ![t] = "new"]
  BY DEF NewThread, In
<1>2. Active' = {t} /\ In(Busy)' = {t} /\ pc'[t] = "new"
  <2>1. \A u \in Threads : pc[u] \notin Busy \cup {"closing"}
    BY DEF Active, In
  <2> QED
    BY <1>1, <2>1 DEF Active, In, Busy, Shape, PCs
<1>3. sensitive
  BY DEF Calm, AtRest, Active, In
<1> QED
  BY <1>2, <1>3 DEF Calm, Looks, Waits

\* A handler that leaves the threads, and what it may do to the button.
LEMMA ButtonKeeps ==
  ASSUME Calm, UNCHANGED pc, \A t \in Active : Looks(pc[t]) => Looks(pc[t])',
         In(Busy) = {} /\ AtRest => AtRest', Waits'
  PROVE  Calm'
<1>1. Active' = Active /\ In(Busy)' = In(Busy)
  BY DEF Active, In
<1> QED
  BY <1>1 DEF Calm

LEMMA ToServerKeeps ==
  ASSUME Shape, Calm, ToServer, pc' # pc => Active = {} /\ eventq = 0,
         UNCHANGED <<eventq, sensitive, loggedin>>, label' = "gtk-connect",
         label = "gtk-connect" \/ (label = "gtk-cancel" /\ In(Busy) = {})
  PROVE  Calm'
<1>1. CASE pc' = pc
  <2>1. \A t \in Active : Looks(pc[t]) => Looks(pc[t])'
    BY DEF Looks, Active, In, Busy
  <2>2. In(Busy) = {} /\ AtRest => AtRest'
    BY DEF AtRest
  <2> QED
    BY <1>1, <2>1, <2>2, ButtonKeeps DEF Waits
<1>2. CASE pc' # pc
  BY <1>2, NewKeeps DEF ToServer
<1> QED
  BY <1>1, <1>2

LEMMA DisconnectKeeps ==
  ASSUME Shape, Calm, onDisconnectHandler, UNCHANGED <<pc, loggedin>>, eventq' \in Nat,
         \/ eventq > 0 /\ UNCHANGED wantDisconnect
         \/ label = "gtk-cancel" /\ UNCHANGED eventq
  PROVE  Calm'
<1>1. \A t \in Active : Looks(pc[t]) => Looks(pc[t])'
  <2> SUFFICES ASSUME NEW t \in Active, Looks(pc[t]) PROVE Looks(pc[t])'
    OBVIOUS
  <2>1. pc[t] \in {"failed", "closing"}
    BY DEF Active, In, Busy, Looks, Shape, PCs
  <2> QED
    BY <2>1 DEF Looks, onDisconnectHandler
<1>2. In(Busy) = {} /\ AtRest => AtRest'
  BY DEF AtRest, onDisconnectHandler
<1>3. Waits'
  BY DEF Waits, onDisconnectHandler, Unwanted, timerVars, Shape
<1> QED
  BY <1>1, <1>2, <1>3, ButtonKeeps
-----------------------------------------------------------------------------
LEMMA UserKeeps == IInv /\ User => IInv'
<1> SUFFICES ASSUME IInv, User PROVE IInv'
  OBVIOUS
<1> USE DEF IInv
<1>1. Shape' /\ (asked' => wantDisconnect')
  <2>1. CASE ClickConnect
    BY <2>1, ServerShape DEF ClickConnect, Shape, Hurry, buttonVars, timerVars
  <2>2. CASE QuickConnect
    BY <2>2, NewShape DEF QuickConnect, Shape, Hurry, buttonVars, timerVars
  <2>3. CASE ClickCancel
    BY <2>3, HandlerShape DEF ClickCancel, Shape, netVars
  <2>4. CASE ClickDisconnect \/ QuickDialog \/ QuickCancel
    BY <2>4 DEF ClickDisconnect, QuickDialog, QuickCancel, Shape, buttonVars, timerVars, netVars, history
  <2> QED
    BY <2>1, <2>2, <2>3, <2>4 DEF User
<1>2. ASSUME ~hasty' PROVE ~hasty
  BY <1>2 DEF User, ClickConnect, ClickCancel, ClickDisconnect, QuickDialog, QuickCancel, QuickConnect,
     Hurry, history
<1> SUFFICES ASSUME ~hasty' PROVE Calm'
  BY <1>1
<1>3. Shape /\ Calm
  BY <1>2
<1>4. CASE ClickConnect
  <2>1. pc' # pc => Active = {} /\ eventq = 0
    BY <1>4 DEF ClickConnect, Hurry, Active
  <2> QED
    BY <1>3, <1>4, <2>1, ToServerKeeps DEF ClickConnect, Clickable, buttonVars
<1>5. CASE ClickCancel
  BY <1>3, <1>5, DisconnectKeeps DEF ClickCancel, Clickable, netVars, Shape
<1>6. CASE ClickDisconnect
  <2>1. UNCHANGED <<pc, loggedin, label, sensitive, eventq>> /\ label = "gtk-disconnect"
    BY <1>6 DEF ClickDisconnect, Clickable, buttonVars, netVars
  <2>2. \A t \in Active : Looks(pc[t]) => Looks(pc[t])'
    BY <2>1 DEF Looks
  <2>3. AtRest => AtRest'
    BY <2>1 DEF AtRest
  <2>4. Waits'
    BY <2>1 DEF Waits
  <2> QED
    BY <1>3, <2>1, <2>2, <2>3, <2>4, ButtonKeeps
<1>7. CASE QuickDialog \/ QuickCancel
  <2>1. UNCHANGED <<pc, loggedin, label, sensitive, eventq, timers, waited, wantDisconnect>>
    BY <1>7 DEF QuickDialog, QuickCancel, buttonVars, timerVars, netVars
  <2>2. \A t \in Active : Looks(pc[t]) => Looks(pc[t])'
    BY <2>1 DEF Looks
  <2>3. AtRest => AtRest'
    BY <2>1 DEF AtRest
  <2>4. Active' = Active
    BY <2>1 DEF Active, In
  <2>5. Waits'
    BY <1>3, <2>1, <2>4 DEF Waits, Calm
  <2> QED
    BY <1>3, <2>1, <2>2, <2>3, <2>5, ButtonKeeps
<1>8. CASE QuickConnect
  <2>1. Active = {} /\ eventq = 0 /\ label # "gtk-cancel"
    BY <1>8 DEF QuickConnect, Hurry, Active
  <2>2. In(Busy) = {}
    BY <2>1 DEF Active, In
  <2>3. label = "gtk-connect"
    BY <1>3, <2>1, <2>2 DEF Calm, AtRest, Shape, Labels
  <2> QED
    BY <1>3, <1>8, <2>1, <2>3, NewKeeps DEF QuickConnect, buttonVars
<1> QED
  BY <1>4, <1>5, <1>6, <1>7, <1>8 DEF User

LEMMA GuiKeeps == IInv /\ (TakeDisconnect \/ Timer) => IInv'
<1> SUFFICES ASSUME IInv, TakeDisconnect \/ Timer PROVE IInv'
  OBVIOUS
<1> USE DEF IInv
<1>1. Shape' /\ (asked' => wantDisconnect') /\ UNCHANGED hasty
  <2>1. CASE TakeDisconnect
    BY <2>1, HandlerShape DEF TakeDisconnect, Shape, netVars, history
  <2>2. CASE TimerEnds \/ TimerCounts
    BY <2>2 DEF TimerEnds, TimerCounts, Shape, buttonVars, netVars, history
  <2>3. CASE TimerConnects
    <3>1. timers' \in Nat /\ waited' \in Nat /\ label' \in Labels
      BY <2>3 DEF TimerConnects, Shape, Labels
    <3> QED
      BY <2>3, <3>1, ServerShape DEF TimerConnects, Shape
  <2> QED
    BY <2>1, <2>2, <2>3 DEF Timer
<1> SUFFICES ASSUME ~hasty PROVE Calm'
  BY <1>1
<1>2. CASE TakeDisconnect
  BY <1>1, <1>2, DisconnectKeeps DEF TakeDisconnect, netVars, Shape
<1>3. CASE TimerEnds \/ TimerCounts
  <2>1. UNCHANGED <<pc, loggedin, label, sensitive, eventq, wantDisconnect>>
    BY <1>3 DEF TimerEnds, TimerCounts, buttonVars, netVars
  <2>2. \A t \in Active : Looks(pc[t]) => Looks(pc[t])'
    BY <2>1 DEF Looks
  <2>3. CASE TimerEnds
    BY <2>1, <2>2, <2>3, ButtonKeeps DEF TimerEnds, Waiting, Waits, AtRest, Calm
  <2>4. CASE TimerCounts
    <3>1. label = "gtk-cancel" /\ In({"closing"}) = {} /\ eventq = 0 /\ UNCHANGED timers
      BY <2>4 DEF TimerCounts, Waiting
    <3>2. Active = {}
      BY <3>1 DEF Calm, Looks, Active, In, Busy
    <3>3. Waits'
      BY <2>1, <3>1, <3>2 DEF Waits, Calm, Active, In
    <3>4. AtRest => AtRest'
      BY <2>1 DEF AtRest
    <3> QED
      BY <2>1, <2>2, <3>3, <3>4, ButtonKeeps
  <2> QED
    BY <1>3, <2>3, <2>4
<1>4. CASE TimerConnects
  <2>1. label = "gtk-cancel" /\ label' = "gtk-connect" /\ ToServer /\ UNCHANGED <<eventq, sensitive, loggedin>>
    BY <1>4 DEF TimerConnects, Waiting
  <2>2. In(Busy) = {}
    BY <2>1 DEF Calm, Looks, Active, In, Busy
  <2>3. Active = {} /\ eventq = 0
    BY <1>4, ConnectionAssumption DEF TimerConnects, Waiting, Calm, Waits
  <2> QED
    BY <2>1, <2>2, <2>3, ToServerKeeps
<1> QED
  BY <1>2, <1>3, <1>4 DEF Timer
-----------------------------------------------------------------------------
\* A step of a thread moves it on, or ends it.
LEMMA NetworkShape ==
  ASSUME NEW t \in Threads, IInv, Network(t)
  PROVE  Shape' /\ (asked' => wantDisconnect') /\ UNCHANGED hasty
<1> USE DEF IInv
<1>1. UNCHANGED <<asked, hasty>>
  BY DEF Network, Begin, LoginFails, LoginSucceeds, ShowFailure, ShowConnected, EndSession,
     CloseConnection, Leave, history
<1>2. asked' => wantDisconnect'
  BY <1>1 DEF Network, Begin, LoginFails, LoginSucceeds, ShowFailure, ShowConnected, EndSession,
     CloseConnection, Leave
<1>3. pc' \in [Threads -> PCs]
  BY DEF Network, Begin, LoginFails, LoginSucceeds, ShowFailure, ShowConnected, EndSession,
     CloseConnection, Leave, Goto, Shape, PCs, Busy
<1>4. label' \in Labels /\ eventq' \in Nat /\ UNCHANGED <<timers, waited>>
  BY DEF Network, Begin, LoginFails, LoginSucceeds, ShowFailure, ShowConnected, EndSession,
     CloseConnection, Leave, Shape, Labels, buttonVars, timerVars
<1> QED
  BY <1>1, <1>2, <1>3, <1>4 DEF Shape

\* From one busy phase to another, in which the button looks as it should.
LEMMA MovesOn ==
  ASSUME NEW t \in Threads, Shape, Calm, pc[t] \in Busy, UNCHANGED <<timers, waited>>,
         NEW l \in Busy \cup {"closing"}, Goto(t, l), Looks(l)', label' # "gtk-cancel",
         l = "closing" => eventq' # 0
  PROVE  Calm'
<1>1. \A u \in Threads : pc'[u] = IF u = t THEN l ELSE pc[u]
  BY DEF Goto, Shape
<1>2. t \in Active /\ Active = {t}
  BY DEF Calm, Active, In
<1>3. Active' = {t}
  BY <1>1, <1>2 DEF Active, In
<1>4. In(Busy)' = {} => AtRest'
  BY <1>1 DEF In, AtRest, Looks
<1> QED
  BY <1>1, <1>3, <1>4 DEF Calm, Waits

\* The end of a thread.
LEMMA MovesOut ==
  ASSUME NEW t \in Threads, Shape, Calm, t \in Active, Goto(t, "done"), AtRest',
         label' # "gtk-cancel" \/ UNCHANGED <<label, timers, wantDisconnect, waited>>
  PROVE  Calm'
<1>1. \A u \in Threads : pc'[u] = IF u = t THEN "done" ELSE pc[u]
  BY DEF Goto, Shape
<1>2. Active = {t}
  BY DEF Calm
<1>3. Active' = {}
  BY <1>1, <1>2 DEF Active, In, Busy
<1>4. Waits'
  BY <1>2, <1>3 DEF Calm, Waits
<1> QED
  BY <1>3, <1>4 DEF Calm

LEMMA NetworkKeeps ==
  ASSUME NEW t \in Threads, IInv, Network(t)
  PROVE  IInv'
<1>0. Shape' /\ (asked' => wantDisconnect') /\ UNCHANGED hasty
  BY NetworkShape
<1> SUFFICES ASSUME ~hasty PROVE Calm'
  BY <1>0 DEF IInv
<1>1. Shape /\ Calm
  BY DEF IInv
<1>2. pc[t] \in Busy \cup {"closing"} => t \in Active /\ Looks(pc[t])
  BY <1>1 DEF Calm, Active, In
<1> USE DEF Busy
<1>3. CASE Begin(t)
  BY <1>1, <1>2, <1>3, MovesOn DEF Begin, timerVars, Looks
<1>4. CASE LoginFails(t)
  BY <1>1, <1>2, <1>4, MovesOn DEF LoginFails, timerVars, buttonVars, Looks
<1>5. CASE LoginSucceeds(t)
  BY <1>1, <1>2, <1>5, MovesOn DEF LoginSucceeds, timerVars, buttonVars, Looks
<1>6. CASE ShowConnected(t)
  BY <1>1, <1>2, <1>6, MovesOn DEF ShowConnected, timerVars, Looks
<1>7. CASE EndSession(t)
  BY <1>1, <1>2, <1>7, MovesOn DEF EndSession, timerVars, buttonVars, Looks
<1>8. CASE ShowFailure(t)
  BY <1>1, <1>2, <1>8, MovesOut DEF ShowFailure, AtRest
<1>9. CASE CloseConnection(t)
  BY <1>1, <1>2, <1>9, MovesOut DEF CloseConnection, AtRest, Looks, buttonVars, timerVars
<1>10. CASE Leave(t)
  BY <1>1, <1>2, <1>10, MovesOut DEF Leave, Looks
<1> QED
  BY <1>3, <1>4, <1>5, <1>6, <1>7, <1>8, <1>9, <1>10 DEF Network
-----------------------------------------------------------------------------
LEMMA InitHolds == Init => IInv
  BY DEF Init, IInv, Shape, Calm, Looks, AtRest, Waits, Active, In, Busy, PCs, Labels

LEMMA NextKeeps == IInv /\ [Next]_vars => IInv'
<1> SUFFICES ASSUME IInv, [Next]_vars PROVE IInv'
  OBVIOUS
<1>1. CASE User
  BY <1>1, UserKeeps
<1>2. CASE TakeDisconnect \/ Timer
  BY <1>2, GuiKeeps
<1>3. ASSUME NEW t \in Threads, Network(t) PROVE IInv'
  BY <1>3, NetworkKeeps
<1>4. CASE UNCHANGED vars
  <2>1. UNCHANGED <<pc, label, sensitive, eventq, timers, waited, wantDisconnect, loggedin, asked, hasty>>
    BY <1>4 DEF vars, buttonVars, timerVars, netVars, history
  <2>2. Active' = Active /\ In(Busy)' = In(Busy)
    BY <2>1 DEF Active, In
  <2>3. Shape' /\ (asked' => wantDisconnect') /\ (AtRest => AtRest') /\ (Waits => Waits')
    BY <2>1, <2>2 DEF IInv, Shape, AtRest, Waits
  <2>4. \A t \in Active : Looks(pc[t]) => Looks(pc[t])'
    BY <2>1 DEF Looks
  <2> QED
    BY <2>1, <2>2, <2>3, <2>4 DEF IInv, Calm
<1> QED
  BY <1>1, <1>2, <1>3, <1>4 DEF Next

\* The timer, failures and DISCONNECT never start a second network thread
\* beside one that connects or is connected: mangler.cpp:460-560, 590-650.
OneConnection == ~hasty => \A t, u \in In(Busy) : t = u

LEMMA One == IInv => OneConnection
  BY DEF IInv, Calm, OneConnection, Active, In

LEMMA Tells == IInv => ButtonTells
<1> SUFFICES ASSUME IInv, ~hasty PROVE ButtonTells
  BY DEF ButtonTells
<1>1. Calm
  BY DEF IInv
<1>2. In({"main"}) # {} => label = "gtk-disconnect" /\ sensitive
  BY <1>1 DEF Calm, Looks, Active, In, Busy
<1>3. In(Busy \cup {"closing"}) = {} /\ eventq = 0 => label # "gtk-disconnect" /\ sensitive
  BY <1>1 DEF Calm, AtRest, In
<1>4. label = "gtk-cancel" => timers > 0 /\ ~asked
  BY <1>1 DEF Calm, Waits, IInv
<1> QED
  BY <1>2, <1>3, <1>4 DEF ButtonTells

\* A step that begins an attempt.
LEMMA BeginsInTurn ==
  ASSUME IInv, [Next]_vars, NEW t \in Threads, pc[t] = "none", pc'[t] # "none", ~hasty'
  PROVE  Active = {} /\ eventq = 0
<1>1. CASE ClickConnect \/ QuickConnect
  BY <1>1 DEF ClickConnect, QuickConnect, Hurry, Active
<1>2. CASE TimerConnects
  <2>1. ~hasty
    BY <1>2 DEF TimerConnects
  <2> QED
    BY <1>2, <2>1, ConnectionAssumption DEF TimerConnects, Waiting, IInv, Calm, Waits
<1>3. CASE UNCHANGED pc
  BY <1>3
<1>4. ASSUME NEW u \in Threads, Network(u) PROVE FALSE
  <2>1. pc[u] # "none" /\ \E l \in PCs : pc' = [pc EXCEPT ![u] = l]
    BY <1>4 DEF Network, Begin, LoginFails, LoginSucceeds, ShowFailure, ShowConnected, EndSession,
       CloseConnection, Leave, Goto, PCs, Busy
  <2> QED
    BY <2>1 DEF IInv, Shape
<1> QED
  BY <1>1, <1>2, <1>3, <1>4
     DEF Next, User, TakeDisconnect, Timer, ClickCancel, ClickDisconnect, QuickDialog, QuickCancel,
         TimerEnds, TimerCounts, vars, netVars

\* Whatever timers, failures and events do, at most one network thread
\* connects or is connected: mangler.cpp:460-560, 590-650.
THEOREM ConnectsOnce == Spec => []OneConnection
<1>1. Init => IInv
  BY InitHolds
<1>2. IInv /\ [Next]_vars => IInv'
  BY NextKeeps
<1>3. IInv => OneConnection
  BY One
<1> QED
  BY <1>1, <1>2, <1>3, PTL DEF Spec

\* The reconnect timer, and a user who is not hasty, begin an attempt only when the
\* thread of the last one is done and its DISCONNECT taken: mangler.cpp:539-561.
THEOREM AttemptsInTurn == Spec => InTurn
<1>1. Init => IInv
  BY InitHolds
<1>2. IInv /\ [Next]_vars => IInv'
  BY NextKeeps
<1>3. IInv /\ [Next]_vars =>
        [\A t \in Threads : pc[t] = "none" /\ pc'[t] # "none" /\ ~hasty' =>
           In(Busy \cup {"closing"}) = {} /\ eventq = 0]_<<pc, hasty>>
  BY BeginsInTurn DEF Active
<1> QED
  BY <1>1, <1>2, <1>3, PTL DEF Spec, InTurn

\* The button offers what can be done, and a wait has a timer behind it:
\* mangler.cpp:460-560, manglernetwork.cpp:39-68.
THEOREM ButtonIsRight == Spec => []ButtonTells
<1>1. Init => IInv
  BY InitHolds
<1>2. IInv /\ [Next]_vars => IInv'
  BY NextKeeps
<1>3. IInv => ButtonTells
  BY Tells
<1> QED
  BY <1>1, <1>2, <1>3, PTL DEF Spec
=============================================================================
