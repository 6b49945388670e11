--------------------------- MODULE AudioInputProofs ---------------------------
(***************************************************************************)
(* NoHotMic and Bracketed for any keys, objects, sessions and failures.    *)
(*                                                                         *)
(* For NoHotMic it is inductive with this added: a thread at its end has   *)
(* been stopped, so that the flag and inputAudio may change without it;    *)
(* what a thread is about to erase from inputAudio is itself, nothing, or  *)
(* an object that has been created since; and inputAudio is empty as long  *)
(* as nobody transmits or an object waits to be assigned.                  *)
(***************************************************************************)
EXTENDS AudioInput, TLAPS

Live(i) == pc[i] \in Running /\ ~stop_input[i]

Shape ==
  /\ pc \in [Inputs -> Running \cup {"none", "silent", "gone"}]
  /\ stop_input \in [Inputs -> BOOLEAN]

Stopped == \A i \in Inputs : pc[i] \in {"bye", "clear"} => stop_input[i]

Idle ==
  /\ ~isTransmitting => inputAudio = None /\ assigning = None
  /\ assigning # None => inputAudio = None

Erases ==
  \A i \in Inputs : pc[i] = "clear" =>
    \A j \in Inputs \ torn : Live(j) => inputAudio # j /\ assigning # j

Quieted ==
  \A i \in Inputs \ torn : Live(i) =>
    i \in {inputAudio, assigning} /\ isTransmitting /\ ~muteMic

IInv == Shape /\ Stopped /\ Idle /\ Erases /\ Quieted

\* The microphone may be unmuted, or stays as it is.
NotMuted == muteMic' = muteMic \/ ~muteMic'
-----------------------------------------------------------------------------
LEMMA SameKeeps == IInv /\ NotMuted /\ Unchanged => IInv'
  BY DEF IInv, NotMuted, Unchanged, Shape, Stopped, Idle, Erases, Quieted, Live

\* After stopTransmit nobody listens: the mute may change.
LEMMA StopKeeps == IInv /\ assigning = None /\ stopTransmit => IInv'
<1> SUFFICES ASSUME IInv, assigning = None, stopTransmit PROVE IInv'
  OBVIOUS
<1> USE DEF IInv
<1>1. Shape'
  BY DEF Shape, stopTransmit, Unchanged
<1>2. Stopped'
  BY DEF Shape, Stopped, stopTransmit, Unchanged
<1>3. inputAudio' = None /\ assigning' = None
  BY DEF Idle, stopTransmit, Unchanged
<1>4. \A i \in Inputs \ torn' : ~Live(i)'
  <2>1. CASE isTransmitting
    BY <2>1, InputAssumption DEF Shape, Quieted, Live, stopTransmit
  <2>2. CASE ~isTransmitting
    BY <2>2 DEF Quieted, Live, stopTransmit, Unchanged
  <2> QED
    BY <2>1, <2>2
<1>5. Idle' /\ Erases' /\ Quieted'
  BY <1>3, <1>4 DEF Idle, Erases, Quieted
<1> QED
  BY <1>1, <1>2, <1>5

\* startTransmit creates an object only if nobody listens.
LEMMA StartKeeps ==
  ASSUME NEW locked \in BOOLEAN, IInv, assigning = None, NotMuted,
         startTransmit(muteMic', locked)
  PROVE  IInv'
<1> USE DEF IInv
<1>1. CASE Unchanged
  BY <1>1, SameKeeps
<1>2. ASSUME MayStart(muteMic'), isTransmitting' = TRUE, UNCHANGED stop_input
      PROVE  /\ \A j \in Inputs \ torn : ~Live(j)
             /\ inputAudio = None /\ ~muteMic'
  BY <1>2 DEF MayStart, Quieted, Idle
<1>3. CASE MayStart(muteMic') /\ isTransmitting' = TRUE /\ NoCodec /\ UNCHANGED stop_input
  BY <1>2, <1>3 DEF NoCodec, Shape, Stopped, Idle, Erases, Quieted, Live
<1>4. CASE MayStart(muteMic') /\ isTransmitting' = TRUE /\ NewInput(locked) /\ UNCHANGED stop_input
  <2>1. PICK i \in InState({"none"}), state \in {"read", "silent"} :
          /\ inputAudio' = IF locked THEN i ELSE inputAudio
          /\ assigning' = IF locked THEN None ELSE i
          /\ pc' = [pc EXCEPT ![i] = state]
          /\ torn' = IF InState({"clear"}) # {} THEN torn \cup {i} ELSE torn
    BY <1>4 DEF NewInput
  <2>2. i \in Inputs /\ pc[i] = "none"
    BY DEF InState
  <2>3. Shape' /\ Stopped'
    BY <1>4, <2>1, <2>2 DEF Shape, Stopped, Running
  <2>4. \A j \in Inputs \ torn' : Live(j)' => j = i
    BY <1>2, <1>4, <2>1, <2>2 DEF Shape, Live
  <2>5. Idle' /\ i \in {inputAudio', assigning'}
    BY <1>2, <1>4, <2>1 DEF Idle
  <2>6. Quieted'
    BY <1>2, <1>4, <2>4, <2>5 DEF Quieted
  <2>7. Erases'
    <3>1. ASSUME NEW k \in Inputs, pc'[k] = "clear" PROVE i \in torn'
      BY <2>1, <2>2, <3>1 DEF InState, Shape
    <3> QED
      BY <2>4, <3>1 DEF Erases
  <2> QED
    BY <2>3, <2>5, <2>6, <2>7
<1> QED
  BY <1>1, <1>3, <1>4 DEF startTransmit
-----------------------------------------------------------------------------
\* A thread that goes on: it may be told to stop, or finds that it was.
LEMMA ThreadKeeps ==
  ASSUME NEW i \in Inputs, IInv, pc[i] \in Running \ {"bye"},
         NEW l \in Running \ {"clear"}, pc' = [pc EXCEPT ![i] = l],
         stop_input' = stop_input \/ stop_input' = [stop_input EXCEPT ![i] = TRUE],
         l = "bye" => stop_input'[i],
         UNCHANGED <<guiVars, inputAudio, torn>>
  PROVE  IInv'
<1> USE DEF IInv
<1>1. Shape'
  BY DEF Shape
<1>2. \A j \in Inputs : (Live(j)' => Live(j)) /\ (stop_input[j] => stop_input'[j])
  BY DEF Shape, Live
<1>3. Stopped'
  BY <1>2 DEF Shape, Stopped
<1>4. \A j \in Inputs : pc'[j] = "clear" => pc[j] = "clear"
  BY DEF Shape
<1>5. Idle' /\ Erases' /\ Quieted'
  BY <1>2, <1>4 DEF guiVars, Idle, Erases, Quieted
<1> QED
  BY <1>1, <1>3, <1>5

LEMMA InputKeeps ==
  ASSUME NEW i \in Inputs, IInv, Input(i)
  PROVE  IInv'
<1> USE DEF Running
<1>0. pc[i] \in {"bye", "clear"} => stop_input[i]
  BY DEF IInv, Stopped
<1>1. CASE Read(i) \/ ReadFails(i)
  <2>1. stop_input' = stop_input \/ stop_input' = [stop_input EXCEPT ![i] = TRUE]
    BY <1>1 DEF Read, ReadFails
  <2>2. CASE Read(i) /\ ~stop_input[i]
    BY <2>2, ThreadKeeps DEF Read, Goto, history
  <2>3. CASE Read(i) /\ stop_input[i]
    BY <2>3, ThreadKeeps DEF Read, Goto, history
  <2>4. CASE ReadFails(i)
    <3>1. stop_input'[i]
      BY <2>4 DEF ReadFails, IInv, Shape
    <3> QED
      BY <2>4, <3>1, ThreadKeeps DEF ReadFails, Goto, history
  <2> QED
    BY <1>1, <2>2, <2>3, <2>4
<1>2. CASE Speak(i)
  BY <1>2, ThreadKeeps DEF Speak, Goto
<1>3. CASE Quiet(i)
  BY <1>3, ThreadKeeps DEF Quiet, Goto
<1>4. CASE Send(i)
  <2>1. stop_input' = stop_input \/ stop_input' = [stop_input EXCEPT ![i] = TRUE]
    BY <1>4 DEF Send, IInv, Shape
  <2> QED
    BY <1>4, <2>1, ThreadKeeps DEF Send, Goto
<1>5. CASE SendFails(i)
  BY <1>5, ThreadKeeps DEF SendFails, Goto
<1>6. CASE Bye(i)
  <2> USE DEF IInv
  <2>1. stop_input[i] /\ UNCHANGED <<guiVars, inputAudio, stop_input, torn>>
    BY <1>0, <1>6 DEF Bye
  <2>2. Shape' /\ Stopped'
    BY <1>6, <2>1 DEF Bye, Goto, Shape, Stopped
  <2>3. \A j \in Inputs : Live(j)' => Live(j) /\ j # i
    BY <1>6, <2>1 DEF Bye, Goto, Shape, Live
  <2>4. Idle' /\ Quieted'
    BY <2>1, <2>3 DEF guiVars, Idle, Quieted
  <2>5. Erases'
    <3>1. ASSUME NEW k \in Inputs, pc'[k] = "clear", NEW j \in Inputs \ torn, Live(j)'
          PROVE  inputAudio # j /\ assigning # j
      <4>1. Live(j) /\ j # i
        BY <2>3, <3>1
      <4>2. CASE k # i
        <5>1. pc[k] = "clear"
          BY <1>6, <3>1, <4>2 DEF Bye, Goto, Shape
        <5> QED
          BY <4>1, <5>1 DEF Erases
      <4>3. CASE k = i
        <5>1. inputAudio = i
          BY <1>6, <3>1, <4>3 DEF Bye, Goto, Shape
        <5> QED
          BY <4>1, <5>1, InputAssumption DEF Idle
      <4> QED
        BY <4>2, <4>3
    <3> QED
      BY <2>1, <3>1 DEF Erases, guiVars
  <2> QED
    BY <2>2, <2>4, <2>5
<1>7. CASE Clear(i)
  <2> USE DEF IInv
  <2>1. /\ stop_input[i] /\ pc[i] = "clear" /\ inputAudio' = None
        /\ pc' = [pc EXCEPT ![i] = "gone"] /\ UNCHANGED <<guiVars, stop_input, torn>>
    BY <1>0, <1>7 DEF Clear, Goto, history
  <2>2. Shape' /\ Stopped'
    BY <2>1 DEF Shape, Stopped
  <2>3. \A j \in Inputs : Live(j)' => Live(j)
    BY <2>1 DEF Shape, Live
  <2>4. \A j \in Inputs : pc'[j] = "clear" => pc[j] = "clear"
    BY <2>1 DEF Shape
  <2>5. Idle'
    BY <2>1 DEF guiVars, Idle
  <2>6. Erases'
    BY <2>1, <2>3, <2>4, InputAssumption DEF guiVars, Erases
  <2>7. Quieted'
    BY <2>1, <2>3 DEF guiVars, Erases, Quieted
  <2> QED
    BY <2>2, <2>5, <2>6, <2>7
<1> QED
  BY <1>1, <1>2, <1>3, <1>4, <1>5, <1>6, <1>7 DEF Input
-----------------------------------------------------------------------------
LEMMA GuiKeeps == IInv /\ Gui => IInv'
<1> SUFFICES ASSUME IInv, Gui PROVE IInv'
  OBVIOUS
<1>1. ASSUME NEW f, Pressed(f), assigning = None, UNCHANGED muteMic PROVE IInv'
  BY <1>1, StartKeeps DEF Pressed, NotMuted
<1>2. ASSUME NEW f, Released(f), assigning = None, UNCHANGED muteMic PROVE IInv'
  BY <1>2, StopKeeps, SameKeeps DEF Released, NotMuted
<1>3. CASE ToggleButton
  BY <1>1, <1>2, <1>3 DEF ToggleButton
<1>4. ASSUME NEW k \in Keys, CheckPushToTalk(k) PROVE IInv'
  BY <1>1, <1>2, <1>4, SameKeeps DEF CheckPushToTalk, NotMuted
<1>5. CASE CheckVoiceActivation
  BY <1>1, <1>2, <1>5 DEF CheckVoiceActivation
<1>6. CASE ToggleMuteMic
  <2>1. CASE muteMic'
    BY <1>6, <2>1, StopKeeps DEF ToggleMuteMic
  <2>2. CASE ~muteMic' /\ by # {}
    BY <1>6, <2>2, StartKeeps DEF ToggleMuteMic, NotMuted
  <2>3. CASE ~muteMic' /\ by = {}
    BY <1>6, <2>3, SameKeeps DEF ToggleMuteMic, NotMuted
  <2> QED
    BY <2>1, <2>2, <2>3
<1>7. CASE Assign
  <2> USE DEF IInv
  <2>1. /\ assigning # None /\ inputAudio' = assigning /\ assigning' = None
        /\ UNCHANGED <<pc, stop_input, isTransmitting, muteMic, torn>>
    BY <1>7 DEF Assign, threadVars, history
  <2>2. Shape' /\ Stopped' /\ Idle'
    BY <2>1 DEF Shape, Stopped, Idle
  <2>3. Erases'
    BY <2>1, InputAssumption DEF Erases, Live
  <2>4. Quieted'
    BY <2>1, InputAssumption DEF Quieted, Idle, Live
  <2> QED
    BY <2>2, <2>3, <2>4
<1> QED
  BY <1>3, <1>4, <1>5, <1>6, <1>7 DEF Gui

LEMMA SessionKeeps == IInv /\ Session => IInv'
<1> SUFFICES ASSUME IInv, Session PROVE IInv'
  OBVIOUS
<1>1. CASE Disconnect
  BY <1>1, StopKeeps DEF Disconnect
<1>2. CASE Login \/ LogoutQueue \/ LogoutClose
  <2>1. NotMuted /\ Unchanged
    BY <1>2 DEF Login, LogoutQueue, LogoutClose, NotMuted, Unchanged, guiVars, threadVars, history
  <2> QED
    BY <2>1, SameKeeps
<1> QED
  BY <1>1, <1>2 DEF Session

LEMMA InitHolds == Init => IInv
  BY DEF Init, IInv, Shape, Stopped, Idle, Erases, Quieted, Live, Running

LEMMA NextKeeps == IInv /\ [Next]_vars => IInv'
<1> SUFFICES ASSUME IInv, [Next]_vars PROVE IInv'
  OBVIOUS
<1>1. CASE Gui
  BY <1>1, GuiKeeps
<1>2. CASE Session
  BY <1>2, SessionKeeps
<1>3. ASSUME NEW i \in Inputs, Input(i) PROVE IInv'
  BY <1>3, InputKeeps
<1>4. CASE UNCHANGED vars
  <2>1. NotMuted /\ Unchanged
    BY <1>4 DEF vars, NotMuted, Unchanged, guiVars, threadVars, history
  <2> QED
    BY <2>1, SameKeeps
<1> QED
  BY <1>1, <1>2, <1>3, <1>4 DEF Next

LEMMA HotMic == IInv => NoHotMic
<1> SUFFICES ASSUME IInv, NEW i \in Inputs \ torn, Live(i)
             PROVE  i \in {inputAudio, assigning} /\ isTransmitting /\ ~muteMic
  BY DEF NoHotMic, Live
<1> QED
  BY DEF IInv, Quieted

\* A thread that listens is the one the GUI will stop, while the GUI
\* transmits and the microphone is not muted: mangler.cpp:848-888, 899-908.
THEOREM ListensWhenAsked == Spec => []NoHotMic
<1>1. Init => IInv
  BY InitHolds
<1>2. IInv /\ [Next]_vars => IInv'
  BY NextKeeps
<1>3. IInv => NoHotMic
  BY HotMic
<1> QED
  BY <1>1, <1>2, <1>3, PTL DEF Spec
-----------------------------------------------------------------------------
(* Bracketed.  Whatever threads overlap: the one that stops speaking, in    *)
(* its pause or at its end, says so, and one that speaks still vouches for  *)
(* what is on the wire.  With one thread, what is open on the wire was      *)
(* opened by it, and it knows.                                              *)

\* Only an object that runs, and has not said goodbye, speaks.
Speaking ==
  /\ pc \in [Inputs -> Running \cup {"none", "silent", "gone"}]
  /\ xmit \in [Inputs -> BOOLEAN]
  /\ {astray, lost, unheard, overlap, late} \subseteq BOOLEAN
  /\ \A i \in Inputs : /\ xmit[i] => pc[i] \in Running \ {"clear"}
                       /\ pc[i] = "send" => xmit[i]

Silence == \A i \in Inputs : ~xmit[i]
Open    == wire \notin {"nothing", "stop"}

\* Told: the first part of Bracketed.
Told == loggedin /\ ~unheard /\ Silence => ~Open

\* While the server is told what happens, the wire is open if somebody speaks.
Alone == \A i, j \in Inputs : pc[i] \in Running /\ pc[j] \in Running => i = j
Heard == loggedin => (Open <=> ~Silence)
Tidy  == ~late /\ ~overlap => Alone /\ (~lost => ~astray /\ Heard)

BInv == Speaking /\ Told /\ Tidy
-----------------------------------------------------------------------------
\* A step that is not heard, and starts no thread.
LEMMA UnheardKeeps ==
  ASSUME BInv, UNCHANGED <<pc, xmit, pipeVars, overlap, late>>, loggedin' => loggedin
  PROVE  BInv'
  BY DEF BInv, Speaking, Told, Tidy, Alone, Heard, Silence, Open, pipeVars

\* A new object is the only one that runs, or overlaps.
LEMMA CreateKeeps ==
  ASSUME BInv, NEW locked, NewInput(locked), UNCHANGED <<session, xmit, pipeVars, late>>
  PROVE  BInv'
<1>1. PICK i \in InState({"none"}), state \in {"read", "silent"} :
        /\ pc' = [pc EXCEPT ![i] = state]
        /\ overlap' = (overlap \/ InState(Running) # {})
  BY DEF NewInput
<1>2. i \in Inputs /\ pc[i] = "none"
  BY DEF InState
<1>3. Speaking'
  BY <1>1, <1>2 DEF BInv, Speaking, Running, pipeVars
<1>4. Told'
  BY DEF BInv, Told, Silence, Open, loggedin, pipeVars
<1>5. ASSUME ~late', ~overlap' PROVE Alone' /\ (~lost' => ~astray' /\ Heard')
  <2>1. ~late /\ ~overlap /\ \A j \in Inputs : pc[j] \notin Running
    BY <1>1, <1>5 DEF InState
  <2>2. Alone'
    BY <1>1, <1>2, <2>1 DEF Alone, BInv, Speaking
  <2> QED
    BY <2>1, <2>2 DEF BInv, Tidy, Heard, Silence, Open, loggedin, pipeVars
<1> QED
  BY <1>3, <1>4, <1>5 DEF BInv, Tidy

\* What v3_start_audio, v3_send_audio and v3_stop_audio do, told by a thread that
\* speaks afterwards if b is TRUE.
Says(i, b) ==
  \/ UNCHANGED pipeVars /\ (loggedin => b = xmit[i])
  \/ /\ loggedin
     /\ \E kind \in {"start", "audio", "stop"} :
          /\ Accepted(kind) \/ Refused(kind)
          /\ b <=> kind # "stop"
          /\ xmit[i] <=> kind # "start"

\* One thread takes a step, and what it says fits what it knows.
LEMMA ThreadHeard ==
  ASSUME BInv, NEW i \in Inputs, pc[i] \in Running,
         NEW l \in Running \cup {"gone"}, pc' = [pc EXCEPT ![i] = l],
         NEW b \in BOOLEAN, xmit' = [xmit EXCEPT ![i] = b],
         b => l \in Running \ {"clear"}, l = "send" => b,
         UNCHANGED <<session, overlap, late>>, Says(i, b)
  PROVE  BInv'
<1>0. loggedin' = loggedin
  BY DEF loggedin
<1>1. Speaking'
  <2>1. {astray', lost', unheard'} \subseteq BOOLEAN
    BY DEF BInv, Speaking, Says, Accepted, Refused, Fits, pipeVars
  <2> QED
    BY <2>1 DEF BInv, Speaking
<1>2. xmit'[i] = b /\ \A j \in Inputs : j # i => xmit'[j] = xmit[j]
  BY DEF BInv, Speaking
<1>3. Told'
  <2> SUFFICES ASSUME loggedin, ~unheard', Silence' PROVE ~Open'
    BY <1>0 DEF Told
  <2>1. b = FALSE
    BY <1>2 DEF Silence
  <2>2. CASE UNCHANGED pipeVars /\ b = xmit[i]
    <3>1. Silence
      BY <1>2, <2>1, <2>2 DEF Silence
    <3> QED
      BY <2>2, <3>1 DEF BInv, Told, Open, pipeVars
  <2>3. CASE Accepted("stop") \/ Refused("stop")
    BY <2>3 DEF Accepted, Refused, Open
  <2> QED
    BY <2>1, <2>2, <2>3 DEF Says
<1>4. ASSUME ~late, ~overlap PROVE Alone' /\ (~lost' => ~astray' /\ Heard')
  <2>1. Alone
    BY <1>4 DEF BInv, Tidy
  <2>2. Alone'
    BY <2>1 DEF Alone, BInv, Speaking
  <2>3. \A j \in Inputs : xmit[j] => j = i
    BY <2>1 DEF Alone, BInv, Speaking
  <2>4. (Silence <=> ~xmit[i]) /\ (Silence' <=> ~b)
    BY <1>2, <2>3 DEF Silence
  <2>5. ASSUME ~lost' PROVE ~astray' /\ Heard'
    <3>1. ~lost
      BY <2>5 DEF BInv, Speaking, Says, Accepted, Refused, pipeVars
    <3>2. ~astray /\ Heard
      BY <1>4, <3>1 DEF BInv, Tidy
    <3>3. CASE UNCHANGED pipeVars /\ (loggedin => b = xmit[i])
      BY <1>0, <2>4, <3>2, <3>3 DEF Heard, Open, pipeVars
    <3>4. ASSUME loggedin, NEW kind \in {"start", "audio", "stop"}, Accepted(kind) \/ Refused(kind),
                 b <=> kind # "stop", xmit[i] <=> kind # "start"
          PROVE  ~astray' /\ Heard'
      <4>1. Open <=> kind # "start"
        BY <2>4, <3>2, <3>4 DEF Heard
      <4>2. CASE Accepted(kind)
        <5>1. ~astray'
          BY <3>2, <4>1, <4>2 DEF Accepted, Fits, Open
        <5>2. Open' <=> b
          BY <3>4, <4>2 DEF Accepted, Open
        <5> QED
          BY <2>4, <5>1, <5>2 DEF Heard
      <4>3. CASE Refused(kind)
        <5>1. kind = "audio" /\ UNCHANGED <<wire, astray>>
          BY <2>5, <4>3 DEF Refused
        <5> QED
          BY <2>4, <3>2, <3>4, <4>1, <5>1 DEF Heard, Open
      <4> QED
        BY <3>4, <4>2, <4>3
    <3> QED
      BY <3>3, <3>4 DEF Says
  <2> QED
    BY <2>2, <2>5
<1> QED
  BY <1>1, <1>3, <1>4 DEF BInv, Tidy

LEMMA InputHeard ==
  ASSUME BInv, NEW i \in Inputs, Input(i)
  PROVE  BInv'
<1> USE DEF Running
<1>0. /\ pc \in [Inputs -> Running \cup {"none", "silent", "gone"}]
      /\ xmit \in [Inputs -> BOOLEAN]
      /\ pc[i] = "send" => xmit[i]
      /\ xmit[i] => pc[i] # "clear"
  BY DEF BInv, Speaking
<1>1. CASE Read(i) \/ ReadFails(i)
  <2>1. /\ UNCHANGED <<xmit, pipeVars, session, overlap, late>> /\ pc[i] = "read"
        /\ \E l \in {"bye", "voice"} : pc' = [pc EXCEPT ![i] = l]
    BY <1>1 DEF Read, ReadFails, Goto, history, sessionVars
  <2>2. xmit' = [xmit EXCEPT ![i] = xmit[i]] /\ Says(i, xmit[i])
    BY <1>0, <2>1 DEF Says
  <2> QED
    BY <1>0, <2>1, <2>2, ThreadHeard
<1>2. CASE Speak(i)
  <2>1. /\ UNCHANGED <<session, overlap, late>> /\ pc[i] = "voice"
        /\ \E l \in {"send"} : pc' = [pc EXCEPT ![i] = l]
        /\ xmit' = [xmit EXCEPT ![i] = TRUE]
    BY <1>2 DEF Speak, Goto, sessionVars
  <2>2. Says(i, TRUE)
    <3>1. CASE xmit[i]
      BY <1>0, <1>2, <3>1 DEF Speak, Says
    <3>2. CASE ~xmit[i]
      BY <1>2, <3>2 DEF Speak, Says, Write
    <3> QED
      BY <3>1, <3>2
  <2> QED
    BY <2>1, <2>2, ThreadHeard
<1>3. CASE Quiet(i) \/ Bye(i)
  <2>1. /\ UNCHANGED <<session, overlap, late>> /\ pc[i] \in Running
        /\ \E l \in {"read", "clear", "gone"} : pc' = [pc EXCEPT ![i] = l]
        /\ xmit' = [xmit EXCEPT ![i] = FALSE]
    BY <1>3 DEF Quiet, Bye, Goto, sessionVars
  <2>2. Says(i, FALSE)
    <3>1. CASE xmit[i]
      BY <1>3, <3>1 DEF Quiet, Bye, Says, Write
    <3>2. CASE ~xmit[i]
      BY <1>0, <1>3, <3>2 DEF Quiet, Bye, Says
    <3> QED
      BY <3>1, <3>2
  <2> QED
    BY <2>1, <2>2, ThreadHeard
<1>4. CASE Send(i) \/ SendFails(i)
  <2>1. /\ UNCHANGED <<session, overlap, late, xmit>> /\ pc[i] = "send" /\ xmit[i]
        /\ \E l \in {"read"} : pc' = [pc EXCEPT ![i] = l]
    BY <1>0, <1>4 DEF Send, SendFails, Goto, sessionVars
  <2>2. Says(i, TRUE)
    BY <1>0, <1>4, <2>1 DEF Send, SendFails, Says, Write
  <2>3. xmit' = [xmit EXCEPT ![i] = TRUE]
    BY <1>0, <2>1
  <2> QED
    BY <2>1, <2>2, <2>3, ThreadHeard
<1>5. CASE Clear(i)
  <2>1. /\ UNCHANGED <<session, overlap, late, xmit, pipeVars>> /\ pc[i] = "clear" /\ ~xmit[i]
        /\ \E l \in {"gone"} : pc' = [pc EXCEPT ![i] = l]
    BY <1>0, <1>5 DEF Clear, Goto, sessionVars, history
  <2>2. xmit' = [xmit EXCEPT ![i] = FALSE] /\ Says(i, FALSE)
    BY <1>0, <2>1 DEF Says
  <2> QED
    BY <2>1, <2>2, ThreadHeard
<1> QED
  BY <1>1, <1>2, <1>3, <1>4, <1>5 DEF Input

LEMMA GuiHeard == BInv /\ Gui => BInv'
<1> SUFFICES ASSUME BInv, Gui PROVE BInv'
  OBVIOUS
<1>1. UNCHANGED <<session, xmit, pipeVars, late>>
  BY DEF Gui, ToggleButton, CheckPushToTalk, CheckVoiceActivation, ToggleMuteMic, Assign,
         sessionVars, threadVars, history
<1>2. UNCHANGED <<pc, overlap>> \/ \E locked \in BOOLEAN : NewInput(locked)
  <2>1. stopTransmit \/ Unchanged => UNCHANGED <<pc, overlap>>
    BY DEF stopTransmit, Unchanged
  <2>2. ASSUME NEW m, NEW locked \in BOOLEAN, startTransmit(m, locked)
        PROVE  UNCHANGED <<pc, overlap>> \/ NewInput(locked)
    BY <2>2 DEF startTransmit, NoCodec, Unchanged
  <2>3. ASSUME NEW f, Pressed(f) \/ Released(f) \/ Unchanged
        PROVE  UNCHANGED <<pc, overlap>> \/ \E locked \in BOOLEAN : NewInput(locked)
    BY <2>1, <2>2, <2>3 DEF Pressed, Released
  <2>4. CASE Assign
    BY <2>4 DEF Assign, threadVars, history
  <2>5. CASE ToggleMuteMic
    BY <2>1, <2>2, <2>5 DEF ToggleMuteMic
  <2>6. CASE ToggleButton \/ (\E k \in Keys : CheckPushToTalk(k)) \/ CheckVoiceActivation
    BY <2>3, <2>6 DEF ToggleButton, CheckPushToTalk, CheckVoiceActivation
  <2> QED
    BY <2>4, <2>5, <2>6 DEF Gui
<1> QED
  BY <1>1, <1>2, CreateKeeps, UnheardKeeps DEF loggedin

LEMMA SessionHeard == BInv /\ Session => BInv'
<1> SUFFICES ASSUME BInv, Session PROVE BInv'
  OBVIOUS
<1>1. CASE Login
  <2>1. /\ wire' = "nothing" /\ astray' = FALSE /\ lost' = FALSE /\ unheard' = FALSE
        /\ late' = (late \/ InState(Running) # {})
        /\ UNCHANGED <<pc, xmit, overlap>>
    BY <1>1 DEF Login, threadVars
  <2>2. Speaking' /\ Told'
    BY <2>1 DEF BInv, Speaking, Told, Open
  <2>3. ASSUME ~late', ~overlap' PROVE Alone' /\ ~astray' /\ Heard'
    <3>1. \A j \in Inputs : pc[j] \notin Running
      BY <2>1, <2>3 DEF InState
    <3>2. Alone' /\ Silence'
      BY <2>1, <3>1 DEF Alone, BInv, Speaking, Silence
    <3> QED
      BY <2>1, <3>2 DEF Heard, Open
  <2> QED
    BY <2>2, <2>3 DEF BInv, Tidy
<1>2. CASE LogoutQueue \/ LogoutClose
  <2>1. UNCHANGED <<pc, xmit, pipeVars, overlap, late>> /\ (loggedin' => loggedin)
    BY <1>2 DEF LogoutQueue, LogoutClose, threadVars, history, loggedin
  <2> QED
    BY <2>1, UnheardKeeps
<1>3. CASE Disconnect
  <2>1. UNCHANGED <<pc, xmit, pipeVars, overlap, late>> /\ (loggedin' => loggedin)
    BY <1>3 DEF Disconnect, stopTransmit, Unchanged, loggedin
  <2> QED
    BY <2>1, UnheardKeeps
<1> QED
  BY <1>1, <1>2, <1>3 DEF Session

\* However many threads overlap, and although writes are lost, the server is told
\* when the last of them has stopped speaking; and of each speech where it begins
\* and where it ends, whichever way a lone thread takes through input()
\* (mangleraudio.cpp:291-352).
THEOREM SpeechIsBracketed == Spec => []Bracketed
<1>1. Init => BInv
  BY DEF Init, BInv, Speaking, Told, Tidy, Alone, Heard, Silence, Open, Running, loggedin
<1>2. BInv /\ [Next]_vars => BInv'
  <2> SUFFICES ASSUME BInv, [Next]_vars PROVE BInv'
    OBVIOUS
  <2>1. CASE UNCHANGED vars
    BY <2>1, UnheardKeeps DEF vars, sessionVars, threadVars, history, loggedin
  <2> QED
    BY <2>1, GuiHeard, SessionHeard, InputHeard DEF Next
<1>3. BInv => Bracketed
  BY DEF BInv, Told, Tidy, Silence, Open, Bracketed, Speaking
<1> QED
  BY <1>1, <1>2, <1>3, PTL DEF Spec
=============================================================================
