------------------------------ MODULE AudioInput ------------------------------
(***************************************************************************)
(* Speaking: the transmit button, push to talk, voice activation and the   *)
(* microphone mute of mangler.cpp, and the thread of mangleraudio.cpp that *)
(* reads the microphone.                                                   *)
(*                                                                         *)
(* Each way to speak has a flag; startTransmit and stopTransmit are called *)
(* from the button and from timers that look at keys and settings every    *)
(* 100 ms.  They create a ManglerAudio or tell it to stop; it ends when    *)
(* its thread finds out.  The timers run without the gdk lock, which the   *)
(* thread takes when it uses what is shared.                               *)
(***************************************************************************)
EXTENDS Integers

CONSTANTS
  Keys,         (* push to talk: the keyboard, the mouse                    *)
  Inputs,       (* bound: ManglerAudio objects that will be created         *)
  None,         (* no object                                                *)
  MaxSessions,  (* bound: logins                                            *)
  MaxFails      (* bound: failures of the microphone, missing codecs, writes *)
                (* to a full pipe                                           *)

ASSUME InputAssumption ==
  /\ None \notin Inputs /\ Keys \cap {"Button", "VA"} = {}
  /\ MaxSessions \in Nat /\ MaxFails \in Nat

VARIABLES
  session, logins, (* as in AudioOutput                                     *)
  muteMic,
  by,          (* the flags isTransmittingButton, Key, Mouse, VA that are set *)
  isTransmitting,
  inputAudio,
  assigning,   (* the object a timer has created and not yet put there      *)
  pc, stop_input, xmit, (* the thread of each object and its variables      *)
  fails,
  wire,        (* history: the last thing written to the pipe in this       *)
               (* session                                                   *)
  astray,      (* history: something written in it did not fit what was     *)
               (* written before                                            *)
  lost,        (* history: the pipe was full for a start or a stop in it    *)
  unheard,     (* history: and for the last stop                            *)
  overlap,     (* history: an object was created beside one still running   *)
  late,        (* history: a thread was still running at a login            *)
  torn         (* history: objects created while a thread that ended by     *)
               (* itself was about to clear inputAudio                      *)

sessionVars == <<session, logins>>
guiVars     == <<muteMic, by, isTransmitting, assigning>>
threadVars  == <<pc, stop_input, xmit>>
pipeVars    == <<wire, astray, lost, unheard>>
history     == <<pipeVars, overlap, late, torn>>
vars        == <<sessionVars, guiVars, inputAudio, threadVars, fails, history>>

loggedin == session \in {"up", "ending", "noticed"}
Running  == {"read", "voice", "send", "bye", "clear"}

TypeOK ==
  /\ session \in {"down", "up", "ending", "closed", "noticed"} /\ logins \in Nat
  /\ muteMic \in BOOLEAN /\ by \subseteq Keys \cup {"Button", "VA"}
  /\ isTransmitting \in BOOLEAN /\ {inputAudio, assigning} \subseteq Inputs \cup {None}
  /\ pc \in [Inputs -> Running \cup {"none", "silent", "gone"}]
  /\ stop_input \in [Inputs -> BOOLEAN] /\ xmit \in [Inputs -> BOOLEAN]
  /\ fails \in Nat
  /\ wire \in {"nothing", "start", "audio", "stop"}
  /\ astray \in BOOLEAN /\ lost \in BOOLEAN /\ unheard \in BOOLEAN
  /\ overlap \in BOOLEAN /\ late \in BOOLEAN /\ torn \subseteq Inputs

Init ==
  /\ session = "down" /\ logins = 0
  /\ muteMic = FALSE /\ by = {} /\ isTransmitting = FALSE /\ inputAudio = None /\ assigning = None
  /\ pc = [i \in Inputs |-> "none"]
  /\ stop_input = [i \in Inputs |-> FALSE] /\ xmit = [i \in Inputs |-> FALSE]
  /\ fails = 0
  /\ wire = "nothing" /\ astray = FALSE /\ lost = FALSE /\ unheard = FALSE
  /\ overlap = FALSE /\ late = FALSE /\ torn = {}
-----------------------------------------------------------------------------
(* startTransmit and stopTransmit.                                         *)

InState(states) == {i \in Inputs : pc[i] \in states}

Unchanged == UNCHANGED <<isTransmitting, inputAudio, assigning, pc, stop_input, fails, overlap, torn>>

\* The object is created and its thread started, or the device does not open.
\* Only a caller with the gdk lock assigns it before the thread can end.
NewInput(locked) ==
  \E i \in InState({"none"}), state \in {"read", "silent"} :
    /\ i = CHOOSE j \in InState({"none"}) : TRUE
    /\ inputAudio' = IF locked THEN i ELSE inputAudio
    /\ assigning' = IF locked THEN None ELSE i
    /\ pc' = [pc EXCEPT ![i] = state]
    /\ fails' = IF state = "silent" THEN fails + 1 ELSE fails
    /\ fails' <= MaxFails
    /\ overlap' = (overlap \/ InState(Running) # {})
    /\ torn' = IF InState({"clear"}) # {} THEN torn \cup {i} ELSE torn

\* The channel has no codec that is supported: only the flag is set.
NoCodec ==
  /\ fails < MaxFails
  /\ fails' = fails + 1
  /\ UNCHANGED <<inputAudio, assigning, pc, overlap, torn>>

MayStart(muted) == loggedin /\ ~muted /\ ~isTransmitting

\* Once _v3_logout has destroyed the lists v3_get_user finds nobody.
startTransmit(muted, locked) ==
  \/ (~MayStart(muted) \/ session # "up") /\ Unchanged
  \/ /\ MayStart(muted)
     /\ isTransmitting' = TRUE
     /\ NewInput(locked) \/ NoCodec
     /\ UNCHANGED stop_input

\* finish() on the object sets stop_input if it has a thread that runs.  One that
\* has just ended by itself may clear inputAudio after the test: then the client
\* crashes here, and no step follows.
stopTransmit ==
  IF isTransmitting
  THEN /\ isTransmitting' = FALSE
       /\ inputAudio' = None
       /\ stop_input' = [i \in Inputs |-> stop_input[i] \/ (i = inputAudio /\ pc[i] \in Running)]
       /\ UNCHANGED <<assigning, pc, fails, overlap, torn>>
  ELSE Unchanged
-----------------------------------------------------------------------------
(* The GUI.  Keys are pressed and settings changed at any time: what a     *)
(* timer or a thread finds when it looks is chosen then.                   *)

\* One flag is cleared; no other one being set, stopTransmit is called.
Released(f) ==
  /\ by' = by \ {f}
  /\ IF by' = {} THEN stopTransmit ELSE Unchanged

Pressed(f) ==
  /\ by' = by \cup {f}
  /\ startTransmit(muteMic, f = "Button")

\* xmitButton_toggled_cb
ToggleButton ==
  /\ assigning = None
  /\ IF "Button" \in by THEN Released("Button") ELSE Pressed("Button")
  /\ UNCHANGED <<sessionVars, muteMic, xmit, pipeVars, late>>

\* checkPushToTalkKeys, checkPushToTalkMouse: it is down, up, or disabled; then
\* it loses its flag and nothing else happens.
CheckPushToTalk(k) ==
  /\ assigning = None
  /\ Pressed(k) \/ Released(k) \/ (by' = by \ {k} /\ Unchanged)
  /\ UNCHANGED <<sessionVars, muteMic, xmit, pipeVars, late>>

\* Mutant: as for a key that is disabled.
CheckVoiceKeeps ==
  /\ assigning = None
  /\ Pressed("VA") \/ (by' = by \ {"VA"} /\ Unchanged)
  /\ UNCHANGED <<sessionVars, muteMic, xmit, pipeVars, late>>

\* checkVoiceActivation: it is enabled or not.
CheckVoiceActivation ==
  /\ assigning = None
  /\ Released("VA") \/ Pressed("VA")
  /\ UNCHANGED <<sessionVars, muteMic, xmit, pipeVars, late>>

\* Mutant: the mute only keeps speech from starting.
MuteKeeps ==
  /\ assigning = None
  /\ muteMic' = ~muteMic
  /\ IF by # {} THEN startTransmit(muteMic', TRUE) ELSE Unchanged
  /\ UNCHANGED <<sessionVars, by, xmit, pipeVars, late>>

\* muteMicCheckButton_toggled_cb
ToggleMuteMic ==
  /\ assigning = None
  /\ muteMic' = ~muteMic
  /\ IF muteMic' THEN stopTransmit
     ELSE IF by # {} THEN startTransmit(muteMic', TRUE) ELSE Unchanged
  /\ UNCHANGED <<sessionVars, by, xmit, pipeVars, late>>

Assign ==
  /\ assigning # None
  /\ inputAudio' = assigning /\ assigning' = None
  /\ UNCHANGED <<sessionVars, muteMic, by, isTransmitting, threadVars, fails, history>>

Gui == \/ ToggleButton \/ (\E k \in Keys : CheckPushToTalk(k)) \/ CheckVoiceActivation
       \/ ToggleMuteMic \/ Assign
-----------------------------------------------------------------------------
(* The thread of an object: input().                                       *)

Goto(i, l) == pc' = [pc EXCEPT ![i] = l]

\* The server expects audio between a start and a stop, and a stop before the
\* next start.
Fits(kind) == (kind = "start") <=> (wire \in {"nothing", "stop"})

\* v3_start_audio, v3_send_audio and v3_stop_audio write if the flag is set; the
\* event is lost if the pipe is full, and they do not say so.
Accepted(kind) ==
  /\ wire' = kind
  /\ astray' = (astray \/ ~Fits(kind))
  /\ unheard' = (unheard /\ kind # "stop")
  /\ lost' = lost

Refused(kind) ==
  /\ UNCHANGED <<wire, astray>>
  /\ unheard' = (unheard \/ kind = "stop")
  /\ lost' = (lost \/ kind # "audio")

Write(kind) ==
  \/ ~loggedin /\ UNCHANGED <<pipeVars, fails>>
  \/ loggedin /\ Accepted(kind) /\ UNCHANGED fails
  \/ loggedin /\ Refused(kind) /\ fails < MaxFails /\ fails' = fails + 1

\* Frames for 0.115 s; stop_input is tested before them and behind them.
Read(i) ==
  /\ pc[i] = "read"
  /\ Goto(i, IF stop_input[i] THEN "bye" ELSE "voice")
  /\ UNCHANGED <<sessionVars, guiVars, inputAudio, stop_input, xmit, fails, history>>

ReadFails(i) ==
  /\ pc[i] = "read" /\ fails < MaxFails
  /\ fails' = fails + 1
  /\ stop_input' = [stop_input EXCEPT ![i] = TRUE]
  /\ Goto(i, "bye")
  /\ UNCHANGED <<sessionVars, guiVars, inputAudio, xmit, history>>

\* Under the gdk lock, speech begins or goes on: a key is held, or voice
\* activation is enabled and it is loud, or not quiet for long enough.
Speak(i) ==
  /\ pc[i] = "voice"
  /\ xmit' = [xmit EXCEPT ![i] = TRUE]
  /\ IF xmit[i] THEN UNCHANGED <<pipeVars, fails>> ELSE Write("start")
  /\ Goto(i, "send")
  /\ UNCHANGED <<sessionVars, guiVars, inputAudio, stop_input, overlap, late, torn>>

\* Only voice activation decides.
Quiet(i) ==
  /\ pc[i] = "voice" /\ by \ {"VA"} = {}
  /\ xmit' = [xmit EXCEPT ![i] = FALSE]
  /\ IF xmit[i] THEN Write("stop") ELSE UNCHANGED <<pipeVars, fails>>
  /\ Goto(i, "read")
  /\ UNCHANGED <<sessionVars, guiVars, inputAudio, stop_input, overlap, late, torn>>

\* After the lock is released.  v3_send_audio returns 0 if not logged in.
Send(i) ==
  /\ pc[i] = "send"
  /\ Write("audio")
  /\ stop_input' = [stop_input EXCEPT ![i] = @ \/ ~loggedin]
  /\ Goto(i, "read")
  /\ UNCHANGED <<sessionVars, guiVars, inputAudio, xmit, overlap, late, torn>>

\* Another rate is asked for, and the device does not open with it; or the
\* resampler fails.  The audio may have been written.
SendFails(i) ==
  /\ pc[i] = "send" /\ loggedin /\ fails < MaxFails
  /\ Accepted("audio") \/ UNCHANGED pipeVars
  /\ fails' = fails + 1
  /\ stop_input' = [stop_input EXCEPT ![i] = TRUE]
  /\ Goto(i, "read")
  /\ UNCHANGED <<sessionVars, guiVars, inputAudio, xmit, overlap, late, torn>>

\* Mutant: the server is not told.
ByeSilently(i) ==
  /\ pc[i] = "bye"
  /\ xmit' = [xmit EXCEPT ![i] = FALSE]
  /\ Goto(i, IF inputAudio = i THEN "clear" ELSE "gone")
  /\ UNCHANGED <<sessionVars, guiVars, inputAudio, stop_input, fails, history>>

\* The end: v3_stop_audio if it was speaking; inputAudio is compared with this.
Bye(i) ==
  /\ pc[i] = "bye"
  /\ xmit' = [xmit EXCEPT ![i] = FALSE]
  /\ IF xmit[i] THEN Write("stop") ELSE UNCHANGED <<pipeVars, fails>>
  /\ Goto(i, IF inputAudio = i THEN "clear" ELSE "gone")
  /\ UNCHANGED <<sessionVars, guiVars, inputAudio, stop_input, overlap, late, torn>>

\* And cleared, whatever it is by now.
Clear(i) ==
  /\ pc[i] = "clear"
  /\ inputAudio' = None
  /\ Goto(i, "gone")
  /\ UNCHANGED <<sessionVars, guiVars, stop_input, xmit, fails, history>>

Input(i) == Read(i) \/ ReadFails(i) \/ Speak(i) \/ Quiet(i)
              \/ Send(i) \/ SendFails(i) \/ Bye(i) \/ Clear(i)
-----------------------------------------------------------------------------
(* The session.                                                            *)

Login ==
  /\ session = "down" /\ logins < MaxSessions
  /\ session' = "up" /\ logins' = logins + 1
  /\ wire' = "nothing" /\ astray' = FALSE /\ lost' = FALSE /\ unheard' = FALSE
  /\ late' = (late \/ InState(Running) # {})
  /\ UNCHANGED <<guiVars, inputAudio, threadVars, fails, overlap, torn>>

\* _v3_logout: DISCONNECT is queued, later the flag is cleared.
LogoutQueue ==
  /\ session = "up"
  /\ session' = "ending"
  /\ UNCHANGED <<logins, guiVars, inputAudio, threadVars, fails, history>>

LogoutClose ==
  /\ session \in {"ending", "noticed"}
  /\ session' = IF session = "ending" THEN "closed" ELSE "down"
  /\ UNCHANGED <<logins, guiVars, inputAudio, threadVars, fails, history>>

\* onDisconnectHandler: the flags are cleared and stopTransmit is called.
Disconnect ==
  /\ session \in {"ending", "closed"} /\ assigning = None
  /\ session' = IF session = "ending" THEN "noticed" ELSE "down"
  /\ by' = {}
  /\ stopTransmit
  /\ UNCHANGED <<logins, muteMic, xmit, pipeVars, late>>

Session == Login \/ LogoutQueue \/ LogoutClose \/ Disconnect
-----------------------------------------------------------------------------
Next == \/ Gui \/ Session
        \/ \E i \in Inputs : Input(i)

Spec == Init /\ [][Next]_vars

\* The timer of voice activation, which returns, and the threads.  A timer that
\* finds voice activation enabled sets its flag, and nothing has to follow.
VoiceIsOff == CheckVoiceActivation /\ "VA" \notin by'

FairSpec == Spec /\ WF_vars(VoiceIsOff) /\ WF_vars(Assign) /\ \A i \in Inputs : WF_vars(Input(i))
-----------------------------------------------------------------------------
(* Properties.                                                             *)

\* No microphone is open behind the user's back: a thread that has not been
\* told to stop is the one in inputAudio, while the GUI transmits and the
\* microphone is not muted.  The exception is an object that a dying thread
\* erased from inputAudio.
NoHotMic ==
  \A i \in Inputs : pc[i] \in Running /\ ~stop_input[i] /\ i \notin torn
                      => i \in {inputAudio, assigning} /\ isTransmitting /\ ~muteMic

\* The server is not left to believe that the user speaks: while no thread does,
\* the last thing written in the session is a stop, however many threads spoke
\* beside each other or began in the session before, unless the pipe was full for
\* the last stop.  If threads neither overlapped nor outlived a session, and
\* neither a start nor a stop was lost, then audio comes between a start and a stop,
\* and a stop before the next start.
Bracketed ==
  /\ loggedin /\ ~unheard /\ (\A i \in Inputs : ~xmit[i]) => wire \in {"nothing", "stop"}
  /\ ~late /\ ~overlap /\ ~lost => ~astray

\* When every way to speak has been released, or was disabled while it was in
\* use, the microphone is closed.
ReleaseIsHeard ==
  \A i \in Inputs : (pc[i] \in Running /\ by = {})
                      ~> (pc[i] = "gone" \/ by # {} \/ i \in torn)
=============================================================================
