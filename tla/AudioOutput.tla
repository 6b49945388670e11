----------------------------- MODULE AudioOutput -----------------------------
(***************************************************************************)
(* What is heard of the other users: mangleraudio.cpp, and the events of   *)
(* mangler.cpp that open, feed and finish a stream.                        *)
(*                                                                         *)
(* Each user who speaks has a ManglerAudio in outputAudio, with a queue    *)
(* and a thread of its own.  The GUI puts the audio on the queue; the      *)
(* thread collects some of it, plays it, and deletes the object when it    *)
(* meets a piece of length 0, when it can no longer write, or when the     *)
(* session is over.  Nobody waits for it.                                  *)
(***************************************************************************)
EXTENDS Integers, Sequences

CONSTANTS
  Users,
  Streams,     (* bound: ManglerAudio objects that will be created          *)
  None,        (* no stream                                                 *)
  Prefill,     (* pieces to collect before playing (buffer, 4 by default)   *)
  MaxPieces,   (* bound: audio events                                       *)
  MaxSessions, (* bound: logins                                             *)
  MaxFails     (* bound: failures of the audio system                       *)

ASSUME AudioAssumption ==
  /\ None \notin Streams
  /\ Prefill \in Nat /\ MaxPieces \in Nat /\ MaxSessions \in Nat /\ MaxFails \in Nat

VARIABLES
  session,   (* where the session and its DISCONNECT event are, see below   *)
  logins,
  held,      (* outputAudio                                                 *)
  muteSound,
  pc,        (* the thread of each stream                                   *)
  buffer,    (* pieces it has yet to collect                                *)
  queue,     (* pcm_queue: pieces by number, 0 for one of length 0          *)
  queuedpcm, (* what it has collected or is about to write                  *)
  fails,
  queued,    (* history: pieces given to each stream                        *)
  out,       (* history: pieces played, or thrown away because of the mute  *)
  finished,  (* history: streams the GUI has finished                       *)
  byItself   (* history: streams that ended before they met a 0             *)

sessionVars == <<session, logins>>
threadVars  == <<pc, buffer, queue, queuedpcm, out, byItself, fails>>
guiVars     == <<held, muteSound, queued, finished>>
vars        == <<sessionVars, guiVars, threadVars>>

\* "ending": DISCONNECT is queued, the login flag still set.  "closed": the
\* flag is cleared as well.  "noticed": the GUI took the event first.
SessionStates == {"down", "up", "ending", "closed", "noticed"}
loggedin == session \in {"up", "ending", "noticed"}

\* "none": not created.  "silent": the device could not be opened, no thread.
PCs == {"none", "silent", "top", "prefill", "take", "write", "end", "drain", "gone"}

TypeOK ==
  /\ session \in SessionStates /\ logins \in Nat
  /\ held \in [Users -> Streams \cup {None}]
  /\ muteSound \in BOOLEAN
  /\ pc \in [Streams -> PCs]
  /\ buffer \in [Streams -> 0..Prefill]
  /\ queue \in [Streams -> Seq(Nat)] /\ queuedpcm \in [Streams -> Seq(Nat)]
  /\ fails \in Nat
  /\ queued \in [Streams -> Nat] /\ out \in [Streams -> Seq(Nat)]
  /\ finished \subseteq Streams /\ byItself \subseteq Streams

Init ==
  /\ session = "down" /\ logins = 0
  /\ held = [u \in Users |-> None] /\ muteSound = FALSE
  /\ pc = [s \in Streams |-> "none"] /\ buffer = [s \in Streams |-> Prefill]
  /\ queue = [s \in Streams |-> <<>>] /\ queuedpcm = [s \in Streams |-> <<>>]
  /\ fails = 0
  /\ queued = [s \in Streams |-> 0] /\ out = [s \in Streams |-> <<>>]
  /\ finished = {} /\ byItself = {}
-----------------------------------------------------------------------------
(* The thread of a stream: output().  stop_output stays FALSE, since nobody *)
(* calls finish() with drop.                                               *)

Goto(s, l) == pc' = [pc EXCEPT ![s] = l]

\* outputStreamOpen: the thread clears it when it leaves its loop.
Open(s) == pc[s] \in {"top", "prefill", "take", "write", "end"}

\* The top of the loop: the session, then what is to be done next.
Top(s) ==
  /\ pc[s] = "top" /\ loggedin
  /\ \/ /\ buffer[s] > 0
        /\ buffer' = [buffer EXCEPT ![s] = @ - 1]
        /\ Goto(s, "prefill")
     \/ /\ buffer[s] = 0
        /\ Goto(s, IF queuedpcm[s] = <<>> THEN "take" ELSE "write")
        /\ UNCHANGED buffer
  /\ UNCHANGED <<sessionVars, guiVars, queue, queuedpcm, out, byItself, fails>>

TopLoggedOut(s) ==
  /\ pc[s] = "top" /\ ~loggedin
  /\ byItself' = byItself \cup {s}
  /\ Goto(s, "end")
  /\ UNCHANGED <<sessionVars, guiVars, buffer, queue, queuedpcm, out, fails>>

\* A piece that comes while collecting is joined to the others.
PrefillPiece(s) ==
  /\ pc[s] = "prefill" /\ queue[s] # <<>> /\ Head(queue[s]) # 0
  /\ queuedpcm' = [queuedpcm EXCEPT ![s] = Append(@, Head(queue[s]))]
  /\ queue' = [queue EXCEPT ![s] = Tail(@)]
  /\ Goto(s, "top")
  /\ UNCHANGED <<sessionVars, guiVars, buffer, out, byItself, fails>>

\* Mutant: the end is not queued again once it has been met.
PrefillEndOnce(s) ==
  /\ pc[s] = "prefill" /\ queue[s] # <<>> /\ Head(queue[s]) = 0
  /\ buffer' = [buffer EXCEPT ![s] = 0]
  /\ queue' = [queue EXCEPT ![s] = Tail(@)]
  /\ Goto(s, IF queuedpcm[s] = <<>> THEN "take" ELSE "write")
  /\ UNCHANGED <<sessionVars, guiVars, queuedpcm, out, byItself, fails>>

\* The end met while collecting: finish() puts it on the queue again, for the
\* pop below, and collecting is over.
PrefillEnd(s) ==
  /\ pc[s] = "prefill" /\ queue[s] # <<>> /\ Head(queue[s]) = 0
  /\ buffer' = [buffer EXCEPT ![s] = 0]
  /\ queue' = [queue EXCEPT ![s] = Append(Tail(@), 0)]
  /\ Goto(s, IF queuedpcm[s] = <<>> THEN "take" ELSE "write")
  /\ UNCHANGED <<sessionVars, guiVars, queuedpcm, out, byItself, fails>>

Take(s) ==
  /\ pc[s] = "take" /\ queue[s] # <<>>
  /\ queue' = [queue EXCEPT ![s] = Tail(@)]
  /\ \/ /\ Head(queue[s]) = 0
        /\ Goto(s, "end")
        /\ UNCHANGED queuedpcm
     \/ /\ Head(queue[s]) # 0
        /\ queuedpcm' = [queuedpcm EXCEPT ![s] = <<Head(queue[s])>>]
        /\ Goto(s, "write")
  /\ UNCHANGED <<sessionVars, guiVars, buffer, out, byItself, fails>>

\* Mutant: what was collected stays when it is thrown away.
WriteKeeps(s) ==
  /\ pc[s] = "write"
  /\ out' = [out EXCEPT ![s] = @ \o queuedpcm[s]]
  /\ queuedpcm' = IF muteSound THEN queuedpcm ELSE [queuedpcm EXCEPT ![s] = <<>>]
  /\ Goto(s, "top")
  /\ UNCHANGED <<sessionVars, guiVars, buffer, queue, byItself, fails>>

\* Played, or thrown away if the sound is muted.
Write(s) ==
  /\ pc[s] = "write"
  /\ out' = [out EXCEPT ![s] = @ \o queuedpcm[s]]
  /\ queuedpcm' = [queuedpcm EXCEPT ![s] = <<>>]
  /\ Goto(s, "top")
  /\ UNCHANGED <<sessionVars, guiVars, buffer, queue, byItself, fails>>

\* The audio system cannot be changed to another, or does not take the data.
WriteFails(s) ==
  /\ pc[s] = "write" /\ ~muteSound /\ fails < MaxFails
  /\ fails' = fails + 1
  /\ byItself' = byItself \cup {s}
  /\ Goto(s, "end")
  /\ UNCHANGED <<sessionVars, guiVars, buffer, queue, queuedpcm, out>>

\* outputStreamOpen = false; close().
StreamClosed(s) ==
  /\ pc[s] = "end"
  /\ Goto(s, "drain")
  /\ UNCHANGED <<sessionVars, guiVars, buffer, queue, queuedpcm, out, byItself, fails>>

\* What is left on the queue is freed, then the object itself.
DeleteThis(s) ==
  /\ pc[s] = "drain"
  /\ queue' = [queue EXCEPT ![s] = <<>>]
  /\ queuedpcm' = [queuedpcm EXCEPT ![s] = <<>>]
  /\ Goto(s, "gone")
  /\ UNCHANGED <<sessionVars, guiVars, buffer, out, byItself, fails>>

Output(s) == \/ Top(s) \/ TopLoggedOut(s) \/ PrefillPiece(s) \/ PrefillEnd(s) \/ Take(s)
             \/ Write(s) \/ WriteFails(s) \/ StreamClosed(s) \/ DeleteThis(s)
-----------------------------------------------------------------------------
(* The events of a session, taken by the GUI before its DISCONNECT.        *)

InSession == session \in {"up", "ending", "closed"}

\* finish() and outputAudio.erase(): a 0 is queued if the stream is open.  On
\* an object that is gone the call has no defined effect; the model has none.
FinishHeld(u) ==
  /\ held[u] # None
  /\ held' = [held EXCEPT ![u] = None]
  /\ finished' = finished \cup {held[u]}
  /\ queue' = IF Open(held[u]) THEN [queue EXCEPT ![held[u]] = Append(@, 0)] ELSE queue

\* Mutant: the pointer stays in outputAudio.
TalkEndKeeps(u) ==
  /\ InSession /\ loggedin
  /\ held[u] # None
  /\ finished' = finished \cup {held[u]}
  /\ queue' = IF Open(held[u]) THEN [queue EXCEPT ![held[u]] = Append(@, 0)] ELSE queue
  /\ UNCHANGED <<sessionVars, held, muteSound, queued, pc, buffer, queuedpcm, out, byItself, fails>>

\* USER_TALK_END, USER_TALK_MUTE, USER_LOGOUT, and PLAY_AUDIO of a user who is
\* muted or while the sound is.
TalkEnd(u) ==
  /\ InSession /\ loggedin
  /\ FinishHeld(u)
  /\ UNCHANGED <<sessionVars, muteSound, queued, pc, buffer, queuedpcm, out, byItself, fails>>

\* USER_CHAN_MOVE and the two MUTE_CHANGED events do not ask for the session.
MovedOrMuted(u) ==
  /\ InSession
  /\ FinishHeld(u)
  /\ UNCHANGED <<sessionVars, muteSound, queued, pc, buffer, queuedpcm, out, byItself, fails>>

\* queue() on stream s.
Queue(s) ==
  /\ queue' = [queue EXCEPT ![s] = Append(@, queued[s] + 1)]
  /\ queued' = [queued EXCEPT ![s] = @ + 1]

\* PLAY_AUDIO for a stream that is there.
PlayHeld(u) ==
  /\ InSession /\ loggedin /\ ~muteSound /\ held[u] # None
  /\ queued[held[u]] < MaxPieces
  /\ IF Open(held[u]) THEN Queue(held[u]) ELSE UNCHANGED <<queue, queued>>
  /\ UNCHANGED <<sessionVars, held, muteSound, finished, pc, buffer, queuedpcm, out, byItself, fails>>

\* PLAY_AUDIO of a user without a stream: it is created, its thread started,
\* the audio queued.
PlayNew(u) ==
  /\ InSession /\ loggedin /\ ~muteSound /\ held[u] = None
  /\ \E s \in Streams :
       /\ pc[s] = "none"
       /\ held' = [held EXCEPT ![u] = s]
       /\ Goto(s, "top")
       /\ Queue(s)
  /\ UNCHANGED <<sessionVars, muteSound, finished, buffer, queuedpcm, out, byItself, fails>>

\* The same if the device cannot be opened: an object without a thread, which
\* ignores what it is given.
PlaySilent(u) ==
  /\ InSession /\ loggedin /\ ~muteSound /\ held[u] = None /\ fails < MaxFails
  /\ fails' = fails + 1
  /\ \E s \in Streams :
       /\ pc[s] = "none"
       /\ held' = [held EXCEPT ![u] = s]
       /\ Goto(s, "silent")
  /\ UNCHANGED <<sessionVars, muteSound, queued, finished, buffer, queue, queuedpcm, out, byItself>>

\* muteSoundCheckButton_toggled_cb; streams find out when they write.
ToggleMute ==
  /\ muteSound' = ~muteSound
  /\ UNCHANGED <<sessionVars, held, queued, finished, threadVars>>

Gui(u) == TalkEnd(u) \/ MovedOrMuted(u) \/ PlayHeld(u) \/ PlayNew(u) \/ PlaySilent(u)
-----------------------------------------------------------------------------
(* The session, as the streams and the GUI see it.                         *)

\* v3_login; the next one comes when the last is over and DISCONNECT taken.
Login ==
  /\ session = "down" /\ logins < MaxSessions
  /\ session' = "up" /\ logins' = logins + 1
  /\ UNCHANGED <<guiVars, threadVars>>

\* _v3_logout queues DISCONNECT, and clears the flag later.
LogoutQueue ==
  /\ session = "up"
  /\ session' = "ending"
  /\ UNCHANGED <<logins, guiVars, threadVars>>

LogoutClose ==
  /\ session \in {"ending", "noticed"}
  /\ session' = IF session = "ending" THEN "closed" ELSE "down"
  /\ UNCHANGED <<logins, guiVars, threadVars>>

\* onDisconnectHandler: outputAudio.clear(), which finishes no stream.
Disconnect ==
  /\ session \in {"ending", "closed"}
  /\ session' = IF session = "ending" THEN "noticed" ELSE "down"
  /\ held' = [u \in Users |-> None]
  /\ UNCHANGED <<logins, muteSound, queued, finished, threadVars>>

Session == Login \/ LogoutQueue \/ LogoutClose \/ Disconnect
-----------------------------------------------------------------------------
Next == \/ \E s \in Streams : Output(s)
        \/ \E u \in Users : Gui(u)
        \/ ToggleMute
        \/ Session

Spec == Init /\ [][Next]_vars

\* The thread of each stream runs; the audio system takes what it is given.
FairSpec == Spec /\ \A s \in Streams : WF_vars(Output(s))
-----------------------------------------------------------------------------
(* Properties.                                                             *)

Gone == {"end", "drain", "gone"}

\* In a session, outputAudio points to objects that are there: a thread
\* deletes its own only after the GUI has erased it, or if the audio system
\* failed.  When the session is over they may go first (mangler.cpp:1297 and
\* 1623 would then use one).
HeldIsAlive ==
  \A u \in Users : session \in {"up", "ending"} /\ held[u] # None /\ pc[held[u]] \in Gone
                     => held[u] \in byItself /\ fails > 0

\* A stream plays what it was given, once and in order, whether the thread is
\* still collecting, is muted, or meets the end while it collects; and what it
\* was given before the end, all of it.
PlayedInFull ==
  \A s \in Streams :
    /\ out[s] = [i \in 1..Len(out[s]) |-> i]
    /\ pc[s] \in Gone /\ s \notin byItself => Len(out[s]) = queued[s]

\* A stream that the GUI has finished ends, and its object is freed.
FinishedEnds ==
  \A s \in Streams : (s \in finished /\ pc[s] # "silent") ~> (pc[s] = "gone")
=============================================================================
