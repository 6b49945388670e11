# A TLA+ verification of Mangler's Ventrilo 3 client

Mangler is a client for Ventrilo 3 voice servers: a C library, `libventrilo3`,
that speaks the protocol, and the programs on top of it, a GTK client (`src/`),
a jukebox, an Android and an iPhone client. This directory holds TLA+ models of
the parts of it where several threads, a server and a failing network meet,
the TLC configurations that check them, and TLAPS proofs about them.

Run from this directory:

    tlc -config MCSession.cfg V3Session
    tlapm V3SessionProofs.tla

`PROJECT.json` lists the components, the runs, the mutants of the code each
property must reject, the lines every definition stands for, the findings, the
hazards and the theorems.

Paths below are those of the repository; a bare line number is a line of
`libventrilo3/libventrilo3.c`.

## 1. The system

### Threads and what they share

    GUI thread --- v3_logout, v3_start_audio, ... --> event pipe --+
    audio capture threads - v3_send_audio ----------> event pipe --+
                                                                   v
    GUI thread <-- v3_get_event -- event queue <-- network thread --- server
                                                    (v3_login, _v3_recv,
                                                     _v3_process_message)

* The **network thread** runs `ManglerNetwork::connect`: `v3_login`, then a loop
  of `_v3_recv` and `_v3_process_message`. A new one is started at every login.
* **API threads** never touch the socket. An API call checks `v3_is_loggedin()`,
  fills a `v3_event` and writes it to `v3_server.evpipe[1]` under the sendq lock.
  The network thread selects on the socket and `evpipe[0]` and drains the pipe.
* The library answers through the **event queue**, a list behind a mutex and a
  condition variable. The GUI polls it every 10 ms, Android blocks on it, the
  jukebox does either.
* Users, channels, ranks, accounts are global linked lists, each behind a mutex
  of type `PTHREAD_MUTEX_ERRORCHECK`; the network thread writes them, everybody
  reads them.
* The **recorder** writes a VRF file from the network thread, started and
  stopped from the GUI.

### Components

| component | state | operations | what makes it correct | models |
|---|---|---|---|---|
| session life cycle (5224-5501, 580-1316, 5504-5757) | socket, login flag, pipe, login phase | `v3_login`, `_v3_recv`, `_v3_logout`, API calls | what is sent is what was asked for, in order, once; the application learns of every end; no lock, pipe or socket is left | `V3Session`, `CommandChannel` |
| event queue (6886-6954) | list, mutex, condition | `v3_queue_event`, `v3_get_event` | a FIFO; no lost wakeup; no NULL | `V3EventQueue`, `EventFifo` |
| keepalive (390-416, 1319-1386) | time of the last 0x4b | `v3_message_waiting` | a message every 10 s, a timeout `select()` takes | `V3Keepalive` |
| user list (1486-1808, 4090-4152, 4844-5146, 6377-6415) | list, mutex, rows in the GUI | packets 0x5d, 0x58, 0x46; `v3_get_user` | readers see a stable list; phantoms leave with their user; the GUI shows the list | `V3UserList` |
| channel list (1436-1483, 1665-1690, 3931-3999, 4153-4182, 4792-4823, 6243-6362; `src/channeltree.cpp`) | list, users' channels, rows in the GUI | packets 0x60, 0x49, 0x3b, 0x53, 0x5d; paths | a move loses nothing; the GUI shows the tree; a stored path finds its channel | `V3Channels` |
| recorder (2411-3705) | queue of utterances, file, table | `_v3_vrf_record_event`, start, stop, recover | the file plays what was said; a crash loses little and spoils nothing | `VrfRecorder` (its locks: `V3UserList`) |
| audio out (`src/mangleraudio.cpp`, events in `src/mangler.cpp`) | a queue and a thread per user who speaks | PLAY_AUDIO, TALK_END, mutes, moves | what is queued is played; no pointer to an object that is gone; a stream ends | `AudioOutput` |
| audio in (the same files) | flags, `inputAudio`, a thread per object | button, push to talk, voice activation, mute | no microphone open unasked; start, audio, stop | `AudioInput` |
| GTK connection (`src/mangler.cpp`, `src/manglernetwork.cpp`) | the button, `wantDisconnect`, timers | connect, quick connect, cancel, reconnect | one attempt at a time; a button that offers what can be done | `GuiConnection` |
| server properties (1131-1168, 4316-4618, 6087-6135; `src/mangleradmin.cpp`) | transaction id, a buffer, the form | open, close, update, 0x4c | nothing is read or written by halves; the form unlocks | `V3ServerProps` |
| jukebox (`jukebox/jukebox.c`) | playlist, player | commands by chat | | its use of the queue: `V3EventQueue` |
| Android, iPhone | threads around the queue | | | their use of the queue: `V3EventQueue` |
| ranks, accounts, permissions; message of the day, admin messages; message codec; audio packets; handshake, ciphers; configuration file; windows; audio backends; test client; vendored and generated code | | | | not modelled, see section 6 |

### What is hard here

* API threads race `_v3_logout`: the flag, the socket, the lists and the pipe are
  torn down one after another while others test and use them, and a new login may
  already be reusing the same globals.
* `_v3_logout` is called from five places, two of which can be met in one pass.
* The pipe is bounded and not blocking; its overflow is silent.
* The lists' mutex does not nest, and the code nests it: the first inner unlock
  ends the outer critical section.
* Events are queued now and looked up later.
* Threads delete the objects the GUI points to, and nobody waits for them.
* Timers of the GUI outlive what they were started for, and run without its lock.
* Answers of the server arrive when the user has asked for something else.
* Users speak at the same time into a file whose segments follow one another, and
  the program may die between any two writes of it.

`PROJECT.json` ("hazards") lists each at its line, with the properties about it.

## 2. The modules

### V3Session

One network thread per login (`Sessions`), API threads (`Clients`), and the
application's own view (`online`). All library state is global, as in the code:
`sockd` and `evpipe` hold the number of the session that opened them (0 for -1).

| variable | code |
|---|---|
| `pc`, `phase`, `both`, `caller` | where a network thread is: in `v3_login` or its caller, the `select()` result, who called `_v3_logout` |
| `sockd`, `loggedin` | `_v3_sockd`, `_v3_user_loggedin` |
| `evpipe`, `pipe`, `sendq` | `v3_server.evpipe`, the bytes in it, the owner of `sendq_mutex` |
| `call`, `written` | an API call between its check, its reading of the descriptor, and its write |
| `sent` | what was sent, and on which connection |
| `eventq`, `notified` | the event queue; DISCONNECT events per thread |
| `session`, `online` | logins so far; whether the GUI thinks it is connected |

Actions: `Connect`, `GetEvent` (application); `ApiCheck`, `ApiReadFd`,
`EvpipeWrite` (an API call, in three steps because each reads a global that may
have changed); `LoginPipe`, `LoginConnect`, `LoginFailed`; `RecvClosed`,
`SelectEvent`, `SelectMsg`, `SelectFails`, `DrainOne`, `DrainEnd`; `ReadFails`, `ReadOther`,
`ReadReady` (0x34), `ReadError`, `ReadKick` (0x59), `ReadBye` (0x06); and
`_v3_logout` in three steps, `LogoutQueue`, `LogoutClose`, `LogoutFree`.

Abstracted: packets without a bearing on the session are one action
(`ReadOther`), API calls other than a logout are one kind of command. `SelectFails` is
the error of `select()`: `_v3_recv` returns NULL as if nothing were waiting, and the thread
ends (`Cut`) without `_v3_logout`. The jukebox meets it: its handler of SIGINT
(`jukebox.c:195`) interrupts the `select()` of the thread it runs in. The GTK client
installs no handler of signals, so the models of its parts (`GuiConnection`,
`AudioOutput`, `AudioInput`, `V3Keepalive`) do without that exit. Left out: the timestamps
(see `V3Keepalive`); a 0x34 outside the login and a malformed 0x34, which no server of the
protocol sends; failures of `fcntl()` on a pipe just made.

### V3EventQueue

A critical section of `eventq_mutex` is one step; the tests made without the lock
(`eventq_mutex == NULL`, `_v3_eventq == NULL` for a poll) are steps of their own.
Events are numbers, so that order can be stated; what `v3_queue_event` does to the
`channel.id` of an event is in `V3Channels`.
Creation of the mutex is one step. `Spurious` lets `pthread_cond_wait` return without
a signal; the history variable `early` remembers that it did.

### V3UserList

The list (`list`, nodes with a serial number so that a freed node differs from a
later one with the same id), the owner of `userlist_mutex` and of `vrfh_mutex`,
the packet the network thread is handling (`at`, `job`, `rest`), the look-ups of
the API threads (`reader`), the event queue and the rows of the channel tree.

The heart of it is the mutex. It is an error-checking one: `Lock` by its owner
changes nothing, and the first `Unlock` frees it. So a function that locks and
unlocks for itself, called by a handler that holds the mutex, leaves it free
(`LockAndUnlock`), and the handler goes on without it. `LookUpWalk` is the same
for `v3_get_user`: the inner `_v3_get_user` releases the mutex before the copy.

Handlers are split where they can lose the mutex. 0x5d: `Packet5d`, then per user
`UpdateUser`/`Tell` (added, modified), `Record`/`FindUser`/`RemoveUser`/`Logout`/
`WalkPhantom`/`WalkEnd` (removed) or `FindUser`/`WriteUser`/`Tell` (rank). 0x58:
`PacketPhantom`, `PhantomName` or `PacketUnphantom`. 0x46: `PacketSetting`,
`FindUser`, `WriteUser`, `Record`, `EndSetting`.

Assumed of the server: it adds users and phantoms that are not there, and modifies
or removes those that are (the code dereferences NULL otherwise, 4869 and 5043).
Left out: the fields of a user but the owner of a phantom, `v3_luser` and its mutex;
channels and moves between them (see `V3Channels`), so that `addUser` always finds the
parent row.
The subtype of 0x5d that lists the users at login is modelled as adding them.
`Orderly` restricts the server to removals after 0x34. `Reuse` lets freed memory be handed
out between the free and the last read.

### VrfRecorder

`disk` is the header of the file and `file` what follows it: segment headers,
fragments and rows of the segment table, in order. A position is the number of an
item instead of a byte offset. `queue` is `v3_vrfh->queue`, one record per utterance
that is not finished; `<<>>` is the head that is all zero. `segcount`, `segtable` and
`table` belong to the handle that is recording or recovering; `recording`, `stopping`,
`owner` and `pending` say where the network thread and the GUI are with respect to
`vrfh_mutex`; `at` and `k` where the one that works on the file is.

An event of the network thread is `EventCheck` (the test without the mutex),
`EventLock` (the queue is changed; a user who has left turns any event into a flush),
`WriteRecord` once per record of the writing loop, `Retire` once per finished head of
the queue, `EventEnd`. `v3_vrf_record_stop` is `RecordStop`, `StopLock`, the same
loops, then `FinishTable` and `FinishHeader`. Each of these steps makes at most one
write, so that `Crash` can fall between any two. `Recover` (`v3_vrf_init` on a file
whose header is temporary) scans the file (`ScanSegment`, `ScanFragment`, `ScanFails`,
`ScanEnd`), writes the counts (`FixHeader`) and finishes it like a recording. The scan
knows items by the length they begin with, which is 64 for segment headers and rows.
`Played` is what `v3_vrf_get_segment` and `v3_vrf_get_audio` give back.

`spoken` is a history variable: what was accepted, by utterance. The GUI stops a
recording before it opens a file (`manglerrecorder.cpp:212`), so that `Recover` waits
for the end of the recording. Left out: times and names, decoding, writes that fail or
are short, `v3_vrf_put_info` and the editing calls, the `RECORD_UPDATE` events, a
second recording (`O_EXCL` never overwrites a file). A text sent while its user speaks
is put into his open record; the model contains that (`Continue`), and what is claimed
of played files is claimed of those without it (`FragmentsFit`).

### V3Channels

`chans` is `v3_channel_list`, head first; `parent` and `place` say where a channel and a
user are; `rows` is the tree of the GUI, each row with what it hangs under. A handler
changes a list in one step and queues the event in the next (`Tell`), except 0x3b, which
does both under one lock. `Queued` is what `v3_queue_event` makes of an event: while the list
has no channel it names channel 0 (6902). The removal of the last channel is queued just then,
and `LosesLobby` is what the GUI makes of it: it erases row 0, the lobby, with all that is in
it (`lobby` is FALSE from then on). `MoveBefore` is the loop of 0x3b with its predecessor pointer;
`GuiEvent` looks up what an event names as it is when the event is taken. `Erased` is what
GTK erases with a row: the rows in every set that holds it and, with a row, those that
hang under it. `Ancestry`, `Path`, `Child`, `Descent` and `ChannelId` are
`v3_get_channel_path` and `v3_get_channel_id`. The loop up the parents is unrolled as often
as the list is long; `PathIsWhole` (proved as `PathsEnd`) says that it has then ended.

Assumed of the server: users and channels have different ids (0x3b tells them apart by
looking them up); a parent is listed before its children; an id is used again only if
nothing refers to it any more; a modification does not change the parent. `InTree` says
that the server knows the parents of a channel up to the lobby. An id is neither 0, the
lobby, nor -1, which stands for nowhere. The user may see the channels: for one who may not,
the server sends none and all is in the lobby. Left out: the fields of a channel, its rights,
the order of rows, and the locks (in `V3UserList`); `updateLobby` (`channeltree.cpp:640`),
which draws a new row 0 for the user with id 0, who is the server (`mangler.cpp:1069`, `1612`,
`1694`) and not among `Users`. After the lobby is lost, rows drawn later hang nowhere or beside
one of the same channel; the model keeps rows that exist twice as one.

### AudioOutput and AudioInput

`AudioOutput`: `held` is `outputAudio`; each stream has the place of its thread (`pc`),
the pieces it has to collect (`buffer`), its `pcm_queue` (0 for a piece of length 0),
and what it has collected (`queuedpcm`). The thread collects (`PrefillPiece`,
`PrefillEnd`), takes, writes, and deletes itself; the GUI queues (`PlayHeld`, `PlayNew`,
`PlaySilent`) and finishes (`TalkEnd`, `MovedOrMuted`). `out`, `queued`, `finished` and
`byItself` are history. A call on an object that is gone has no effect in the model; it
is undefined in the code, and `HeldIsAlive` says when it can happen. The session is
abstracted to five states, because DISCONNECT is queued before the flag is cleared.

`AudioInput`: `by` is the set of the four flags, `inputAudio` the object in use,
`assigning` one that a timer has created and not yet stored, since timers do not hold the
gdk lock. Which keys are down and what the settings are is chosen when a timer or a thread
looks. A write finds the flag cleared, is accepted, or is lost at a full pipe (`Write`,
`Refused`); the thread learns of none of it. `wire` is the last thing the pipe accepted in the
session, `astray` remembers that one did not fit what came before it, `lost` and `unheard`
that a start or a stop was lost. The test and the use of `inputAudio` in `stopTransmit`
(`mangler.cpp:884-886`) are one step: a thread that clears it in between crashes the client,
and what does not go on is not modelled. `torn` names
objects created while a dying thread was between its comparison of `inputAudio` and its
assignment (359); `overlap` and `late` say that two threads ran at once, or one at a login.

### GuiConnection

The label of the button is the state of the GUI. `pc` holds the network threads, whose
`ManglerNetwork::connect` changes the label under the gdk lock (`Begin`, `ShowConnected`,
`ShowFailure`); `timers` counts reconnect timers that live, `waited` the seconds since
`lastAttempt`, one for all of them. What is assumed of time: a second is longer than
`_v3_logout` takes and than the 10 ms after which events are taken (`TimerCounts`).
`hasty` remembers that the user started an attempt while a thread was not done; `asked`
that he disconnected or cancelled. `InTurn` says of these attempts what `V3Session` takes for
granted of logins when `Eager` is FALSE.

### V3Keepalive

`_v3_next_timestamp` with its borrow (`Borrow`), the wait, the message at its timeout, the
handling of what arrives, and a clock somebody sets at most once between two timestamps.
`Second` and `Interval` are parameters, 1000000 and 10 in the code. Time passes in
`select()` and while something is handled. A `select()` that a signal interrupts is left
out.

### V3ServerProps

The flags of the window (`isOpen`, `SrvEditorOpen`, `SrvIsNotUpdating`), the form
(`sensitive`, `shown`), the pipe, the events, the messages on the wire, and the one
buffer and transaction id of the library (`prop`, `tid`). A value is the number of the
request it comes from, so that mixed forms can be seen. The pipe may lose any request
(`Written`), and nobody is told; `dropped` remembers that the last OPEN or UPDATE was. Assumed: `rand()` repeats no id
that is in use, the server answers every request and echoes it. Left out:
`V3_SERVER_CLIENT_SET`, which sets one of three flags.

### Abstract specifications

* `CommandChannel`: calls are numbered; the server sees a subsequence in order.
  `V3Session` implements it with `written` and the ids of `sent`.
* `EventFifo`: what was accepted is handed over once, in order. `V3EventQueue`
  implements it with `queued` and `got`.

## 3. The runs

| run | shows | bounds, and why they are enough |
|---|---|---|
| `session` | `CommandChannel` implemented, quiet after the notice, a DISCONNECT for every established session and nothing left open, or a failed `select()` and all of it; sendq released; accepted events are served, an accepted logout ends unless `select()` fails first | 2 sessions (an old and a new one), 2 API threads, 3 commands, a pipe of 2: two writers overtake each other, the pipe fills and refuses the third write, a call outlives its session |
| `logout_twice` | violation, see section 5 | the smallest instance with the case |
| `eventq_jukebox` | FIFO, NULL only after a spurious wakeup, no lost wakeup, polls return, events are taken | 1 consumer that does both, 2 producers, 5 events: the list goes from empty to several and back more than once |
| `userlist` | lock released, phantoms go, rows match, stable under the lock, look-ups return | 1 user, 1 phantom, 3 nodes (the user may leave and come back), the GUI and another API thread, recording, an event queue of 2 |
| `userlist_copy` | violation | the smallest instance with the case |
| `recorder` | a stopped recording plays what was said; a recovered one a beginning of it, with every fragment in the file; utterances are not interleaved; nothing is overwritten; what a crash can lose | 2 users who alternate, overlap and stop in any order, 4 fragments (three utterances, one of them with two fragments, can wait at once), 2 crashes (a recovery may be interrupted and repeated) |
| `channels` | the GUI ends up with the tree the lists are; a row is found; a path names its channel; a move loses nothing | 3 channels (a chain, or siblings), 1 user, 3 additions, 3 other packets, 3 events behind; names of 2 pieces. The channels are symmetric. |
| `audio_output` | no dead pointer, all is played in order, finished streams end | 2 users, 2 streams (a user may have two, one after the other), 3 pieces against a prefill of 2 (the end meets the thread while it collects, and after), 2 sessions, 1 failure |
| `audio_input` | no microphone open unasked; the end of speech is told, start-audio-stop without overlap or loss; a release is heard | 2 objects (one dies while the other is created, both write to the pipe), the button, a key and voice activation, 2 sessions (a thread outlives one), 1 failure or lost write (a start, a stop or audio); the theorems are for any number |
| `gui_connection` | an attempt only when the last thread is through (so one connection at a time), a button that tells the truth, a wait that ends | 4 attempts (a loss, a retry, another loss, a quick connect), a delay of 2 s |
| `server_props` | whole transfers, cut only by late settings, a current form that unlocks | 4 requests (an update between openings, and one that an older one overtakes), any of them lost, 4 properties with a single and two numbers between them, 2 sessions |
| `keepalive` | a valid timeout, timestamps neither early nor late | a second of 3 units (no, one and two to borrow), an interval of 2 s, 14 units: two timestamps and a clock that is set |

`Eager` lets the application start a login while the previous network thread is still
inside `_v3_logout`; nothing in the library prevents it, the GUI's pause before a
reconnection does (`InTurn` of `GuiConnection`, proved as `AttemptsInTurn`, unless the user
is hasty). The runs set it to FALSE. `TypeCorrect`, `SendqSafe`, `OrderSafe` and
`ChannelRefined` are proved for both values. `QuietAfterNotice`, `EndIsNotified` and
`AllOrNothing` are claimed only without it, and cannot be claimed with it: with
`Eager = TRUE` TLC refutes the first two with two sessions, and the third with three, when
a thread in `_v3_logout` meets the connection of the next login. The run of `V3UserList` has `Orderly` and not `Reuse`; of its theorems
`PhantomsLeave` is about memory that is not reused at once and `RowsAreUsers` about an
orderly server, the others hold for every value of both.

Deadlock is not checked: every bounded model stops when its bound is reached, and
the application may stop using the library; what must not stop is stated as
liveness.

### Fairness

* `V3Session!FairSpec`: a network thread that can take a step does (the scheduler);
  the GUI's 10 ms timer takes events; an API call that has begun finishes. The
  write waits for the sendq lock, which the network thread takes and releases again
  and again, so strong fairness: glibc wakes a waiter, and the network thread goes
  through `select()` between two drains. No fairness for the server (`SelectMsg`
  is not in it), for the user or for failures (`SelectFails`).
* `V3EventQueue!FairSpec`: a producer past its test puts its event; a consumer is a
  loop or a timer.
* `AudioOutput!FairSpec`: the thread of a stream runs, and the audio system takes what
  it is given; `FinishedEnds` then needs the 0 that `finish()` puts on the queue.
* `AudioInput!FairSpec`: the threads run, a timer callback that has begun finishes, and
  the timer of voice activation comes again and again while it finds voice activation
  off (`VoiceIsOff`): a user who leaves it on and is loud is never obliged to stop.
* `GuiConnection!FairSpec`: the GUI's main loop runs its timers and takes DISCONNECT;
  a thread in `_v3_logout` ends. Neither the user nor the server is fair.
* `V3ServerProps!SPFairSpec`: the GUI takes events; the network thread serves the pipe and
  the answers, which the server is assumed to send. Nobody has to open a window.
* `V3UserList!FairSpec`: the network thread goes on with the packet it has begun,
  a look-up with its steps. Waiting for the mutex is strongly fair for the
  same reason. No packet is ever obliged to arrive.
* `V3Channels`, `VrfRecorder` and `V3Keepalive` state no liveness and need none.

## 4. The proofs

Every theorem is for all values of the constants allowed by the named assumption
of its module. The theorems live in a module of their own beside each component.

`V3SessionProofs`. `SessionAssumption` only.

* `TypeCorrect` (`TypeOK`), inductive as it stands once the pipe's capacity is part
  of it.
* `SendqSafe` (`SendqReleased`): holds without `Eager = FALSE`; the invariant says
  that at most one thread is draining, since a second one meets a taken lock.
* `OrderSafe` (`SentInOrder`, what `ImplementsChannel` rests on): needs that what is sent is
  below what is in the pipe, and both below `written`, and that the pipe itself is increasing.
* `ChannelRefined` (`ImplementsChannel`): from the same invariant, step by step.
* `LifeSafe` (`EndIsNotified`, `OwnConnection`) and `LeavesAllOrNothing` (`AllOrNothing`)
  assume `~Eager`: the strengthening says, for every place a thread may
  be after its login, whether it has notified or still has the connection that
  keeps it in the loop. A thread that a failed `select()` has cut is the one that has
  neither notified nor closed anything, and after it nobody logs in: the application
  has had no DISCONNECT.
* `QuietSafe` (`QuietAfterNotice`): assumes `~Eager`; needs that only the latest
  session runs, and where its socket can be open after the notice.

`V3SessionProofs` also has `TimeIsKept` (`KeepsTime`), for any second, interval and clock:
while the thread is in `select()` its timeout is what is left of the interval, which needs
that the subtraction with a borrow (`Borrow`) is right for every pair of timestamps.

`V3EventsProofs`, the event queue. `QueueTyped`, `FifoRefined` for any threads; the
invariant is that what was returned followed by what is on the list is 1..`queued`.
`LoneConsumerSafe` (`NeverNull`), `NoWakeupLost` (`NoneStranded`) and `PollReturns`
(`NonblockReturns`) assume one consumer, as the GUI, the jukebox and the iPhone client are.
They need that a consumer woken by a signal finds an event, and that one who waits beside an
event has been signalled; spurious wakeups are in it by way of `early`.

`V3EventsProofs`, the server properties (`SPInv`). `ServerPropsTyped`, `TransfersWhole`
(`TransfersAreWhole`), `OnlyLateCuts` (`CutOnlyLate`) and `FormCurrent` (`FormIsCurrent`),
for any number of properties, requests and sessions. Requests are answered in the order they
are made, so the numbers in events, messages and pipe rise (`Ordered`); at most one transfer
is under way (`Single`), and what it has read or sent so far is a beginning of the properties
(`Reads`, `Writes`); an update keeps the form locked until settings come or its own last
message is sent (`Locked`); and unless the last OPEN or UPDATE was lost, newer settings are
asked for, on their way or shown (`Follows`). Any part of what a step of the GUI asks for may
be missing from the pipe (`Asks`). `ServerPropsAssumption` says that no two of the
numbers without a property are neighbours, as the one list in the code has it.

`V3UserListProofs`. `ListSafe` (`UniqueIds`), `LockSafe` (`LockIsReleased`) and
`WalkSafe` (`StableUnderLock`), from one invariant: types, the ids, and who owns the
mutex where. `WalkSafe` follows because a step that changes the list is one that
found the mutex free or its own, while a reader that walks owns it.

`PhantomsLeave` (`PhantomsGoToo`, for memory not reused at once): between packets no phantom
is without its user, because an orphan is always one the walk of the handler is on its way
to (`NoOrphans`), although the walk reads `next` from nodes it has freed. `RowsAreUsers`
(`RowsMatch`, for an orderly server): for each id there is a history of the pending events,
whether the id is on the list after each of them, in which logins and logouts take turns
(`Stories`); its end is the list, and its beginning is the row.

`VrfRecorderProofs`. `RecorderTyped` (`TypeOK`), `ContiguousSafe` (`Contiguous`) and
`AppendOnly` (`NothingOverwritten`), for any users, fragments and crashes, texts in
the middle of speech included. Behind the types stand `Loops` (the counters of the
loops stay in range) and `Modes` (who may be where). `Contiguous` needs `Layout`: of
the queue only the head, and stopped records behind it that are on their way out, are
in the file, and the last of them ends it; so data without a header of its own is
appended right behind its segment. `NothingOverwritten` needs `Heads`: the offset of a
record and of a row that a recovery builds is that of a header.

`SavedSafe` (`SavedIsSpoken`), `RecoveredSafe` (`RecoveredIsSpoken`) and `LossSafe`
(`LossIsBounded`) say what a file plays. Their invariant, `StoryInv`, is that the file is the
first `n` utterances of `spoken`, one behind the other from the positions `pos` on, with the
rows behind them; that what is not yet in the file is in the queue, in order, while a
recording runs; that a recovery has scanned, fixed and listed a beginning of it
(`Phases`); and that what is stopped and at the head is flushed (`Flushed`). That a
recovery lists `n` segments is counted by a bijection between rows and utterances. The three
are for recordings without a text in the middle of speech (`FragmentsFit`), as the
properties are.

`V3ChannelsProofs`. `MoveSafe` (`MovedBefore`), for any channels, users and names: the
list holds no channel twice (`ListInv`), and taking a node out and putting it behind the
predecessor of its target is the move the packet asks for, wherever the two are.

`ChannelsTyped` (`TypeOK`) and `TreeSafe` (`TreeMatches`), for any channels, users, packets
and delay of the GUI. The invariant (`Story`) speaks of the events that are pending, by their
places in the queue. Where an event adds what has a place, nothing after it takes it away
again (`Overtaken`), and the event that adds its parent comes before it; where one adds what
was there before, the old row is gone by then (`Clear`); what no pending event is about has
the row it should have (`Hangs`). To show that the removal of a row takes none of those, the
rows that are not settled are a set that holds all below the removed one (`SettledStays`).
`TreeMatches` excepts a tree that lost the row of the lobby; the invariant holds until an event
that will take that row is queued (`Spoilt`), and that is only the one of a last channel.

`RowSafe` (`RowIsFound`). For each pending CHAN_MODIFY there is a set of channels (`Kept`) that
keep the row it writes to until its turn: each is there or will be added first, no removal
comes in between, and the parent of each is in the set. At first it is the parents of the
channel on the list; an id that is used again leaves it. The theorem is for trees that have
the row of the lobby; the run checks `RowIsFound` without that.

`PathSafe` (`PathNamesChannel`) and `PathsEnd` (`PathIsWhole`), for trees of any depth. That
the recursive functions exist and obey their equations is one lemma (`Recursion`), shown
from the smallest length at which they would not. A channel's parents form a line
(`LineOf`), and only one, because no set of channels is closed under parents
(`NoLoop`, kept by every step); so no channel is twice on a line, a line as long as the list
holds all of it, and the loop upwards ends. Channels in the tree with the same name and the
same parent would be one; so the search downwards finds at each piece of the name the next
channel of the line (`DescentIs`).

`AudioOutputProofs`. `PlaybackSafe` (`PlayedInFull`): what was played, what is collected
and what waits are together the pieces 1, 2, ... in order, with zeros behind the last
(`Line`). `PointersSafe` (`HeldIsAlive`): a stream the GUI holds has no 0 on its queue
(`Unfinished`), so its thread has no reason to end but a failure or the session.

`AudioInputProofs`. `ListensWhenAsked` (`NoHotMic`): what a thread is about to erase from
`inputAudio` is itself, nothing, or an object in `torn` (`Erases`); a thread at its end
has been told to stop, by the GUI or by itself. `SpeechIsBracketed` (`Bracketed`): whoever says
start or sends audio has its own flag set (`xmit`, `Speaking`) and clears it only with a stop, so
when no flag is set the last thing accepted is a stop or the stop was lost (`Told`), whatever
the threads did beside each other. While they did not overlap and nothing was lost, at most one
object runs (`Alone`) and the wire is open if and only if its flag is set (`Heard`, `Tidy`).

`GuiConnectionProofs`. `ConnectsOnce` (`OneConnection`), `ButtonIsRight` (`ButtonTells`),
for any number of attempts and any delay: as long as nobody is hasty, each phase of the
one thread there is fixes what the button looks like (`Looks`), and that is what keeps
the next attempt from being made. `AttemptsInTurn` (`InTurn`) follows from the same invariant:
an attempt begins only when the thread before it is through `_v3_logout` and its DISCONNECT
is taken.

`PathIsWhole` and `OneConnection`, which follows from `InTurn`, are defined beside their proofs
and are in no run.

Only model-checked: the liveness properties, since liveness under fairness and ENABLED are
out of the prover's reach. The two properties that must be violated (section 5) are refuted by TLC.

## 5. What the code does otherwise than it says

Two runs must end in a counterexample; the line each contradicts is in `PROJECT.json`:

* `logout_twice`: `_v3_logout` runs twice when the pipe and the socket are ready
  together; the strings of `v3_luser` are freed twice. Android really calls
  `v3_logout` twice (`ServerView.java`, `ServerList.java`).
* `userlist_copy`: `v3_get_user` copies outside its critical section.

Other behaviour that surprises is in the models and excepted by name in a property, or
listed under "hazards" only; no line of the repository promises the opposite:

* 0x49 removes the channel before it queues the event, and `v3_queue_event` makes every event
  name channel 0 while there is no channel (6902). The comment there thinks of users who may not
  see channels; but when the last channel of any list is removed the GUI removes the row of the
  lobby, with every user, in the middle of the session. `TreeMatches` excepts what follows.
* With two consumers, as on Android, a non-blocking `v3_get_event` can wait.
* The walk over the phantoms of a user continues from a freed node (5049).
* LOGIN is handled before the login is complete, LOGOUT is not (`mangler.cpp:1124`).
* DISCONNECT is queued before the connection is closed (5722 against the closing below
  it); 0x46 writes to a user whose look-up has released the lock (6398).
* Ctrl+C in the jukebox writes a logout to the pipe and interrupts `select()`, whose failure
  ends the receive loop (1382, 1255): the logout is not served, no DISCONNECT is queued, and the
  connection, the pipe and the login flag stay (`AllOrNothing`, `EndIsNotified`,
  `LogoutIsServed` name the case).
* A logout that meets a full pipe is dropped without a word (5513): `AcceptedIsServed`
  and `LogoutIsServed` speak of what the pipe accepted. So is a start or stop of speech
  (`Bracketed`), and the request a locked form waits for (`FormUnlocks`, `FormIsCurrent`).
* A crash between the table and the header of a recording makes the recovery list every
  segment twice, the second time without sound (`RecoveredIsSpoken` says so).
* `v3_vrf_record_stop` takes `vrfh_mutex` and then the user list, a 0x5d removal the
  other way round: a deadlock. `LookUpReturns` excepts a recording that goes on.
* USER_CHAN_MOVE and the mute events use `outputAudio` after the session is over
  (`mangler.cpp:1297`, `1623`), when its objects may be gone (`HeldIsAlive`).
* Two microphone threads that overlap (`overlap`) take turns on the pipe: the stop of the old one
  comes in the middle of the speech of the new one. `Bracketed` then claims only the last stop.
* `stopTransmit`, called from a timer, may use an `inputAudio` that a dying thread has just
  cleared (`mangler.cpp:884`): the client crashes.
* A microphone thread that dies may erase a new object from `inputAudio` (`torn`), and
  after a failure `isTransmitting` stays set until every key is released.
* `ShowFailure` sets `wantDisconnect`: after one retry that fails, the client does not
  try again. Two clicks, or quick connect, can start two network threads (`hasty`).
* Settings that arrive late unlock the form during an update; closing the window then
  leaves the server with half of it (`CutOnlyLate`).

## 6. Not modelled, and what could follow

The library and the GTK client are modelled where they are concurrent or stateful. What
is left, and why:

* **Ranks, accounts, permissions**: lists written like the channels, by the network
  thread only, and copied out. A model would be `V3Channels` with other names.
* **Message of the day, server information, admin messages**: one actor, one buffer, one
  lock.
* **Message codec, audio packets, handshake and ciphers**: copying between bytes and
  structures, and constant tables; the other side, which alone could contradict them, is
  not in the repository.
* **Configuration file, windows, G15, OSD, text integration, audio backends, test
  client**: sequential, or calls of system libraries.
* **Jukebox, Android and iPhone**: their use of the event queue is modelled; their
  playlists and screens are sequential.
* **Vendored codecs, generated code, sound data**: most of the lines of the repository
  (`sounds/*.h`, `src/manglerui.h`, the codecs under `android/jni`) are of this kind, which
  is why the lines the models stand for are a small share of all.

Of the modelled components these parts are left out: in the recorder `v3_vrf_put_info`,
the editing calls and failed writes; in the user list the fields of a user and
`v3_get_user_list`; in the channels their fields and rights.

Worth proving next: that `V3UserList` and `V3Channels` agree on the rows of users.
