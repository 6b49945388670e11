------------------------------ MODULE VrfRecorder ------------------------------
(***************************************************************************)
(* The recorder of libventrilo3.c: what the users say is written to a VRF  *)
(* file, one segment per utterance, by the network thread; the GUI starts  *)
(* and stops the recording and opens files, which recovers those a crash   *)
(* has left unfinished.                                                    *)
(*                                                                         *)
(* Users speak at the same time but the segments of a file follow one      *)
(* another.  So the records of those who speak wait in a queue: only the   *)
(* first, and those behind it that are complete, are written; when the     *)
(* first is stopped it leaves the queue and its row goes to the table that *)
(* will end the file.                                                      *)
(*                                                                         *)
(* A step is what lies between two writes to the file, so that a crash may *)
(* fall between any two of them.  A position in the file is the number of  *)
(* an item (segment header, fragment, table row) instead of a byte offset; *)
(* times, names and sound are left out, and so are failing writes.         *)
(***************************************************************************)
EXTENDS Naturals, Sequences, FiniteSets, SequencesExt

CONSTANTS
  Users,       (* those who speak, the local user among them               *)
  MaxSaid,     (* bound: fragments accepted                                *)
  MaxCrashes   (* bound: crashes of the program                            *)

ASSUME RecorderAssumption == MaxSaid \in Nat /\ MaxCrashes \in Nat

Types == {"ext", "text"}
Events == {"audio", "text", "stop", "flush"}
Requests == [event : Events, user : Users]

\* What a file is made of.  index: the segment's; no: the number of a fragment,
\* or the position of the segment a row is about; count: fragcount.
Items == [what : {"segment", "fragment", "row"}, type : Types, user : Users,
          index : Nat, no : Nat, count : Nat]

\* _v3_vrf_rec.  offset is 0 as long as segment.valid is.
Records == [user : Users, type : Types, index : Nat, count : Nat,
            data : Seq(Items), offset : Nat, stopped : BOOLEAN]

Headers == [headid : {"none", "TEMPRECD", "VENTRECD"}, segcount : Nat, segtable : Nat]

Places == {"idle", "write", "retire", "scan", "fix", "table", "header"}

VARIABLES
  disk,      (* the header in the file; headid "none": there is no file     *)
  file,      (* what follows the header                                     *)
  recording, (* v3_vrfh is not NULL                                         *)
  stopping,  (* v3_vrfh->stopped                                            *)
  owner,     (* of vrfh_mutex                                               *)
  pending,   (* the event whose recording has passed the first test         *)
  at, k,     (* where the code that holds the file is, and its loop counter *)
  queue,     (* v3_vrfh->queue; <<>>: its head is all zero                  *)
  segcount,  (* vrfh->header.segcount                                       *)
  segtable,  (* vrfh->header.segtable                                       *)
  table,     (* vrfh->table                                                 *)
  spoken,    (* what was accepted, by utterance                             *)
  said,      (* fragments accepted so far                                   *)
  crashes    (* crashes so far                                              *)

handleVars == <<queue, segcount, segtable, table>>
pastVars == <<spoken, said, crashes>>
vars == <<disk, file, recording, stopping, owner, pending, at, k, handleVars, pastVars>>

TypeOK ==
  /\ disk \in Headers /\ file \in Seq(Items)
  /\ recording \in BOOLEAN /\ stopping \in BOOLEAN
  /\ owner \in {"nobody", "net", "ui"}
  /\ pending \in SUBSET Requests
  /\ at \in Places /\ k \in Nat
  /\ queue \in Seq(Records) /\ segcount \in Nat /\ segtable \in Nat
  /\ table \in Seq(Items)
  /\ spoken \in Seq([user : Users, frags : Seq(Nat)])
  /\ said \in Nat /\ crashes \in Nat

Init ==
  /\ disk = [headid |-> "none", segcount |-> 0, segtable |-> 0] /\ file = <<>>
  /\ recording = FALSE /\ stopping = FALSE /\ owner = "nobody" /\ pending = {}
  /\ at = "idle" /\ k = 1
  /\ queue = <<>> /\ segcount = 0 /\ segtable = 0 /\ table = <<>>
  /\ spoken = <<>> /\ said = 0 /\ crashes = 0
-----------------------------------------------------------------------------
\* v3_vrf_record_start: a new file with a temporary header.
RecordStart ==
  /\ ~recording /\ at = "idle" /\ disk.headid = "none"
  /\ disk' = [headid |-> "TEMPRECD", segcount |-> 0, segtable |-> 0]
  /\ recording' = TRUE
  /\ UNCHANGED <<file, stopping, owner, pending, at, k, handleVars, pastVars>>

\* The record the loops over the queue find for a user: the first open one.
Open(u) ==
  LET own == {i \in DOMAIN queue : queue[i].user = u /\ ~queue[i].stopped}
  IN  {i \in own : \A j \in own : i <= j}

\* _v3_vrf_record_event, the test made before the mutex is taken.
EventCheck ==
  /\ recording /\ pending = {} /\ owner /= "net"
  /\ \E r \in Requests :
       /\ r.event \in {"audio", "text"} => said < MaxSaid
       /\ pending' = {r}
  /\ UNCHANGED <<disk, file, recording, stopping, owner, at, k, handleVars, pastVars>>

SegmentHeader(u, t, i) ==
  [what |-> "segment", type |-> t, user |-> u, index |-> i, no |-> 0, count |-> 0]

Fragment(u, t, i) ==
  [what |-> "fragment", type |-> t, user |-> u, index |-> i, no |-> said + 1, count |-> 0]

Row(type, u, i, pos) ==
  [what |-> "row", type |-> type, user |-> u, index |-> i, no |-> pos, count |-> 0]

\* A fragment for the record the user has open.
Continue(u, t, i) ==
  /\ queue' = [queue EXCEPT ![i].data = Append(@, Fragment(u, t, queue[i].index)),
                            ![i].count = @ + 1, ![i].stopped = (t = "text")]
  /\ spoken' = [spoken EXCEPT ![queue[i].index + 1].frags = Append(@, said + 1)]
  /\ UNCHANGED segcount

\* The first fragment of a new record, at the end of the queue.
Begin(u, t) ==
  /\ queue' = Append(queue,
       [user |-> u, type |-> t, index |-> segcount, count |-> 1, offset |-> 0,
        data |-> <<SegmentHeader(u, t, segcount), Fragment(u, t, segcount)>>,
        stopped |-> (t = "text")])
  /\ spoken' = Append(spoken, [user |-> u, frags |-> <<said + 1>>])
  /\ segcount' = segcount + 1

Data(u, t) ==
  /\ IF Open(u) = {} THEN Begin(u, t)
     ELSE \E i \in Open(u) : Continue(u, t, i)
  /\ said' = said + 1

StopRecords(S) ==
  /\ queue' = [i \in DOMAIN queue |->
       [queue[i] EXCEPT !.stopped = @ \/ i \in S]]
  /\ UNCHANGED <<segcount, spoken, said>>

Enqueue(event, u) ==
  \/ event = "audio" /\ Data(u, "ext")
  \/ event = "text" /\ Data(u, "text")
  \/ event = "stop" /\ StopRecords(Open(u))
  \/ event = "flush" /\ StopRecords(DOMAIN queue)

BeginWriting(who) ==
  /\ owner' = who
  /\ at' = (IF queue' = <<>> THEN "retire" ELSE "write")
  /\ k' = 1

\* _v3_vrf_record_event once it has the mutex, up to the first write.  A user
\* who is not on the list any more turns every event into a flush.
EventLock ==
  /\ owner = "nobody"
  /\ \E r \in pending :
       IF recording
       THEN /\ Enqueue(r.event, r.user) \/ Enqueue("flush", r.user)
            /\ BeginWriting("net")
       ELSE UNCHANGED <<owner, at, k, queue, segcount, spoken, said>>
  /\ pending' = {}
  /\ UNCHANGED <<disk, file, recording, stopping, segtable, table, crashes>>

\* Mutants: a record that has been begun is written again only when it is
\* complete; the loop does not end at one that is not complete.
WritesTwice == queue[k].data /= <<>> /\ ((k = 1 /\ queue[k].offset = 0) \/ queue[k].stopped)
GoesOnPast == k < Len(queue)

\* What the writing loop finds to do for its k-th record, and whether it goes on.
Writes == queue[k].data /= <<>> /\ (k = 1 \/ queue[k].stopped)
GoesOn == queue[k].stopped /\ k < Len(queue)

WriteRecord ==
  /\ at = "write"
  /\ IF Writes
     THEN /\ file' = file \o queue[k].data
          /\ queue' = [queue EXCEPT
               ![k].offset = IF @ = 0 THEN Len(file) + 1 ELSE @, ![k].data = <<>>]
     ELSE UNCHANGED <<file, queue>>
  /\ IF GoesOn THEN at' = "write" /\ k' = k + 1 ELSE at' = "retire" /\ k' = 1
  /\ UNCHANGED <<disk, recording, stopping, owner, pending, segcount, segtable, table, pastVars>>

\* Mutants: the header is not written again; it is written without the seek to
\* its place.
RetireUncounted ==
  /\ at = "retire" /\ queue /= <<>> /\ queue[1].stopped
  /\ LET rec == queue[1] IN
       table' = Append(table, Row(rec.type, rec.user, rec.index, rec.offset))
  /\ queue' = Tail(queue)
  /\ UNCHANGED <<disk, file, recording, stopping, owner, pending, at, k, segcount, segtable, pastVars>>

RetireUnsought ==
  /\ at = "retire" /\ queue /= <<>> /\ queue[1].stopped
  /\ LET rec == queue[1] IN
       /\ table' = Append(table, Row(rec.type, rec.user, rec.index, rec.offset))
       /\ file' = [file EXCEPT ![Len(file)] = [file[rec.offset] EXCEPT !.count = rec.count]]
  /\ queue' = Tail(queue)
  /\ UNCHANGED <<disk, recording, stopping, owner, pending, at, k, segcount, segtable, pastVars>>

\* The head of the queue is complete: its row, and its header again with the
\* number of its fragments.
Retire ==
  /\ at = "retire" /\ queue /= <<>> /\ queue[1].stopped
  /\ LET rec == queue[1] IN
       /\ table' = Append(table, Row(rec.type, rec.user, rec.index, rec.offset))
       /\ file' = [file EXCEPT ![rec.offset].count = rec.count]
  /\ queue' = Tail(queue)
  /\ UNCHANGED <<disk, recording, stopping, owner, pending, at, k, segcount, segtable, pastVars>>

\* The end of _v3_vrf_record_event, called by v3_vrf_record_stop or not.
EventEnd ==
  /\ at = "retire" /\ ~(queue /= <<>> /\ queue[1].stopped)
  /\ IF owner = "ui" THEN at' = "table" /\ UNCHANGED owner
     ELSE at' = "idle" /\ owner' = "nobody"
  /\ UNCHANGED <<disk, file, recording, stopping, pending, k, handleVars, pastVars>>
-----------------------------------------------------------------------------
\* v3_vrf_record_stop, before and after it has the mutex.
RecordStop ==
  /\ recording /\ ~stopping
  /\ stopping' = TRUE
  /\ UNCHANGED <<disk, file, recording, owner, pending, at, k, handleVars, pastVars>>

StopLock ==
  /\ stopping /\ owner = "nobody"
  /\ StopRecords(DOMAIN queue)
  /\ BeginWriting("ui")
  /\ UNCHANGED <<disk, file, recording, stopping, pending, segtable, table, crashes>>

\* _v3_vrf_record_finish, for a recording or for a recovery.
FinishTable ==
  /\ at = "table"
  /\ file' = file \o table /\ table' = <<>>
  /\ segtable' = Len(file) + 1
  /\ at' = "header"
  /\ UNCHANGED <<disk, recording, stopping, owner, pending, k, queue, segcount, pastVars>>

FinishHeader ==
  /\ at = "header"
  /\ disk' = [headid |-> "VENTRECD", segcount |-> segcount, segtable |-> segtable]
  /\ recording' = FALSE /\ stopping' = FALSE /\ owner' = "nobody"
  /\ at' = "idle" /\ k' = 1
  /\ UNCHANGED <<file, pending, handleVars, pastVars>>
-----------------------------------------------------------------------------
Forget ==
  /\ recording' = FALSE /\ stopping' = FALSE /\ owner' = "nobody"
  /\ at' = "idle" /\ k' = 1
  /\ queue' = <<>> /\ segcount' = 0 /\ segtable' = 0 /\ table' = <<>>

\* The program is killed, or crashes, with the file open.
Crash ==
  /\ recording \/ at /= "idle"
  /\ crashes < MaxCrashes
  /\ Forget
  /\ pending' = {} /\ crashes' = crashes + 1
  /\ UNCHANGED <<disk, file, spoken, said>>

\* v3_vrf_init on a file whose header is still the temporary one.
Recover ==
  /\ ~recording /\ at = "idle" /\ disk.headid = "TEMPRECD"
  /\ at' = "scan" /\ k' = 1 /\ segcount' = 0 /\ table' = <<>>
  /\ UNCHANGED <<disk, file, recording, stopping, owner, pending, queue, segtable, pastVars>>

\* A header of 64 bytes begins a segment; a table row has 64 bytes too.
ScanSegment ==
  /\ at = "scan" /\ k <= Len(file) /\ file[k].what /= "fragment"
  /\ table' = Append(table, Row(file[k].type, file[k].user, segcount, k))
  /\ segcount' = segcount + 1 /\ k' = k + 1
  /\ UNCHANGED <<disk, file, recording, stopping, owner, pending, at, queue, segtable, pastVars>>

\* A fragment, which is read as its segment's type says.  One of another type
\* has its length in another place: the scan goes on behind the end of the file.
ScanFragment ==
  /\ at = "scan" /\ k <= Len(file) /\ file[k].what = "fragment" /\ segcount > 0
  /\ table' = [table EXCEPT ![segcount].count = @ + 1]
  /\ k' = (IF table[segcount].type = file[k].type THEN k + 1 ELSE Len(file) + 1)
  /\ UNCHANGED <<disk, file, recording, stopping, owner, pending, at, queue, segcount,
                 segtable, pastVars>>

\* "unknown header length", after such a fragment, and "got fragment first".
ScanFails ==
  /\ at = "scan" /\ k <= Len(file) /\ file[k].what = "fragment"
  /\ ~(segcount > 0 /\ table[segcount].type = file[k].type)
  /\ Forget
  /\ UNCHANGED <<disk, file, pending, pastVars>>

\* Mutant: the table is written without the counts.
ScanEndUncounted ==
  /\ at = "scan" /\ k > Len(file)
  /\ at' = "table" /\ k' = 1
  /\ UNCHANGED <<disk, file, recording, stopping, owner, pending, handleVars, pastVars>>

ScanEnd ==
  /\ at = "scan" /\ k > Len(file)
  /\ at' = (IF segcount = 0 THEN "table" ELSE "fix") /\ k' = 1
  /\ UNCHANGED <<disk, file, recording, stopping, owner, pending, handleVars, pastVars>>

\* The headers of the segments get the number of fragments that were found.
FixHeader ==
  /\ at = "fix"
  /\ file' = [file EXCEPT ![table[k].no].count = table[k].count]
  /\ table' = [table EXCEPT ![k].count = 0]
  /\ IF k < segcount THEN at' = "fix" /\ k' = k + 1 ELSE at' = "table" /\ k' = 1
  /\ UNCHANGED <<disk, recording, stopping, owner, pending, queue, segcount, segtable, pastVars>>
-----------------------------------------------------------------------------
Next ==
  \/ RecordStart \/ EventCheck \/ EventLock \/ WriteRecord \/ Retire \/ EventEnd
  \/ RecordStop \/ StopLock \/ FinishTable \/ FinishHeader
  \/ Crash \/ Recover \/ ScanSegment \/ ScanFragment \/ ScanFails \/ ScanEnd \/ FixHeader

Spec == Init /\ [][Next]_vars
-----------------------------------------------------------------------------
\* v3_vrf_get_segment and v3_vrf_get_audio: what playing row i of the table yields.
Played(i) ==
  LET row == file[disk.segtable + i - 1]
  IN  [user |-> row.user,
       frags |-> [j \in 1..file[row.no].count |-> file[row.no + j].no]]

Finished == disk.headid = "VENTRECD"

\* libventrilo3.h: a segment of type 0x03 has fragments with headers of 0x18
\* bytes, none with the length of a text.
FragmentsFit ==
  \A p \in DOMAIN file : file[p].what = "fragment" => file[p].type = file[p - 1].type

\* Every fragment lies directly behind its own segment's header or behind a
\* fragment of the same segment: users who speak together are not interleaved.
Contiguous ==
  \A p \in DOMAIN file : file[p].what = "fragment" =>
     /\ p > 1 /\ file[p - 1].what /= "row"
     /\ file[p - 1].index = file[p].index /\ file[p - 1].user = file[p].user

\* A recording that was stopped plays exactly what was said, utterance by
\* utterance, in the order in which they began.
SavedIsSpoken ==
  Finished /\ crashes = 0 /\ FragmentsFit =>
     /\ disk.segcount = Len(spoken)
     /\ \A i \in DOMAIN spoken : Played(i) = spoken[i]

\* The rows of a table that a crash has left without a header are taken for
\* headers by the recovery: only the segments before them are counted here.
Recovered == Cardinality({p \in DOMAIN file : file[p].what = "segment"})

\* A recovered file plays the utterances from the first one on, all of them
\* complete but the last, and every fragment the file holds; if it lists more
\* segments than that, they are silent.
RecoveredIsSpoken ==
  Finished /\ crashes > 0 /\ FragmentsFit =>
     /\ Recovered <= Len(spoken) /\ Recovered <= disk.segcount
     /\ \A i \in 1..Recovered :
          /\ Played(i).user = spoken[i].user
          /\ IsPrefix(Played(i).frags, spoken[i].frags)
          /\ i < Recovered => Played(i).frags = spoken[i].frags
     /\ \A i \in Recovered + 1 .. disk.segcount : Played(i).frags = <<>>
     /\ \A p \in DOMAIN file : file[p].what = "fragment" =>
          \E i \in 1..Recovered : \E j \in DOMAIN Played(i).frags :
             Played(i).frags[j] = file[p].no

\* Between two events everything said is in the file, but for utterances that
\* had to wait for their turn: of one that has been begun a crash loses nothing.
LossIsBounded ==
  recording /\ owner = "nobody" =>
     \A i \in DOMAIN spoken :
        \/ \A j \in DOMAIN spoken[i].frags :
              \E p \in DOMAIN file : file[p].what = "fragment" /\ file[p].no = spoken[i].frags[j]
        \/ \E q \in DOMAIN queue : queue[q].index = i - 1 /\ queue[q].offset = 0

\* No fragment, and nothing of a header but its count, is ever overwritten: the
\* offsets the queue and the table keep are those of headers.
NothingOverwritten ==
  [][ /\ Len(file) <= Len(file')
      /\ \A p \in DOMAIN file :
           IF file[p].what = "fragment" THEN file'[p] = file[p]
           ELSE file'[p] = [file[p] EXCEPT !.count = file'[p].count] ]_file
=============================================================================
