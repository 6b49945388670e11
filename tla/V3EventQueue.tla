----------------------------- MODULE V3EventQueue -----------------------------
(***************************************************************************)
(* The inbound event queue of libventrilo3.c: _v3_eventq, a linked list    *)
(* behind eventq_mutex and eventq_cond.  The network thread and, for its   *)
(* own bookkeeping, an API thread call v3_queue_event; the application     *)
(* calls v3_get_event, blocking or not:                                    *)
(*                                                                         *)
(*   GUI, iPhone     one thread that polls (V3_NONBLOCK)                   *)
(*   jukebox         one thread that polls while it plays music and blocks *)
(*                   while it does not                                     *)
(*   Android         EventService blocks; the thread that logs in calls    *)
(*                   v3_get_event(V3_NONBLOCK) to initialise the mutex     *)
(*                                                                         *)
(* A critical section is one step.  The tests of eventq_mutex and of       *)
(* _v3_eventq made without the lock are steps of their own.                *)
(***************************************************************************)
EXTENDS Naturals, Sequences, FiniteSets

CONSTANTS
  Producers,   (* threads that call v3_queue_event                         *)
  Blocking,    (* threads that call v3_get_event(V3_BLOCK)                 *)
  Polling,     (* threads that call v3_get_event(V3_NONBLOCK); a thread    *)
               (* may do both                                              *)
  MaxQueued,   (* bound: events queued                                     *)
  Spurious     (* TRUE: pthread_cond_wait may return without a signal      *)

ASSUME QueueAssumption == MaxQueued \in Nat /\ Spurious \in BOOLEAN

Consumers == Blocking \cup Polling

\* "enter": on the way to the lock; "waiting": in pthread_cond_wait;
\* "woken": out of it, on the way back to the lock.
PCs == {"out", "enter", "waiting", "woken"}

VARIABLES
  ready,      (* eventq_mutex is not NULL                                   *)
  putting,    (* producers past the test of eventq_mutex                    *)
  eventq,     (* the list, by the number given to each event                *)
  pc,         (* per consumer                                               *)
  block,      (* per consumer: the argument of its call                     *)
  queued,     (* events put on the list so far                              *)
  got,        (* events returned so far, in order                           *)
  crashed,    (* a NULL pointer was dereferenced; the process is gone       *)
  early       (* history: a wait has returned without a signal              *)

threadVars == <<pc, block>>
vars == <<ready, putting, eventq, threadVars, queued, got, crashed, early>>

TypeOK ==
  /\ ready \in BOOLEAN /\ crashed \in BOOLEAN /\ early \in BOOLEAN
  /\ putting \in SUBSET Producers
  /\ eventq \in Seq(Nat) /\ got \in Seq(Nat)
  /\ pc \in [Consumers -> PCs]
  /\ block \in [Consumers -> BOOLEAN]
  /\ queued \in Nat /\ Len(got) <= queued

Init ==
  /\ ready = FALSE /\ putting = {}
  /\ eventq = <<>> /\ queued = 0 /\ got = <<>>
  /\ pc = [c \in Consumers |-> "out"]
  /\ block = [c \in Consumers |-> FALSE]
  /\ crashed = FALSE /\ early = FALSE

Goto(c, to) == pc' = [pc EXCEPT ![c] = to]
-----------------------------------------------------------------------------
(* v3_queue_event.                                                         *)

\* Without a mutex nobody is listening: the event is freed, nothing is kept.
PutCheck(p) ==
  /\ p \notin putting
  /\ ready /\ queued + Cardinality(putting) < MaxQueued
  /\ putting' = putting \cup {p}
  /\ UNCHANGED <<ready, eventq, threadVars, queued, got, crashed, early>>

\* pthread_cond_signal: one of the waiting threads, if there is any.
Waiting == {c \in Consumers : pc[c] = "waiting"}
Signal  == IF Waiting = {} THEN UNCHANGED pc ELSE \E c \in Waiting : Goto(c, "woken")

\* Mutants: the signal is forgotten; the new event becomes the head.
PutSilently(p) ==
  /\ p \in putting
  /\ putting' = putting \ {p}
  /\ queued' = queued + 1
  /\ eventq' = Append(eventq, queued + 1)
  /\ UNCHANGED <<ready, threadVars, got, crashed, early>>

PutInFront(p) ==
  /\ p \in putting
  /\ putting' = putting \ {p}
  /\ queued' = queued + 1
  /\ eventq' = <<queued + 1>> \o eventq
  /\ IF eventq = <<>> THEN Signal ELSE UNCHANGED pc
  /\ UNCHANGED <<ready, block, got, crashed, early>>

\* Behind the last event; only the first one on an empty list is signalled.
Put(p) ==
  /\ p \in putting
  /\ putting' = putting \ {p}
  /\ queued' = queued + 1
  /\ eventq' = Append(eventq, queued + 1)
  /\ IF eventq = <<>> THEN Signal ELSE UNCHANGED pc
  /\ UNCHANGED <<ready, block, got, crashed, early>>
-----------------------------------------------------------------------------
(* v3_get_event.                                                           *)

Allowed(c) == {b \in BOOLEAN : c \in IF b THEN Blocking ELSE Polling}

\* Mutant: the test for V3_NONBLOCK is missing.
CallUnchecked(c) ==
  /\ pc[c] = "out"
  /\ ready' = TRUE
  /\ \E b \in Allowed(c) : block' = [block EXCEPT ![c] = b]
  /\ Goto(c, "enter")
  /\ UNCHANGED <<putting, eventq, queued, got, crashed, early>>

\* The mutex is created on the first call.  V3_NONBLOCK returns NULL if the
\* list is empty, a test made before the lock is taken.
Call(c) ==
  /\ pc[c] = "out"
  /\ ready' = TRUE
  /\ \E b \in Allowed(c) :
       /\ block' = [block EXCEPT ![c] = b]
       /\ IF ~b /\ eventq = <<>> THEN UNCHANGED pc ELSE Goto(c, "enter")
  /\ UNCHANGED <<putting, eventq, queued, got, crashed, early>>

\* ev = _v3_eventq; _v3_eventq = ev->next
Take(c) ==
  IF eventq = <<>>
  THEN crashed' = TRUE /\ UNCHANGED <<eventq, got, pc>>
  ELSE /\ got' = Append(got, Head(eventq))
       /\ eventq' = Tail(eventq)
       /\ Goto(c, "out")
       /\ UNCHANGED crashed

\* Mutant: an empty list is not waited for.
EnterNoWait(c) ==
  /\ pc[c] = "enter"
  /\ Take(c)
  /\ UNCHANGED <<ready, putting, block, queued, early>>

\* With the lock: wait if the list is empty, whatever the argument was.
Enter(c) ==
  /\ pc[c] = "enter"
  /\ IF eventq = <<>>
     THEN Goto(c, "waiting") /\ UNCHANGED <<eventq, got, crashed>>
     ELSE Take(c)
  /\ UNCHANGED <<ready, putting, block, queued, early>>

\* Back from pthread_cond_wait: the list is not tested again.
Woken(c) ==
  /\ pc[c] = "woken"
  /\ Take(c)
  /\ UNCHANGED <<ready, putting, block, queued, early>>

WakeSpuriously(c) ==
  /\ Spurious /\ pc[c] = "waiting"
  /\ Goto(c, "woken")
  /\ early' = TRUE
  /\ UNCHANGED <<ready, putting, eventq, block, queued, got, crashed>>
-----------------------------------------------------------------------------
Produce(p) == PutCheck(p) \/ Put(p)
Consume(c) == Call(c) \/ Enter(c) \/ Woken(c)

Next ==
  /\ ~crashed
  /\ \/ \E p \in Producers : Produce(p)
     \/ \E c \in Consumers : Consume(c) \/ WakeSpuriously(c)

Spec == Init /\ [][Next]_vars

\* A producer leaves the critical section it has entered; a consumer is a
\* loop (or a 10 ms timer) around v3_get_event.
FairSpec ==
  /\ Spec
  /\ \A p \in Producers : WF_vars(~crashed /\ Put(p))
  /\ \A c \in Consumers : WF_vars(~crashed /\ Consume(c))
-----------------------------------------------------------------------------
(* Properties.                                                             *)

\* With one consumer ev is not NULL where v3_get_event dereferences it, unless
\* pthread_cond_wait, which is not in a loop, returned without a signal.
NeverNull == crashed => early

\* No wakeup is lost: a thread that waits and was not signalled has nothing
\* to wait for, although only the first of several events is signalled.
NoneStranded == Waiting # {} => eventq = <<>>

\* libventrilo3.c:6940, "if we're not blocking and ev is NULL, just return
\* NULL": a call with V3_NONBLOCK does not wait.
NonblockReturns == \A c \in Waiting : block[c]

\* The queue implements EventFifo, however the threads interleave.
Fifo == INSTANCE EventFifo WITH accepted <- queued, taken <- got
ImplementsFifo == Fifo!Spec

\* Every event that was put on the list is returned, if the process lives.
EventIsTaken == \A i \in 1..MaxQueued : queued >= i ~> (Len(got) >= i \/ crashed)
=============================================================================
