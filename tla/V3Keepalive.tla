----------------------------- MODULE V3Keepalive -----------------------------
(***************************************************************************)
(* The timestamp message 0x4b, which the client sends every 10 seconds     *)
(* from the timeout of select() in v3_message_waiting (libventrilo3.c).    *)
(*                                                                         *)
(* The network thread computes how long to wait from the wall clock, in    *)
(* seconds and microseconds, waits for the socket or the pipe, handles     *)
(* what it finds and comes back.  Time passes in it unless select() has to *)
(* return at once.                                                         *)
(***************************************************************************)
EXTENDS Integers

CONSTANTS
  Second,    (* microseconds in a second (1000000)                          *)
  Interval,  (* seconds between two timestamps (10)                         *)
  MaxTime    (* bound: the wall clock, in microseconds                      *)

ASSUME KeepaliveAssumption ==
  /\ Second \in Nat \ {0} /\ Interval \in Nat \ {0}
  /\ MaxTime \in Nat

VARIABLES
  stage,           (* of the network thread                                 *)
  now,             (* what gettimeofday returns                             *)
  last_timestamp,  (* v3_server.last_timestamp                              *)
  tv,              (* microseconds until select() times out                 *)
  ready,           (* the socket or the pipe has something to read          *)
  since, gap,      (* history: time since the last 0x4b, and from the one   *)
                   (* before to that one, whatever the clock says           *)
  busy,            (* history: time has passed outside select() since the   *)
                   (* next 0x4b is due                                      *)
  set              (* history: the clock was set since the last 0x4b        *)

KAvars == <<stage, now, last_timestamp, tv, ready, since, gap, busy, set>>

KATypeOK ==
  /\ stage \in {"call", "select", "handle", "failed"}
  /\ now \in 0..MaxTime /\ last_timestamp \in 0..MaxTime
  /\ tv \in Nat /\ since \in Nat /\ gap \in Nat
  /\ ready \in BOOLEAN /\ busy \in BOOLEAN /\ set \in BOOLEAN

\* v3_login takes the time when it has connected.
KAInit ==
  /\ stage = "call"
  /\ now \in 0..(Second - 1) /\ last_timestamp = now
  /\ tv = 0 /\ ready = FALSE
  /\ since = 0 /\ gap = Interval * Second /\ busy = FALSE /\ set = FALSE
-----------------------------------------------------------------------------
Timeval(t) == [sec |-> t \div Second, usec |-> t % Second]

\* Mutant: nothing is borrowed.
BorrowNothing(last, n) == n

\* A second of now is turned into microseconds if last has fewer of them.
Borrow(last, n) ==
  IF last.usec < n.usec
  THEN LET nsec == (n.usec - last.usec) \div Second + 1
       IN [sec |-> n.sec + nsec, usec |-> n.usec - Second * nsec]
  ELSE n

\* _v3_next_timestamp: the difference, or 0 if it is negative.
NextTimestamp(t, n) ==
  LET last   == [Timeval(t) EXCEPT !.sec = @ + Interval]
      b      == Borrow(last, Timeval(n))
      result == [sec |-> last.sec - b.sec, usec |-> last.usec - b.usec]
  IN IF result.sec < 0 THEN [sec |-> 0, usec |-> 0] ELSE result

\* What select() takes for a timeout.
Valid(timeval) == timeval.usec \in 0..(Second - 1)

Wait(timeval) ==
  /\ stage' = IF Valid(timeval) THEN "select" ELSE "failed"
  /\ tv' = timeval.sec * Second + timeval.usec
-----------------------------------------------------------------------------
\* v3_message_waiting, up to select().
Call ==
  /\ stage = "call"
  /\ Wait(NextTimestamp(last_timestamp, now))
  /\ UNCHANGED <<now, last_timestamp, ready, since, gap, busy, set>>

\* select() returns 0: the message is sent, and it waits again.
Timeout ==
  /\ stage = "select" /\ tv = 0 /\ ~ready
  /\ last_timestamp' = now
  /\ Wait(NextTimestamp(now, now))
  /\ since' = 0 /\ gap' = (IF set THEN gap ELSE since)
  /\ busy' = FALSE /\ set' = FALSE
  /\ UNCHANGED <<now, ready>>

\* select() returns a descriptor; _v3_recv drains the pipe or reads a message.
Return ==
  /\ stage = "select" /\ ready
  /\ stage' = "handle" /\ ready' = FALSE
  /\ UNCHANGED <<now, last_timestamp, tv, since, gap, busy, set>>

Handled ==
  /\ stage = "handle" /\ stage' = "call"
  /\ UNCHANGED <<now, last_timestamp, tv, ready, since, gap, busy, set>>

Thread == Call \/ Timeout \/ Return \/ Handled

Arrive ==
  /\ ~ready /\ ready' = TRUE
  /\ UNCHANGED <<stage, now, last_timestamp, tv, since, gap, busy, set>>

Tick ==
  /\ now < MaxTime /\ now' = now + 1
  /\ \/ stage = "select" /\ tv > 0 /\ ~ready /\ tv' = tv - 1 /\ UNCHANGED busy
     \/ stage = "handle" /\ busy' = (busy \/ since >= Interval * Second) /\ UNCHANGED tv
  /\ since' = since + 1
  /\ UNCHANGED <<stage, last_timestamp, ready, gap, set>>

\* Somebody, or NTP, sets the clock: at most once between two timestamps.
SetClock ==
  /\ ~set /\ set' = TRUE
  /\ now' \in 0..MaxTime
  /\ UNCHANGED <<stage, last_timestamp, tv, ready, since, gap, busy>>

KANext == Thread \/ Arrive \/ Tick \/ SetClock

KASpec == KAInit /\ [][KANext]_KAvars
-----------------------------------------------------------------------------
\* Two timestamps are never less than the interval apart; one is late only if
\* the thread handled something when it was due; and select() gets a timeout
\* it can take.  All this unless the clock was set in between.
KeepsTime ==
  /\ stage # "failed"
  /\ gap >= Interval * Second
  /\ ~set /\ since > Interval * Second => busy
=============================================================================
