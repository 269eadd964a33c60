----------------------------- MODULE StreamRead -----------------------------
(***************************************************************************)
(* mp4tag_data_read and mp4tag_data_seek: how the parser gets its bytes,   *)
(* from a file or through the callbacks of a stream.  The source may make  *)
(* its bytes available late, the read callback may return any part of what *)
(* is there, and the clock the timeout is measured with may be set.  Bytes *)
(* stand for their place in the source.  Times are in milliseconds.        *)
(***************************************************************************)
EXTENDS Integers

CONSTANTS
  Timeout,    \* libmp4tag->timeout
  Sleep,      \* MP4TAG_SLEEP_TIME
  Jitter,     \* how much longer a sleep takes, and how long a callback takes
  Size,       \* bytes of the source
  ReadSizes,  \* what the parser asks for
  SkipSizes,  \* how far the parser seeks
  MaxCalls,   \* bound: reads and seeks of a behaviour
  MaxAdjust,  \* bound: how far the clock is set back and forward in a read
  MaxTime     \* bound: how long time passes in a read

ASSUME StreamAssumption ==
  /\ Timeout \in Nat /\ Sleep \in Nat \ {0} /\ Jitter \in Nat
  /\ Size \in Nat
  /\ ReadSizes \subseteq Nat /\ SkipSizes \subseteq Nat
  /\ MaxCalls \in Nat /\ MaxAdjust \in Nat /\ MaxTime \in Nat

Never == -1

VARIABLES
  isstream,
  pc,        \* "idle" between two calls, "read" in the callback, "sleep"
  result,    \* what the last call has returned
  offset,    \* libmp4tag->offset
  sz,        \* what the call under way, or the last, is to read
  bwant, totbr,
  buff,      \* the bytes the caller gets
  tmval,     \* when the read gives up
  pos,       \* where the source is
  arrived,   \* bytes the source has
  clock,     \* gettimeofday
  elapsed,   \* how long the read lasts, and for how long it has been at pc
  spent,
  back,      \* how far the clock has been set back and forward in this read
  forward,
  ready,     \* when all the bytes of this read had arrived
  held,      \* the callback has returned less than had arrived
  calls

local  == <<sz, bwant, totbr, buff, tmval>>
timing == <<clock, elapsed, spent, back, forward>>
vars == <<isstream, pc, result, offset, local, pos, arrived, timing, ready, held, calls>>

Least(a, b) == IF a < b THEN a ELSE b

\* The bytes that have arrived and were not yet read.
Here == IF arrived > pos THEN arrived - pos ELSE 0

Init ==
  /\ isstream \in BOOLEAN
  /\ pc = "idle" /\ result = "none" /\ offset = 0
  /\ sz = 0 /\ bwant = 0 /\ totbr = 0 /\ buff = [i \in {} |-> 0] /\ tmval = 0
  /\ pos = 0 /\ arrived \in {IF isstream THEN 0 ELSE Size}
  /\ clock = 0 /\ elapsed = 0 /\ spent = 0 /\ back = 0 /\ forward = 0
  /\ ready = Never /\ held = FALSE
  /\ calls = 0

-----------------------------------------------------------------------------
(* The environment: time, the source of the stream, the clock.             *)

\* How long the read may stay where it is.
Patience == IF pc = "sleep" THEN Sleep + Jitter ELSE Jitter

Tick ==
  /\ pc # "idle" /\ isstream
  /\ spent < Patience /\ elapsed < MaxTime
  /\ clock' = clock + 1 /\ elapsed' = elapsed + 1 /\ spent' = spent + 1
  /\ UNCHANGED <<isstream, pc, result, offset, local, pos, arrived, back, forward, ready,
                 held, calls>>

Arrive ==
  /\ isstream /\ arrived < Size
  /\ \E n \in arrived + 1 .. Size : arrived' = n
  /\ ready' = IF pc # "idle" /\ ready = Never /\ arrived' - pos >= bwant
              THEN elapsed ELSE ready
  /\ UNCHANGED <<isstream, pc, result, offset, local, pos, timing, held, calls>>

\* Somebody sets the time of the system.
SetClock ==
  /\ pc # "idle" /\ isstream
  /\ \/ \E n \in 1 .. MaxAdjust - back :
          clock' = clock - n /\ back' = back + n /\ UNCHANGED forward
     \/ \E n \in 1 .. MaxAdjust - forward :
          clock' = clock + n /\ forward' = forward + n /\ UNCHANGED back
  /\ UNCHANGED <<isstream, pc, result, offset, local, pos, arrived, elapsed, spent, ready,
                 held, calls>>

-----------------------------------------------------------------------------
(* mp4tag_data_seek.  A file can be positioned behind its end.             *)

Seek(skiplen) ==
  /\ pc = "idle" /\ calls < MaxCalls
  /\ calls' = calls + 1
  /\ \/ /\ pos' = pos + skiplen /\ offset' = offset + skiplen
        /\ result' = "ok"
     \/ /\ result' = "none" /\ UNCHANGED <<pos, offset>>
  /\ sz' = 0
  /\ UNCHANGED <<isstream, pc, bwant, totbr, buff, tmval, arrived, timing, ready, held>>

-----------------------------------------------------------------------------
(* mp4tag_data_read.                                                       *)

\* Nothing is read if nothing is asked for, and rc keeps its first value,
\* MP4TAG_READ_NONE.
ReadNothing ==
  /\ pc = "idle" /\ calls < MaxCalls
  /\ result' = "none" /\ calls' = calls + 1
  /\ sz' = 0 /\ bwant' = 0 /\ totbr' = 0 /\ buff' = [i \in {} |-> 0]
  /\ UNCHANGED <<isstream, pc, offset, tmval, pos, arrived, timing, ready, held>>

Start(n) ==
  /\ pc = "idle" /\ calls < MaxCalls /\ n > 0
  /\ pc' = "read" /\ result' = "none" /\ calls' = calls + 1
  /\ sz' = n /\ bwant' = n /\ totbr' = 0 /\ buff' = [i \in {} |-> 0]
  /\ tmval' = clock + Timeout
  /\ elapsed' = 0 /\ spent' = 0 /\ back' = 0 /\ forward' = 0
  /\ held' = FALSE
  /\ ready' = IF Here >= n THEN 0 ELSE Never
  /\ UNCHANGED <<isstream, offset, pos, arrived, clock>>

\* Mutant: every piece is put at the start of the buffer.
FilledAtStart(br) ==
  [i \in 0 .. (totbr + br) - 1 |->
     IF i < br THEN pos + i ELSE IF i < totbr THEN buff[i] ELSE 0]

\* br bytes are put behind those the buffer has.
Filled(br) ==
  [i \in 0 .. (totbr + br) - 1 |-> IF i < totbr THEN buff[i] ELSE pos + (i - totbr)]

\* The read ends if it has everything; from a file also if it has not.
After(br) ==
  IF br = bwant
  THEN pc' = "idle" /\ result' = "ok"
  ELSE pc' = (IF isstream THEN "sleep" ELSE "idle") /\ UNCHANGED result

\* Mutant: the callback is given the room of the whole buffer each time.
ReadBytesWhole ==
  /\ pc = "read"
  /\ \E br \in 0 .. Least(sz, Here) :
       /\ totbr' = totbr + br /\ bwant' = bwant - br
       /\ buff' = Filled(br)
       /\ pos' = pos + br /\ offset' = offset + br
       /\ held' = held
       /\ After(br)
  /\ spent' = 0
  /\ UNCHANGED <<isstream, sz, tmval, arrived, clock, elapsed, back, forward, ready, calls>>

\* Mutant: the offset of the handle is that of the last complete read.
ReadBytesCounted ==
  /\ pc = "read"
  /\ \E br \in 0 .. Least(bwant, Here) :
       /\ totbr' = totbr + br /\ bwant' = bwant - br
       /\ buff' = Filled(br)
       /\ pos' = pos + br
       /\ offset' = IF br = bwant THEN offset + sz ELSE offset
       /\ held' = (held \/ br < Least(bwant, Here))
       /\ After(br)
  /\ spent' = 0
  /\ UNCHANGED <<isstream, sz, tmval, arrived, clock, elapsed, back, forward, ready, calls>>

\* fread, or the read callback with the room that is left in the buffer.
ReadBytes ==
  /\ pc = "read"
  /\ \E br \in 0 .. Least(bwant, Here) :
       /\ totbr' = totbr + br /\ bwant' = bwant - br
       /\ buff' = Filled(br)
       /\ pos' = pos + br /\ offset' = offset + br
       /\ held' = (held \/ br < Least(bwant, Here))
       /\ After(br)
  /\ spent' = 0
  /\ UNCHANGED <<isstream, sz, tmval, arrived, clock, elapsed, back, forward, ready, calls>>

\* Mutant: a read that goes on gets a new deadline.
WakeRearmed ==
  /\ pc = "sleep" /\ spent >= Sleep
  /\ IF clock > tmval
     THEN pc' = "idle" /\ UNCHANGED tmval
     ELSE pc' = "read" /\ tmval' = clock + Timeout
  /\ spent' = 0
  /\ UNCHANGED <<isstream, result, offset, sz, bwant, totbr, buff, pos, arrived, clock,
                 elapsed, back, forward, ready, held, calls>>

\* Mutant: the timeout is the time one sleep may take.
WakeEarly ==
  /\ pc = "sleep" /\ spent >= Sleep
  /\ pc' = IF clock + Timeout > tmval THEN "idle" ELSE "read"
  /\ spent' = 0
  /\ UNCHANGED <<isstream, result, offset, local, pos, arrived, clock, elapsed, back,
                 forward, ready, held, calls>>

\* Mutant: the timeout is not looked at.
WakeAlways ==
  /\ pc = "sleep" /\ spent >= Sleep
  /\ pc' = "read" /\ spent' = 0
  /\ UNCHANGED <<isstream, result, offset, local, pos, arrived, clock, elapsed, back,
                 forward, ready, held, calls>>

\* After the sleep the time is looked at first, and then the source again.
Wake ==
  /\ pc = "sleep" /\ spent >= Sleep
  /\ pc' = IF clock > tmval THEN "idle" ELSE "read"
  /\ spent' = 0
  /\ UNCHANGED <<isstream, result, offset, local, pos, arrived, clock, elapsed, back,
                 forward, ready, held, calls>>

Next ==
  \/ Tick \/ Arrive \/ SetClock
  \/ \E n \in SkipSizes : Seek(n)
  \/ ReadNothing
  \/ \E n \in ReadSizes : Start(n)
  \/ ReadBytes \/ Wake

Spec == Init /\ [][Next]_vars

\* The program runs, time passes, and a callback returns.
FairSpec == Spec /\ WF_vars(Tick) /\ WF_vars(ReadBytes) /\ WF_vars(Wake)

-----------------------------------------------------------------------------
(* Properties.                                                             *)

TypeOK ==
  /\ isstream \in BOOLEAN
  /\ pc \in {"idle", "read", "sleep"} /\ result \in {"none", "ok"}
  /\ offset \in Nat /\ pos \in Nat
  /\ sz \in Nat /\ bwant \in Nat /\ totbr \in Nat /\ tmval \in Int
  /\ buff \in [0 .. totbr - 1 -> Nat]
  /\ arrived \in 0 .. Size
  /\ clock \in Int /\ elapsed \in Nat /\ spent \in 0 .. Sleep + Jitter
  /\ back \in 0 .. MaxAdjust /\ forward \in 0 .. MaxAdjust
  /\ ready \in Nat \cup {Never} /\ held \in BOOLEAN
  /\ calls \in 0 .. MaxCalls

\* The offset of the handle is where the source is, also after a read that has
\* timed out with a part of its bytes, and after a seek that has failed: the
\* writer and the parser compute the places of boxes from it.
InStep == pc = "idle" => offset = pos

\* A read that succeeds has all the bytes it was asked for, in the order of the
\* source and without a gap, in however many pieces and with whatever pauses
\* the callback has returned them.
GotAll ==
  pc = "idle" /\ result = "ok" /\ sz > 0 =>
    buff = [i \in 0 .. sz - 1 |-> pos - sz + i]

\* A read of a stream fails only if the bytes come too late: if the clock is
\* not set forward and the callback returns what it has, then some byte had not
\* arrived one sleep before the timeout.  (That sleep is lost: the time is
\* looked at after it, and the source is not asked again.)
FailsOnlyIfLate ==
  pc = "idle" /\ result = "none" /\ isstream /\ sz > 0 =>
    forward > 0 \/ held \/ ready = Never \/ ready > Timeout - (Sleep + Jitter)

\* No read lasts longer than the timeout, a sleep and two callbacks, and what
\* the clock is set back by, however slowly the pieces come.
BoundedWait == elapsed <= Timeout + back + Sleep + 2 * Jitter

\* Every read ends, also if the source delivers nothing more.
ReadEnds == pc # "idle" ~> pc = "idle"
=============================================================================
