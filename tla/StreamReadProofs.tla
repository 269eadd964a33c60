-------------------------- MODULE StreamReadProofs --------------------------
(***************************************************************************)
(* The safety of StreamRead for every timeout, every size of the source    *)
(* and of the reads, and every way the bytes arrive.                       *)
(***************************************************************************)
EXTENDS StreamRead, TLAPS

Busy == pc # "idle"

\* The t bytes before the place p of the source.
From(p, t) == [i \in 0 .. t - 1 |-> p - t + i]

\* What the buffer has are the last bytes the source has given.
Placed == buff = From(pos, totbr)

\* Wanted and read bytes add up, and the buffer is filled from the start.
Progress ==
  /\ Busy => result = "none" /\ sz > 0 /\ bwant > 0 /\ bwant + totbr = sz
  /\ sz > 0 => Placed
  /\ ~ Busy /\ result = "ok" /\ sz > 0 => totbr = sz

\* The clock shows the time of the read, set back and forward.
Clocked ==
  Busy /\ isstream => clock = tmval - Timeout + elapsed + forward - back

\* A source is asked again only before the timeout.
Asked ==
  /\ pc = "read" => spent <= Jitter /\ elapsed - spent <= Timeout + back
  /\ pc = "sleep" => elapsed - spent <= Timeout + back + Jitter
  /\ BoundedWait

\* Once all the bytes of the read are there the time is known, and then the
\* callback has either not been asked since or has held some back.
Noted ==
  /\ Busy => (ready # Never <=> arrived - pos >= bwant)
  /\ ready # Never => ready <= elapsed
  /\ pc = "sleep" /\ ~ held => ready = Never \/ ready >= elapsed - spent

IInv ==
  /\ TypeOK /\ offset = pos
  /\ Progress /\ Clocked /\ Asked /\ Noted
  /\ FailsOnlyIfLate
  /\ pc = "sleep" => isstream

-----------------------------------------------------------------------------
(* Each step keeps it.  The buffer is dealt with on its own, the times and *)
(* the counts by arithmetic.                                               *)

\* The part of the invariant without the buffer.
Counts ==
  /\ TypeOK /\ offset = pos
  /\ Busy => result = "none" /\ sz > 0 /\ bwant > 0 /\ bwant + totbr = sz
  /\ ~ Busy /\ result = "ok" /\ sz > 0 => totbr = sz
  /\ Clocked /\ Asked /\ Noted /\ FailsOnlyIfLate
  /\ pc = "sleep" => isstream

\* The program starts in a state of the invariant.
LEMMA InitIInv == Init => IInv
<1> SUFFICES ASSUME Init PROVE IInv
  OBVIOUS
<1> USE StreamAssumption DEF StreamAssumption
<1>1. buff \in [0 .. totbr - 1 -> Nat]
  <2>1. 0 .. totbr - 1 = {}
    BY DEF Init
  <2> QED BY <2>1 DEF Init
<1>2. TypeOK
  <2>1. arrived \in 0 .. Size
    BY DEF Init
  <2>2. /\ isstream \in BOOLEAN /\ pc = "idle" /\ result = "none" /\ offset = 0
        /\ sz = 0 /\ bwant = 0 /\ totbr = 0 /\ tmval = 0 /\ pos = 0
        /\ clock = 0 /\ elapsed = 0 /\ spent = 0 /\ back = 0 /\ forward = 0
        /\ ready = Never /\ held = FALSE /\ calls = 0
    BY DEF Init
  <2>3. held \in BOOLEAN /\ isstream \in BOOLEAN
    BY <2>2
  <2>4. spent \in 0 .. Sleep + Jitter /\ back \in 0 .. MaxAdjust
        /\ forward \in 0 .. MaxAdjust /\ calls \in 0 .. MaxCalls
    BY <2>2
  <2>5. clock \in Int /\ elapsed \in Nat /\ tmval \in Int
        /\ offset \in Nat /\ pos \in Nat /\ sz \in Nat /\ bwant \in Nat /\ totbr \in Nat
    BY <2>2
  <2> QED BY <1>1, <2>1, <2>2, <2>3, <2>4, <2>5, Zenon DEF TypeOK
<1> QED
  BY <1>2 DEF Init, IInv, Progress, Clocked, Asked, Noted, FailsOnlyIfLate, BoundedWait,
              Busy, Never

LEMMA TickStep == IInv /\ Tick => IInv'
<1> SUFFICES ASSUME IInv, Tick PROVE IInv'
  OBVIOUS
<1> USE StreamAssumption DEF StreamAssumption
<1>1. TypeOK'
  BY DEF IInv, TypeOK, Tick, local, Patience
<1>2. (sz > 0 => Placed)'
  BY DEF IInv, Progress, Placed, Tick, local
<1>3. Clocked' /\ Asked'
  BY DEF IInv, TypeOK, Clocked, Asked, BoundedWait, Busy, Tick, Patience, local
<1>4. Noted' /\ FailsOnlyIfLate'
  BY DEF IInv, TypeOK, Noted, FailsOnlyIfLate, Busy, Tick, local, Never
<1>5. Counts'
  BY <1>1, <1>3, <1>4 DEF Counts, IInv, Progress, Busy, Tick, local
<1> QED BY <1>2, <1>5 DEF IInv, Counts, Progress

LEMMA ArriveStep == IInv /\ Arrive => IInv'
<1> SUFFICES ASSUME IInv, Arrive PROVE IInv'
  OBVIOUS
<1> USE StreamAssumption DEF StreamAssumption
<1>1. TypeOK'
  BY DEF IInv, TypeOK, Arrive, local, timing, Never
<1>2. (sz > 0 => Placed)'
  BY DEF IInv, Progress, Placed, Arrive, local
<1>3. Clocked' /\ Asked'
  BY DEF IInv, Clocked, Asked, BoundedWait, Busy, Arrive, timing, local
<1>4. Noted' /\ FailsOnlyIfLate'
  BY DEF IInv, TypeOK, Noted, FailsOnlyIfLate, Busy, Arrive, local, timing, Never
<1>5. Counts'
  BY <1>1, <1>3, <1>4 DEF Counts, IInv, Progress, Busy, Arrive, local
<1> QED BY <1>2, <1>5 DEF IInv, Counts, Progress

LEMMA SetClockStep == IInv /\ SetClock => IInv'
<1> SUFFICES ASSUME IInv, SetClock PROVE IInv'
  OBVIOUS
<1> USE StreamAssumption DEF StreamAssumption
<1>1. TypeOK'
  BY DEF IInv, TypeOK, SetClock, local
<1>2. (sz > 0 => Placed)'
  BY DEF IInv, Progress, Placed, SetClock, local
<1>3. Clocked'
  BY DEF IInv, TypeOK, Clocked, Busy, SetClock, local
<1>4. Asked'
  <2>1. PICK n \in Nat : back' = back + n
    <3>1. back \in Nat
      BY DEF IInv, TypeOK
    <3>2. back' = back \/ \E n \in 1 .. MaxAdjust - back : back' = back + n
      BY DEF SetClock
    <3>3. CASE back' = back
      <4>1. back' = back + 0
        BY <3>1, <3>3
      <4> QED BY <4>1
    <3>4. CASE \E n \in 1 .. MaxAdjust - back : back' = back + n
      BY <3>1, <3>4
    <3> QED BY <3>2, <3>3, <3>4
  <2>2. pc' = pc /\ elapsed' = elapsed /\ spent' = spent
    BY DEF SetClock
  <2>3. elapsed \in Nat /\ spent \in Nat /\ back \in Nat
    BY DEF IInv, TypeOK
  <2>4. Asked
    BY DEF IInv
  <2> QED BY <2>1, <2>2, <2>3, <2>4 DEF Asked, BoundedWait
<1>5. Noted' /\ FailsOnlyIfLate'
  BY DEF IInv, TypeOK, Noted, FailsOnlyIfLate, Busy, SetClock, local, Never
<1>6. Counts'
  BY <1>1, <1>3, <1>4, <1>5 DEF Counts, IInv, Progress, Busy, SetClock, local
<1> QED BY <1>2, <1>6 DEF IInv, Counts, Progress

LEMMA SeekStep == ASSUME NEW n \in SkipSizes PROVE IInv /\ Seek(n) => IInv'
<1> SUFFICES ASSUME IInv, Seek(n) PROVE IInv'
  OBVIOUS
<1> USE StreamAssumption DEF StreamAssumption
<1>1. TypeOK'
  BY DEF IInv, TypeOK, Seek, timing
<1>2. (sz > 0 => Placed)'
  BY DEF Seek
<1>3. Counts'
  BY <1>1 DEF Counts, IInv, TypeOK, Clocked, Asked, Noted, FailsOnlyIfLate, BoundedWait,
              Busy, Seek, timing
<1> QED BY <1>2, <1>3 DEF IInv, Counts, Progress

LEMMA ReadNothingStep == IInv /\ ReadNothing => IInv'
<1> SUFFICES ASSUME IInv, ReadNothing PROVE IInv'
  OBVIOUS
<1> USE StreamAssumption DEF StreamAssumption
<1>1. buff' \in [0 .. totbr' - 1 -> Nat]
  <2>1. 0 .. totbr' - 1 = {}
    BY DEF ReadNothing
  <2> QED BY <2>1 DEF ReadNothing
<1>2. TypeOK'
  BY <1>1 DEF IInv, TypeOK, ReadNothing, timing
<1>3. (sz > 0 => Placed)'
  BY DEF ReadNothing
<1>4. Counts'
  BY <1>2 DEF Counts, IInv, TypeOK, Clocked, Asked, Noted, FailsOnlyIfLate, BoundedWait,
              Busy, ReadNothing, timing
<1> QED BY <1>3, <1>4 DEF IInv, Counts, Progress

LEMMA StartStep == ASSUME NEW n \in ReadSizes PROVE IInv /\ Start(n) => IInv'
<1> SUFFICES ASSUME IInv, Start(n) PROVE IInv'
  OBVIOUS
<1> USE StreamAssumption DEF StreamAssumption
<1>1. totbr' = 0 /\ 0 .. totbr' - 1 = {} /\ buff' = [i \in {} |-> 0]
  <2>1. totbr' = 0 /\ buff' = [i \in {} |-> 0]
    BY DEF Start
  <2>2. 0 .. totbr' - 1 = {}
    BY <2>1
  <2> QED BY <2>1, <2>2
<1>2. TypeOK'
  <2>1. buff' \in [0 .. totbr' - 1 -> Nat]
    BY <1>1
  <2>2. n \in Nat /\ tmval' \in Int /\ spent' \in 0 .. Sleep + Jitter
        /\ ready' \in Nat \cup {Never}
    BY DEF IInv, TypeOK, Start
  <2>3. held' \in BOOLEAN /\ isstream' \in BOOLEAN
    BY DEF IInv, TypeOK, Start
  <2>4. /\ sz' \in Nat /\ bwant' \in Nat /\ totbr' \in Nat
        /\ offset' \in Nat /\ pos' \in Nat /\ arrived' \in 0 .. Size
    BY <2>2 DEF IInv, TypeOK, Start
  <2>5. /\ clock' \in Int /\ elapsed' \in Nat
        /\ back' \in 0 .. MaxAdjust /\ forward' \in 0 .. MaxAdjust
    BY DEF IInv, TypeOK, Start
  <2>6. calls' \in 0 .. MaxCalls
    BY DEF IInv, TypeOK, Start
  <2>7. pc' = "read" /\ result' = "none"
    BY DEF Start
  <2> QED BY <2>1, <2>2, <2>3, <2>4, <2>5, <2>6, <2>7, Zenon DEF TypeOK
<1>3. Placed'
  BY <1>1 DEF Placed, From
<1>4. Counts'
  BY <1>2 DEF Counts, IInv, TypeOK, Clocked, Asked, Noted, FailsOnlyIfLate, BoundedWait,
              Busy, Start, Here, Never
<1> QED BY <1>3, <1>4 DEF IInv, Counts, Progress

\* The bytes of a piece continue those the buffer has.
LEMMA FilledPlaced ==
  ASSUME TypeOK, Placed, NEW br \in Nat
  PROVE  /\ Filled(br) = From(pos + br, totbr + br)
         /\ Filled(br) \in [0 .. (totbr + br) - 1 -> Nat]
<1>1. totbr \in Nat /\ pos \in Nat /\ buff \in [0 .. totbr - 1 -> Nat]
  BY DEF TypeOK
<1>2. ASSUME NEW i \in 0 .. (totbr + br) - 1
      PROVE  LET v == IF i < totbr THEN buff[i] ELSE pos + (i - totbr)
             IN v = (pos + br) - (totbr + br) + i /\ v \in Nat
  <2>1. CASE i < totbr
    <3>1. i \in 0 .. totbr - 1
      BY <1>1, <2>1
    <3>2. buff[i] = pos - totbr + i /\ buff[i] \in Nat
      BY <1>1, <3>1 DEF Placed, From
    <3> QED BY <1>1, <2>1, <3>2
  <2>2. CASE i >= totbr
    BY <1>1, <2>2
  <2> QED BY <1>1, <2>1, <2>2
<1>3. totbr + br \in Nat
  BY <1>1
<1>4. Filled(br) = From(pos + br, totbr + br)
  <2> DEFINE v(i) == IF i < totbr THEN buff[i] ELSE pos + (i - totbr)
             w(i) == (pos + br) - (totbr + br) + i
  <2>1. \A i \in 0 .. (totbr + br) - 1 : v(i) = w(i)
    BY <1>2
  <2>2. Filled(br) = [i \in 0 .. (totbr + br) - 1 |-> v(i)]
    BY DEF Filled
  <2>3. From(pos + br, totbr + br) = [i \in 0 .. (totbr + br) - 1 |-> w(i)]
    BY DEF From
  <2> HIDE DEF v, w
  <2> QED BY <2>1, <2>2, <2>3
<1>5. Filled(br) \in [0 .. (totbr + br) - 1 -> Nat]
  BY <1>2 DEF Filled
<1> QED BY <1>4, <1>5

LEMMA ReadBytesStep == IInv /\ ReadBytes => IInv'
<1> SUFFICES ASSUME IInv, ReadBytes PROVE IInv'
  OBVIOUS
<1> USE StreamAssumption DEF StreamAssumption
<1>1. PICK br \in 0 .. Least(bwant, Here) :
        /\ totbr' = totbr + br /\ bwant' = bwant - br
        /\ buff' = Filled(br)
        /\ pos' = pos + br /\ offset' = offset + br
        /\ held' = (held \/ br < Least(bwant, Here))
        /\ After(br)
  BY DEF ReadBytes
<1>2. br \in Nat /\ br <= bwant /\ br <= Here
      /\ (br < bwant /\ ~ held' => arrived - pos < bwant)
  <2>1. bwant \in Nat /\ Here \in Nat /\ held \in BOOLEAN
    BY DEF IInv, TypeOK, Here
  <2>2. br \in Nat /\ br <= bwant /\ br <= Here
    BY <1>1, <2>1 DEF Least
  <2>3. ASSUME br < bwant, ~ held' PROVE br >= Here
    <3>1. ~ (br < Least(bwant, Here))
      BY <1>1, <2>3, Zenon
    <3> QED BY <2>1, <2>2, <2>3, <3>1 DEF Least
  <2>4. br < bwant /\ ~ held' => Here < bwant
    BY <2>1, <2>2, <2>3
  <2> QED BY <2>1, <2>2, <2>4 DEF Here, IInv, TypeOK
<1>3. pc = "read" /\ spent' = 0
      /\ UNCHANGED <<isstream, sz, tmval, arrived, clock, elapsed, back, forward, ready, calls>>
  BY DEF ReadBytes
<1>4. Placed /\ TypeOK /\ sz > 0
  BY <1>3 DEF IInv, Progress, Busy
<1>5. Placed' /\ buff' \in [0 .. totbr' - 1 -> Nat]
  <2>1. Filled(br) = From(pos + br, totbr + br)
    BY <1>2, <1>4, FilledPlaced
  <2>2. Filled(br) \in [0 .. (totbr + br) - 1 -> Nat]
    BY <1>2, <1>4, FilledPlaced
  <2>3. buff' = Filled(br) /\ totbr' = totbr + br /\ pos' = pos + br
    BY <1>1
  <2>4. Placed'
    BY <2>1, <2>3 DEF Placed
  <2> DEFINE Bytes(t) == [0 .. t - 1 -> Nat]
  <2>5. buff' \in Bytes(totbr')
    <3>1. Filled(br) \in Bytes(totbr + br)
      BY <2>2
    <3> HIDE DEF Bytes
    <3> QED BY <2>3, <3>1
  <2> QED BY <2>4, <2>5
<1>6. pc' \in {"idle", "sleep"} /\ result' \in {"none", "ok"}
  BY <1>1, <1>4 DEF After, TypeOK
<1>7. held' \in BOOLEAN
  BY <1>1, <1>4 DEF TypeOK
<1>8. bwant' \in Nat /\ totbr' \in Nat /\ pos' \in Nat /\ offset' \in Nat
  <2>1. br \in Nat /\ br <= bwant /\ bwant \in Nat /\ totbr \in Nat /\ pos \in Nat /\ offset \in Nat
    BY <1>2, <1>4 DEF TypeOK
  <2>2. bwant' = bwant - br /\ totbr' = totbr + br /\ pos' = pos + br /\ offset' = offset + br
    BY <1>1
  <2> QED BY <2>1, <2>2
<1>9. TypeOK'
  <2>1. spent' \in 0 .. Sleep + Jitter
    BY <1>3
  <2> QED BY <1>3, <1>4, <1>5, <1>6, <1>7, <1>8, <2>1 DEF TypeOK
<1>10. /\ offset' = pos'
       /\ Busy' => result' = "none" /\ sz' > 0 /\ bwant' > 0 /\ bwant' + totbr' = sz'
       /\ ~ Busy' /\ result' = "ok" /\ sz' > 0 => totbr' = sz'
  BY <1>1, <1>2, <1>3, <1>4 DEF IInv, TypeOK, Progress, Busy, After
<1>11. Clocked' /\ Asked'
  BY <1>1, <1>3, <1>4 DEF IInv, TypeOK, Clocked, Asked, BoundedWait, Busy, After
<1>12. Noted'
  BY <1>1, <1>2, <1>3, <1>4 DEF IInv, TypeOK, Noted, Busy, After, Never
<1>13. FailsOnlyIfLate' /\ (pc' = "sleep" => isstream')
  BY <1>1, <1>3, <1>4, <1>10 DEF IInv, TypeOK, FailsOnlyIfLate, Busy, After, Progress
<1>14. Counts'
  BY <1>9, <1>10, <1>11, <1>12, <1>13 DEF Counts
<1> QED BY <1>5, <1>14 DEF IInv, Counts, Progress

LEMMA WakeStep == IInv /\ Wake => IInv'
<1> SUFFICES ASSUME IInv, Wake PROVE IInv'
  OBVIOUS
<1> USE StreamAssumption DEF StreamAssumption
<1>1. TypeOK'
  BY DEF IInv, TypeOK, Wake, local
<1>2. (sz > 0 => Placed)'
  BY DEF IInv, Progress, Placed, Wake, local
<1>3. Clocked' /\ Asked'
  BY DEF IInv, TypeOK, Clocked, Asked, BoundedWait, Busy, Wake, local
<1>4. Noted' /\ FailsOnlyIfLate'
  BY DEF IInv, TypeOK, Noted, FailsOnlyIfLate, Clocked, Busy, Wake, local, Never
<1>5. Counts'
  BY <1>1, <1>3, <1>4 DEF Counts, IInv, Progress, Busy, Wake, local
<1> QED BY <1>2, <1>5 DEF IInv, Counts, Progress

\* The inductive invariant.
THEOREM StreamInductive == Spec => []IInv
<1>1. IInv /\ [Next]_vars => IInv'
  <2> SUFFICES ASSUME IInv, [Next]_vars PROVE IInv'
    OBVIOUS
  <2>1. CASE UNCHANGED vars
    BY <2>1 DEF IInv, TypeOK, Progress, Placed, Clocked, Asked, Noted, FailsOnlyIfLate,
                BoundedWait, Busy, vars, local, timing
  <2>2. CASE Next
    BY <2>2, TickStep, ArriveStep, SetClockStep, SeekStep, ReadNothingStep, StartStep,
       ReadBytesStep, WakeStep DEF Next
  <2> QED BY <2>1, <2>2
<1> QED BY <1>1, InitIInv, PTL DEF Spec

\* The types of the counters and times of mp4tag_data_read: in particular the
\* room that is left in the caller's buffer is never negative.
THEOREM StreamTypes == Spec => []TypeOK
<1>1. IInv => TypeOK
  BY DEF IInv
<1> QED BY <1>1, StreamInductive, PTL

\* The offset of the handle stays that of the source, after reads and seeks
\* that fail too.
THEOREM StreamInStep == Spec => []InStep
<1>1. IInv => InStep
  BY DEF IInv, InStep
<1> QED BY <1>1, StreamInductive, PTL

\* A read that succeeds returns the next bytes of the source without a gap,
\* for every way the callback cuts them into pieces.
THEOREM StreamGotAll == Spec => []GotAll
<1>1. IInv => GotAll
  BY DEF IInv, GotAll, Progress, Placed, From, Busy
<1> QED BY <1>1, StreamInductive, PTL

\* A read fails only if the bytes come later than a sleep before the timeout,
\* for every timeout, length of the sleep and delay.
THEOREM StreamFailsOnlyIfLate == Spec => []FailsOnlyIfLate
<1>1. IInv => FailsOnlyIfLate
  BY DEF IInv
<1> QED BY <1>1, StreamInductive, PTL

\* No read takes longer than the timeout, a sleep, two callbacks and what the
\* clock is set back by.
THEOREM StreamBoundedWait == Spec => []BoundedWait
<1>1. IInv => BoundedWait
  BY DEF IInv, Asked
<1> QED BY <1>1, StreamInductive, PTL
=============================================================================
