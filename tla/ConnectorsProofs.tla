----------------------------- MODULE ConnectorsProofs -----------------------------
(***************************************************************************)
(* Proofs about Cdc, for any number of files, lines and configurations:     *)
(* types, and that every pipeline keeps the promise of AtLeastOnce.  And    *)
(* about Feeds with the twin it feeds, for any events, batches, names and   *)
(* similarities: accepted events are kept, entities keep their identity,    *)
(* duplicates get no nodes, and what is delivered again adds no facts.      *)
(***************************************************************************)
EXTENDS Cdc, Feeds, SequenceTheorems, WellFoundedInduction, TLAPS

\* What became of every line a position is past.
Torn == IF mode.follow \/ mode.strict THEN {} ELSE garbled

Accounted == received \cup Malformed \cup missed \cup Torn

\* Only a stream that waits for its consumer holds a line.
HoldsOne == reader.pc \in {"reading", "ingested"} => reader.holds = {}

\* The last line of a full file is finished.
Bounded == \A f \in Files : size[f].full = MaxLines => size[f].part = 0

OnlyWritten ==
    /\ received \subseteq Written
    /\ reader # Down => reader.holds \subseteq Written

ReaderAccounts ==
    reader # Down => Touched(reader.pos, reader.file) \subseteq Accounted \cup reader.holds

OffsetAccounts == Touched(offset.pos, offset.file) \subseteq Accounted

IInv ==
    /\ TypeOK /\ Bounded /\ HoldsOne /\ OnlyWritten
    /\ ReaderAccounts /\ OffsetAccounts

--------------------------------------------------------------------------------
(* What one call of readline does to a position *)

LEMMA TopIsPosition == Top \in Position /\ Top.full = 0 /\ Top.part = 0
  BY CdcAssumption DEF Top, Position

LEMMA PositionFields ==
    ASSUME NEW p \in Position
    PROVE  p.full \in 0..MaxLines /\ p.part \in 0..2
  BY DEF Position

\* A stream that is up has all the fields of one.
LEMMA ReaderFields ==
    ASSUME TypeOK, reader # Down
    PROVE  /\ reader \in [pc : {"reading", "yielded", "ingested"}, file : Files,
                          pos : Position, holds : SUBSET Lines, taken : Nat]
           /\ reader.file \in Files /\ reader.pos \in Position
           /\ reader.holds \subseteq Lines /\ size[reader.file] \in Position
  BY DEF TypeOK, Reader

LEMMA UpIsNotDown ==
    ASSUME reader.pc # "down"
    PROVE  reader # Down
  BY DEF Down

\* The next line is one a file can hold, and reading on touches only it.
LEMMA RestIsNext ==
    ASSUME TypeOK, Bounded, reader # Down, ~AtEnd
    PROVE  /\ Rest \in Position
           /\ Line \in Lines
           /\ Touched(Rest, reader.file) \subseteq Touched(reader.pos, reader.file) \cup {Line}
<1> DEFINE p == reader.pos
           s == size[reader.file]
<1>1. /\ p.full \in 0..MaxLines /\ p.part \in 0..2
      /\ s.full \in 0..MaxLines /\ s.part \in 0..2
      /\ s \in Position /\ MaxLines \in Nat
      /\ s.full = MaxLines => s.part = 0
      /\ reader.file \in Files
  BY ReaderFields, PositionFields, CdcAssumption DEF Bounded
<1>2. s.full > p.full \/ (s.full = p.full /\ s.part > p.part)
  BY DEF AtEnd, Beyond
<1>3. p.full + 1 \in 1..MaxLines
  BY <1>1, <1>2
<1>4. Line \in Lines
  BY <1>1, <1>3 DEF Line, Lines
<1>5. CASE s.full > p.full
  <2>1. Rest = [full |-> p.full + 1, part |-> 0]
    BY <1>5 DEF Rest
  <2>2. Rest \in Position /\ Rest.full = p.full + 1 /\ Rest.part = 0
    BY <2>1, <1>3 DEF Position
  <2>3. ASSUME NEW l \in Touched(Rest, reader.file)
        PROVE  l \in Touched(p, reader.file) \/ l = Line
    BY <2>2, <2>3, <1>1 DEF Touched, Line, Lines
  <2>4. QED BY <2>2, <2>3, <1>4
<1>6. CASE ~(s.full > p.full)
  <2>1. Rest = s /\ s.full = p.full
    BY <1>6, <1>2, <1>1 DEF Rest
  <2>2. ASSUME NEW l \in Touched(Rest, reader.file)
        PROVE  l \in Touched(p, reader.file) \/ l = Line
    BY <2>1, <2>2, <1>1 DEF Touched, Line, Lines
  <2>3. QED BY <2>1, <2>2, <1>1, <1>4
<1>7. QED BY <1>5, <1>6

\* A line of which the whole record was read is in the file.
LEMMA RecordIsWritten ==
    ASSUME TypeOK, Bounded, reader # Down, ~AtEnd, IsRecord
    PROVE  Line \in Written
<1> DEFINE p == reader.pos
           s == size[reader.file]
<1>1. /\ p.full \in 0..MaxLines /\ p.part = 0
      /\ s.full \in 0..MaxLines /\ s.part \in 0..2
  BY ReaderFields, PositionFields DEF IsRecord, HasRecord
<1>2. s.full > p.full \/ (s.full = p.full /\ s.part > 0)
  BY <1>1 DEF AtEnd, Beyond
<1>3. s.full > p.full \/ s.part # 1
  BY DEF IsRecord, HasRecord, Rest
<1>4. Line[1] = reader.file /\ Line[2] = p.full + 1
  BY DEF Line
<1>5. s.full >= Line[2] \/ (s.full = Line[2] - 1 /\ s.part = 2)
  BY <1>1, <1>2, <1>3, <1>4
<1>6. QED BY <1>4, <1>5, RestIsNext DEF Written

--------------------------------------------------------------------------------
(* Types *)

LEMMA InitTypeOK == Init => TypeOK /\ Bounded
<1> SUFFICES ASSUME Init PROVE TypeOK /\ Bounded
  OBVIOUS
<1>1. 1 \in Files /\ Top \in Position
  BY CdcAssumption, TopIsPosition DEF Files
<1>2. TypeOK
  BY <1>1 DEF Init, TypeOK, Reader, Files
<1>3. Bounded
  BY <1>1, TopIsPosition DEF Init, Bounded
<1>4. QED BY <1>2, <1>3

\* The source only gets longer, and no longer than it may be.
LEMMA GrowExtends ==
    ASSUME TypeOK, Bounded, Grow
    PROVE  /\ size' \in [Files -> Position] /\ Bounded'
           /\ Written \subseteq Written'
<1> DEFINE o == size[source]
           n == IF o.part = 2 THEN [full |-> o.full + 1, part |-> 0]
                ELSE [full |-> o.full, part |-> o.part + 1]
<1>1. /\ source \in Files /\ o \in Position /\ MaxLines \in Nat
      /\ o.full \in 0..MaxLines /\ o.part \in 0..2 /\ o.full < MaxLines
  BY CdcAssumption, PositionFields DEF TypeOK, Grow
<1>2. /\ n \in Position
      /\ n.full = IF o.part = 2 THEN o.full + 1 ELSE o.full
      /\ n.part = IF o.part = 2 THEN 0 ELSE o.part + 1
  BY <1>1 DEF Position
<1>3. size' = [size EXCEPT ![source] = n]
  BY DEF Grow
<1> HIDE DEF n
<1>4. size' \in [Files -> Position]
  BY <1>1, <1>2, <1>3 DEF TypeOK
<1>5. \A f \in Files : size'[f] = IF f = source THEN n ELSE size[f]
  BY <1>3 DEF TypeOK
<1>6. Bounded'
  BY <1>1, <1>2, <1>5 DEF Bounded
<1>7. ASSUME NEW l \in Written
      PROVE  l \in Written'
  <2>1. l \in Lines /\ l[1] \in Files /\ l[2] \in 1..MaxLines
    BY DEF Written, Lines
  <2>2. /\ size[l[1]] \in Position /\ size[l[1]].full \in 0..MaxLines
        /\ size[l[1]].part \in 0..2
    BY <2>1, PositionFields DEF TypeOK
  <2>3. \/ size[l[1]].full >= l[2]
        \/ size[l[1]].full = l[2] - 1 /\ size[l[1]].part = 2
    BY DEF Written
  <2>4. CASE l[1] = source
    BY <1>1, <1>2, <1>5, <2>1, <2>2, <2>3, <2>4 DEF Written
  <2>5. CASE l[1] # source
    BY <1>5, <2>1, <2>3, <2>5 DEF Written
  <2>6. QED BY <2>4, <2>5
<1>8. QED BY <1>4, <1>6, <1>7

LEMMA LoadedIsPosition == TypeOK => Loaded \subseteq Position
  BY TopIsPosition DEF TypeOK, Loaded

LEMMA NextTypeOK ==
    ASSUME TypeOK, Bounded, [Next]_vars
    PROVE  TypeOK' /\ Bounded'
<1>1. CASE Grow
  BY <1>1, GrowExtends DEF TypeOK, Grow
<1>2. CASE Rotate
  <2>1. source' \in Files
    <3>1. source' = source + 1 /\ source < MaxFiles
      BY <1>2 DEF Rotate
    <3>2. QED BY <3>1, CdcAssumption DEF TypeOK, Files
  <2>2. reader' \in Reader
    <3>1. CASE reader' = reader
      BY <3>1 DEF TypeOK
    <3>2. ASSUME NEW p \in Position, reader # Down,
                 reader' = [reader EXCEPT !.file = source', !.pos = p]
          PROVE  reader' \in Reader
      BY <3>2, <2>1, ReaderFields DEF Reader
    <3>3. QED BY <1>2, <3>1, <3>2 DEF Rotate
  <2>3. missed' \subseteq Lines
    BY <1>2 DEF Rotate, TypeOK, Touched
  <2>4. QED BY <1>2, <2>1, <2>2, <2>3 DEF Rotate, TypeOK, Bounded
<1>3. CASE Reset
  <2>1. offset' \in [pos : Position, file : Files]
    BY <1>3, TopIsPosition DEF Reset, TypeOK
  <2>2. QED BY <1>3, <2>1 DEF Reset, TypeOK, Bounded
<1>4. CASE Open
  <2>1. reader' \in Reader
    <3>1. {} \in SUBSET Lines /\ 0 \in Nat /\ source \in Files /\ Loaded \subseteq Position
      BY LoadedIsPosition DEF TypeOK
    <3>2. QED BY <1>4, <3>1 DEF Open, Reader
  <2>2. missed' \subseteq Lines
    BY <1>4 DEF Open, TypeOK, Touched
  <2>3. QED BY <1>4, <2>1, <2>2 DEF Open, TypeOK, Bounded
<1>5. CASE End
  <2>1. reader # Down
    BY <1>5, UpIsNotDown DEF End
  <2>2. offset' \in [pos : Position, file : Files] /\ reader' \in Reader
    BY <1>5, <2>1, ReaderFields DEF End, Save, Reader
  <2>3. QED BY <1>5, <2>2 DEF End, TypeOK, Bounded
<1>6. CASE Skip
  <2>1. reader # Down /\ ~AtEnd
    BY <1>6, UpIsNotDown DEF Skip, Waits
  <2>2. Rest \in Position /\ Line \in Lines
    BY <2>1, RestIsNext
  <2>3. offset' \in [pos : Position, file : Files]
    BY <1>6, <2>1, <2>2, ReaderFields DEF Skip, Save, TypeOK
  <2>4. reader' \in Reader
    BY <1>6, <2>1, <2>2, ReaderFields DEF Skip, Consumed, Reader
  <2>5. garbled' \subseteq Lines
    BY <1>6, <2>2 DEF Skip, TypeOK
  <2>6. QED BY <1>6, <2>3, <2>4, <2>5 DEF Skip, TypeOK, Bounded
<1>7. CASE Yield
  <2>1. reader # Down /\ ~AtEnd
    BY <1>7, UpIsNotDown DEF Yield, Waits
  <2>2. Rest \in Position /\ {Line} \in SUBSET Lines
    BY <2>1, RestIsNext
  <2>3. reader' \in Reader
    BY <1>7, <2>1, <2>2, ReaderFields DEF Yield, Consumed, Reader
  <2>4. QED BY <1>7, <2>3 DEF Yield, TypeOK, Bounded
<1>8. CASE Deliver
  <2>1. reader # Down
    BY <1>8, UpIsNotDown DEF Deliver
  <2>2. received' \subseteq Lines
    BY <1>8, <2>1, ReaderFields DEF Deliver, TypeOK
  <2>3. reader' \in Reader
    <3>1. reader.taken \in Nat /\ reader.taken + 1 \in Nat /\ 0 \in Nat
      BY <2>1, ReaderFields
    <3>2. PICK t \in Nat : reader' = [reader EXCEPT !.pc = "ingested", !.holds = {}, !.taken = t]
      BY <1>8, <3>1 DEF Deliver
    <3>3. QED BY <2>1, <3>2, ReaderFields DEF Reader
  <2>4. QED BY <1>8, <2>2, <2>3 DEF Deliver, TypeOK, Bounded
<1>9. CASE Advance
  <2>1. reader # Down
    BY <1>9, UpIsNotDown DEF Advance
  <2>2. offset' \in [pos : Position, file : Files]
    BY <1>9, <2>1, ReaderFields DEF Advance, Save, TypeOK
  <2>3. reader' \in Reader
    BY <1>9, <2>1, ReaderFields DEF Advance, Reader
  <2>4. QED BY <1>9, <2>2, <2>3 DEF Advance, TypeOK, Bounded
<1>10. CASE Crash
  BY <1>10 DEF Crash, TypeOK, Bounded, Reader
<1>11. CASE Raise
  BY <1>11 DEF Raise, TypeOK, Bounded, Reader
<1>12. CASE UNCHANGED vars
  BY <1>12 DEF vars, TypeOK, Bounded
<1>13. QED
  BY <1>1, <1>2, <1>3, <1>4, <1>5, <1>6, <1>7, <1>8, <1>9, <1>10, <1>11, <1>12 DEF Next, Stream

--------------------------------------------------------------------------------
(* The inductive invariant *)

LEMMA TopTouchesNothing ==
    ASSUME NEW f
    PROVE  Touched(Top, f) = {}
  BY TopIsPosition, CdcAssumption DEF Touched, Lines

LEMMA SameFileSameLines ==
    ASSUME UNCHANGED size
    PROVE  Written' = Written
  BY DEF Written

\* Whatever a step does, what was accounted for stays so.
LEMMA AccountsOnlyGrow ==
    ASSUME TypeOK, [Next]_vars
    PROVE  Accounted \subseteq Accounted'
<1>1. received \subseteq received'
  BY DEF Next, Stream, vars, Grow, Rotate, Reset, Open, End, Skip, Raise, Yield, Deliver, Advance, Crash
<1>2. garbled \subseteq garbled'
  BY DEF Next, Stream, vars, Grow, Rotate, Reset, Open, End, Skip, Raise, Yield, Deliver, Advance, Crash
<1>3. missed \subseteq missed' /\ mode' = mode
  BY DEF Next, Stream, vars, Grow, Rotate, Reset, Open, End, Skip, Raise, Yield, Deliver, Advance, Crash
<1>4. QED BY <1>1, <1>2, <1>3 DEF Accounted, Torn

LEMMA InitIInv == Init => IInv
<1> SUFFICES ASSUME Init PROVE IInv
  OBVIOUS
<1>1. TypeOK /\ Bounded
  BY InitTypeOK
<1>2. HoldsOne /\ OnlyWritten /\ ReaderAccounts
  BY DEF Init, HoldsOne, OnlyWritten, ReaderAccounts, Down
<1>3. OffsetAccounts
  BY TopTouchesNothing DEF Init, OffsetAccounts
<1>4. QED BY <1>1, <1>2, <1>3 DEF IInv

\* A stream that is reading or has handed its line over may save its position.
LEMMA PositionAccounts ==
    ASSUME IInv, reader.pc \in {"reading", "ingested"}
    PROVE  Touched(reader.pos, reader.file) \subseteq Accounted
  BY DEF IInv, ReaderAccounts, HoldsOne, Down

\* What a stream passes over without handing it on is accounted for.
LEMMA SkippedAccounts ==
    ASSUME IInv, Skip
    PROVE  Touched(Rest, reader.file) \subseteq Accounted'
<1>1. reader # Down /\ ~AtEnd /\ reader.pc = "reading"
  BY UpIsNotDown DEF Skip, Waits
<1>2. /\ Line \in Lines
      /\ Touched(Rest, reader.file) \subseteq Touched(reader.pos, reader.file) \cup {Line}
  BY <1>1, RestIsNext DEF IInv
<1>3. Touched(reader.pos, reader.file) \subseteq Accounted
  BY <1>1, PositionAccounts
<1>4. Accounted \subseteq Accounted'
  BY AccountsOnlyGrow DEF IInv, Next, Stream
<1>5. Line \in Accounted'
  <2>1. CASE reader.pos.part # 0
    <3>1. Line \in Touched(reader.pos, reader.file)
      <4>1. reader.pos \in Position /\ reader.pos.full \in 0..MaxLines
        BY <1>1, ReaderFields, PositionFields DEF IInv
      <4>2. QED BY <1>2, <2>1, <4>1 DEF Touched, Line
    <3>2. QED BY <1>3, <1>4, <3>1
  <2>2. CASE reader.pos.part = 0 /\ HasRecord
    <3>1. ~mode.strict /\ Line \notin Undecodable
      BY <2>2 DEF Skip, Raises, BlankLine
    <3>2. QED BY <2>2, <3>1 DEF Skip, IsRecord, Accounted
  <2>3. CASE reader.pos.part = 0 /\ ~HasRecord
    <3>1. Rest.part = 1 /\ ~Whole
      BY <2>3 DEF HasRecord, Whole
    <3>2. ~mode.follow /\ ~mode.strict /\ mode' = mode
      BY <2>3, <3>1 DEF Skip, Waits, Raises, BlankLine
    <3>3. Line \in garbled'
      BY <2>3, <3>1 DEF Skip
    <3>4. QED BY <3>2, <3>3 DEF Accounted, Torn
  <2>4. QED BY <2>1, <2>2, <2>3
<1>6. QED BY <1>2, <1>3, <1>4, <1>5

LEMMA NextIInv == IInv /\ [Next]_vars => IInv'
<1> SUFFICES ASSUME IInv, [Next]_vars PROVE IInv'
  OBVIOUS
<1>1. TypeOK' /\ Bounded'
  BY NextTypeOK DEF IInv
<1>2. Accounted \subseteq Accounted'
  BY AccountsOnlyGrow DEF IInv
<1>3. CASE Grow
  <2>1. Written \subseteq Written'
    BY <1>3, GrowExtends DEF IInv
  <2>2. HoldsOne' /\ OnlyWritten'
    BY <1>3, <2>1 DEF Grow, IInv, HoldsOne, OnlyWritten
  <2>3. ReaderAccounts' /\ OffsetAccounts'
    BY <1>2, <1>3 DEF Grow, IInv, ReaderAccounts, OffsetAccounts
  <2>4. QED BY <1>1, <2>2, <2>3 DEF IInv
<1>4. CASE Rotate
  <2>1. CASE reader' = reader /\ missed' = missed
    BY <1>1, <1>2, <1>4, <2>1, SameFileSameLines
       DEF Rotate, IInv, HoldsOne, OnlyWritten, ReaderAccounts, OffsetAccounts
  <2>2. ASSUME NEW p \in Position, reader # Down,
               reader' = [reader EXCEPT !.file = source', !.pos = p],
               missed' = missed \cup Touched(p, source')
        PROVE  IInv'
    <3>1. /\ reader'.holds = reader.holds /\ reader'.pc = reader.pc
          /\ reader'.pos = p /\ reader'.file = source'
      BY <2>2, ReaderFields DEF IInv
    <3>2. HoldsOne' /\ OnlyWritten' /\ OffsetAccounts'
      BY <1>2, <1>4, <2>2, <3>1, SameFileSameLines
         DEF Rotate, IInv, HoldsOne, OnlyWritten, OffsetAccounts
    <3>3. ReaderAccounts'
      BY <2>2, <3>1 DEF ReaderAccounts, Accounted
    <3>4. QED BY <1>1, <3>2, <3>3 DEF IInv
  <2>3. QED BY <1>4, <2>1, <2>2 DEF Rotate
<1>5. CASE Reset
  <2>1. offset'.pos = Top
    BY <1>5, ReaderFields DEF Reset, IInv, TypeOK
  <2>2. OffsetAccounts'
    BY <2>1, TopTouchesNothing DEF OffsetAccounts
  <2>3. HoldsOne' /\ OnlyWritten' /\ ReaderAccounts'
    BY <1>5, SameFileSameLines
       DEF Reset, IInv, HoldsOne, OnlyWritten, ReaderAccounts, Accounted, Torn
  <2>4. QED BY <1>1, <2>2, <2>3 DEF IInv
<1>6. CASE Open
  <2>1. PICK p \in Loaded :
            /\ reader' = [pc |-> "reading", file |-> source, pos |-> p, holds |-> {}, taken |-> 0]
            /\ missed' = IF offset.file = source THEN missed ELSE missed \cup Touched(p, source)
    BY <1>6 DEF Open
  <2>2. HoldsOne' /\ OnlyWritten' /\ OffsetAccounts'
    BY <1>2, <1>6, <2>1, SameFileSameLines DEF Open, IInv, HoldsOne, OnlyWritten, OffsetAccounts
  <2>3. Touched(p, source) \subseteq Accounted'
    <3>1. CASE p = Top
      BY <3>1, TopTouchesNothing
    <3>2. CASE p # Top /\ offset.file = source
      <4>1. p = offset.pos
        BY <3>2 DEF Loaded
      <4>2. QED BY <1>2, <3>2, <4>1 DEF IInv, OffsetAccounts
    <3>3. CASE offset.file # source
      BY <2>1, <3>3 DEF Accounted
    <3>4. QED BY <3>1, <3>2, <3>3
  <2>4. ReaderAccounts'
    BY <2>1, <2>3 DEF ReaderAccounts
  <2>5. QED BY <1>1, <2>2, <2>4 DEF IInv
<1>7. CASE End
  <2>1. HoldsOne' /\ OnlyWritten' /\ ReaderAccounts'
    BY <1>7, SameFileSameLines DEF End, IInv, HoldsOne, OnlyWritten, ReaderAccounts, Down
  <2>2. OffsetAccounts'
    BY <1>2, <1>7, PositionAccounts DEF End, Save, OffsetAccounts
  <2>3. QED BY <1>1, <2>1, <2>2 DEF IInv
<1>8. CASE Skip
  <2>1. reader # Down /\ Save(Rest) /\ reader' = Consumed("reading")
    BY <1>8, UpIsNotDown DEF Skip
  <2>2. /\ reader'.pos = Rest /\ reader'.file = reader.file
        /\ reader'.pc = "reading" /\ reader'.holds = reader.holds
    BY <2>1, ReaderFields DEF Consumed, IInv
  <2>3. reader' # Down
    BY <2>2 DEF Down
  <2>4. ReaderAccounts' /\ OffsetAccounts'
    BY <1>8, <2>1, <2>2, SkippedAccounts DEF ReaderAccounts, OffsetAccounts, Save
  <2>5. HoldsOne' /\ OnlyWritten'
    BY <1>8, <2>1, <2>2, <2>3, SameFileSameLines DEF Skip, IInv, HoldsOne, OnlyWritten
  <2>6. QED BY <1>1, <2>4, <2>5 DEF IInv
<1>9. CASE Yield
  <2>1. reader # Down /\ ~AtEnd /\ IsRecord
    BY <1>9, UpIsNotDown DEF Yield, Waits
  <2>2. /\ reader'.pos = Rest /\ reader'.file = reader.file
        /\ reader'.pc = "yielded" /\ reader'.holds = {Line}
    BY <1>9, <2>1, ReaderFields DEF Yield, Consumed, IInv
  <2>3. Line \in Written
    BY <2>1, RecordIsWritten DEF IInv
  <2>4. HoldsOne' /\ OnlyWritten' /\ OffsetAccounts'
    BY <1>2, <1>9, <2>2, <2>3, SameFileSameLines
       DEF Yield, IInv, HoldsOne, OnlyWritten, OffsetAccounts
  <2>5. ReaderAccounts'
    <3>1. Touched(Rest, reader.file) \subseteq Touched(reader.pos, reader.file) \cup {Line}
      BY <2>1, RestIsNext DEF IInv
    <3>2. QED BY <1>2, <1>9, <2>2, <3>1, PositionAccounts DEF Yield, ReaderAccounts
  <2>6. QED BY <1>1, <2>4, <2>5 DEF IInv
<1>10. CASE Deliver
  <2>1. reader # Down
    BY <1>10, UpIsNotDown DEF Deliver
  <2>2. /\ reader'.pos = reader.pos /\ reader'.file = reader.file
        /\ reader'.pc = "ingested" /\ reader'.holds = {}
    BY <1>10, <2>1, ReaderFields DEF Deliver, IInv
  <2>3. HoldsOne' /\ OnlyWritten' /\ OffsetAccounts'
    BY <1>2, <1>10, <2>1, <2>2, SameFileSameLines
       DEF Deliver, IInv, HoldsOne, OnlyWritten, OffsetAccounts
  <2>4. reader.holds \subseteq Accounted'
    BY <1>10 DEF Deliver, Accounted
  <2>5. ReaderAccounts'
    BY <1>2, <2>1, <2>2, <2>4 DEF IInv, ReaderAccounts
  <2>6. QED BY <1>1, <2>3, <2>5 DEF IInv
<1>11. CASE Advance
  <2>1. reader # Down
    BY <1>11, UpIsNotDown DEF Advance
  <2>2. CASE Save(reader.pos) /\ reader' = [reader EXCEPT !.pc = "reading"]
    <3>1. /\ reader'.pos = reader.pos /\ reader'.file = reader.file
          /\ reader'.holds = reader.holds /\ reader'.pc = "reading"
      BY <2>1, <2>2, ReaderFields DEF IInv
    <3>2. OffsetAccounts'
      BY <1>2, <1>11, <2>2, PositionAccounts DEF Advance, Save, OffsetAccounts
    <3>3. HoldsOne' /\ OnlyWritten' /\ ReaderAccounts'
      BY <1>2, <1>11, <2>1, <3>1, SameFileSameLines
         DEF Advance, IInv, HoldsOne, OnlyWritten, ReaderAccounts
    <3>4. QED BY <1>1, <3>2, <3>3 DEF IInv
  <2>3. CASE reader' = Down /\ UNCHANGED offset
    <3>1. HoldsOne' /\ OnlyWritten' /\ ReaderAccounts' /\ OffsetAccounts'
      BY <1>2, <1>11, <2>3, SameFileSameLines
         DEF Advance, IInv, HoldsOne, OnlyWritten, ReaderAccounts, OffsetAccounts, Down
    <3>2. QED BY <1>1, <3>1 DEF IInv
  <2>4. QED BY <1>11, <2>2, <2>3 DEF Advance
<1>12. CASE Crash
  <2>1. HoldsOne' /\ OnlyWritten' /\ ReaderAccounts' /\ OffsetAccounts'
    BY <1>2, <1>12, SameFileSameLines
       DEF Crash, IInv, HoldsOne, OnlyWritten, ReaderAccounts, OffsetAccounts, Down
  <2>2. QED BY <1>1, <2>1 DEF IInv
<1>13. CASE Raise
  BY <1>1, <1>2, <1>13, SameFileSameLines
     DEF Raise, IInv, HoldsOne, OnlyWritten, ReaderAccounts, OffsetAccounts, Down
<1>14. CASE UNCHANGED vars
  BY <1>1, <1>2, <1>14, SameFileSameLines
     DEF vars, IInv, HoldsOne, OnlyWritten, ReaderAccounts, OffsetAccounts
<1>15. QED
  BY <1>3, <1>4, <1>5, <1>6, <1>7, <1>8, <1>9, <1>10, <1>11, <1>12, <1>13, <1>14 DEF Next, Stream

\* Every reachable state is typed, and every position is accounted for.
THEOREM IInvHolds == Spec => []IInv
<1>1. QED BY InitIInv, NextIInv, PTL DEF Spec

--------------------------------------------------------------------------------
(* The promise *)

LEMMA InitPromise == Init => Promise!Init
<1> SUFFICES ASSUME Init PROVE Promise!Init
  OBVIOUS
<1>1. Written = {}
  <2>1. ASSUME NEW l \in Written PROVE FALSE
    <3>1. l \in Lines /\ l[1] \in Files /\ l[2] \in 1..MaxLines
      BY DEF Written, Lines
    <3>2. size[l[1]].full = 0 /\ size[l[1]].part = 0
      BY <3>1, TopIsPosition DEF Init
    <3>3. QED BY <3>1, <3>2 DEF Written
  <2>2. QED BY <2>1
<1>2. Passed = {}
  BY TopIsPosition DEF Init, Passed, Lines
<1>3. Malformed \cup missed \cup (IF mode.follow \/ mode.strict THEN {} ELSE garbled) \subseteq Lines
  BY CdcAssumption DEF Init, Lines, Files
<1>4. QED BY <1>1, <1>2, <1>3 DEF Promise!Init, Init

Excused == Malformed \cup missed \cup (IF mode.follow \/ mode.strict THEN {} ELSE garbled)

LEMMA ExcusesOnlyGrow ==
    ASSUME TypeOK, TypeOK', [Next]_vars
    PROVE  Excused \subseteq Excused' /\ Excused' \subseteq Lines
<1>1. garbled \subseteq garbled' /\ missed \subseteq missed' /\ mode' = mode
  BY DEF Next, Stream, vars, Grow, Rotate, Reset, Open, End, Skip, Raise, Yield, Deliver, Advance, Crash
<1>2. Malformed \subseteq Lines /\ garbled' \subseteq Lines /\ missed' \subseteq Lines
  BY CdcAssumption DEF TypeOK, Lines, Files
<1>3. QED BY <1>1, <1>2 DEF Excused

LEMMA NextPromise == IInv /\ IInv' /\ [Next]_vars => [Promise!Next]_(Promise!vars)
<1> SUFFICES ASSUME IInv, IInv', [Next]_vars PROVE [Promise!Next]_(Promise!vars)
  OBVIOUS
<1>1. Excused \subseteq Excused' /\ Excused' \subseteq Lines
  BY ExcusesOnlyGrow DEF IInv
<1>2. Passed' \subseteq received' \cup Excused'
  BY DEF IInv, OffsetAccounts, Passed, Touched, Accounted, Torn, Excused
<1>3. ASSUME UNCHANGED <<size, received>>
      PROVE  Promise!Pass
  BY <1>1, <1>2, <1>3, SameFileSameLines DEF Promise!Pass, Excused
<1>4. CASE Grow
  <2>1. Written \subseteq Written' /\ Written' \subseteq Lines
    BY <1>4, GrowExtends DEF IInv, Written
  <2>2. QED BY <1>4, <2>1 DEF Grow, Passed, Promise!Next, Promise!Write
<1>5. CASE Deliver
  <2>1. received \subseteq received' /\ received' \subseteq Written /\ Written' = Written
    BY <1>5, SameFileSameLines DEF Deliver, IInv, OnlyWritten
  <2>2. QED BY <1>5, <2>1 DEF Deliver, Passed, Promise!Next, Promise!Receive
<1>6. CASE Rotate \/ Reset \/ Open \/ End \/ Skip \/ Raise \/ Yield \/ Advance \/ Crash
  BY <1>3, <1>6 DEF Rotate, Reset, Open, End, Skip, Raise, Yield, Advance, Crash, Promise!Next
<1>7. CASE UNCHANGED vars
  BY <1>3, <1>7 DEF vars, Promise!Next
<1>8. QED BY <1>4, <1>5, <1>6, <1>7 DEF Next, Stream

\* Every line is received at least once before the offset passes it, but for
\* malformed ones, those a batch consumed half-written and those an offset of
\* another file led past (JsonlCdcConnector.stream with pump).
THEOREM CdcKeepsItsPromise == Spec => DeliversAtLeastOnce
<1>1. QED BY InitPromise, NextPromise, IInvHolds, PTL DEF Spec, DeliversAtLeastOnce, Promise!Spec

(* Induction over the natural numbers, for sets instead of predicates *)

Before == {pair \in Nat \X Nat : pair[1] < pair[2]}

LEMMA LeastNatural ==
    ASSUME NEW S \in SUBSET Nat, S # {}
    PROVE  \E n \in S : \A m \in S : n <= m
<1>1. IsWellFoundedOn(Before, Nat)
  BY NatLessThanWellFounded DEF OpToRel, Before
<1>2. PICK n \in S : \A m \in S : <<m, n>> \notin Before
  BY <1>1, WFMin
<1>3. ASSUME NEW m \in S PROVE n <= m
  <2>1. m \in Nat /\ n \in Nat /\ ~(m < n)
    BY <1>2 DEF Before
  <2>2. QED BY <2>1
<1>4. QED BY <1>3

LEMMA Inductive ==
    ASSUME NEW S \in SUBSET Nat, 0 \in S, \A n \in S : n + 1 \in S
    PROVE  S = Nat
<1>1. SUFFICES ASSUME Nat \ S # {} PROVE FALSE
  OBVIOUS
<1>2. PICK n \in Nat \ S : \A m \in Nat \ S : n <= m
  BY <1>1, LeastNatural
<1>3. n - 1 \in Nat /\ n - 1 \in S
  BY <1>2
<1>4. QED BY <1>2, <1>3


-----------------------------------------------------------------------------
(* A sequence without the elements of a set *)

\* kept is what of q remains after each of the first n elements.
Keeps(kept, q, S, n) ==
    kept = [i \in 0..n |-> IF i = 0 THEN <<>>
                           ELSE IF q[i] \in S THEN kept[i - 1] ELSE Append(kept[i - 1], q[i])]

LEMMA KeepsExists ==
    ASSUME NEW q, NEW S
    PROVE  \A n \in Nat : \E kept : Keeps(kept, q, S, n)
<1> DEFINE T == {n \in Nat : \E kept : Keeps(kept, q, S, n)}
<1>1. 0 \in T
  <2>1. Keeps([i \in 0..0 |-> <<>>], q, S, 0)
    BY DEF Keeps
  <2>2. QED BY <2>1
<1>2. ASSUME NEW n \in T PROVE n + 1 \in T
  <2>1. PICK kept : Keeps(kept, q, S, n)
    OBVIOUS
  <2> DEFINE next == IF q[n + 1] \in S THEN kept[n] ELSE Append(kept[n], q[n + 1])
             longer == [i \in 0..(n + 1) |-> IF i = n + 1 THEN next ELSE kept[i]]
  <2>2. ASSUME NEW i \in 0..(n + 1)
        PROVE  longer[i] = IF i = 0 THEN <<>>
                           ELSE IF q[i] \in S THEN longer[i - 1] ELSE Append(longer[i - 1], q[i])
    <3>1. CASE i = n + 1
      <4>1. n \in 0..(n + 1) /\ n # n + 1 /\ i # 0 /\ i - 1 = n
        BY <3>1
      <4>2. longer[i] = next /\ longer[i - 1] = kept[n]
        BY <3>1, <4>1
      <4>3. QED BY <3>1, <4>1, <4>2
    <3>2. CASE i # n + 1
      <4>1. i \in 0..n /\ longer[i] = kept[i]
        BY <3>2
      <4>2. i # 0 => longer[i - 1] = kept[i - 1]
        BY <3>2
      <4>3. kept[i] = IF i = 0 THEN <<>>
                      ELSE IF q[i] \in S THEN kept[i - 1] ELSE Append(kept[i - 1], q[i])
        BY <2>1, <4>1 DEF Keeps
      <4>4. QED BY <4>1, <4>2, <4>3
    <3>3. QED BY <3>1, <3>2
  <2>3. Keeps(longer, q, S, n + 1)
    BY <2>2 DEF Keeps
  <2>4. QED BY <2>3
<1>3. T = Nat
  BY <1>1, <1>2, Inductive
<1>4. QED BY <1>3

LEMMA KeepsNext ==
    ASSUME NEW q, NEW S, NEW n \in Nat, NEW kept, Keeps(kept, q, S, n), NEW i \in 1..n
    PROVE  kept[i] = IF q[i] \in S THEN kept[i - 1] ELSE Append(kept[i - 1], q[i])
<1>1. i \in 0..n /\ i # 0
  OBVIOUS
<1>2. QED BY <1>1 DEF Keeps

LEMMA WithoutKeeps ==
    ASSUME NEW q, Len(q) \in Nat, NEW S
    PROVE  \E kept : Keeps(kept, q, S, Len(q)) /\ Without(q, S) = kept[Len(q)]
<1> DEFINE kept == CHOOSE k : Keeps(k, q, S, Len(q))
<1>1. Keeps(kept, q, S, Len(q))
  BY KeepsExists
<1>2. Without(q, S) = kept[Len(q)]
  BY DEF Without, Keeps
<1>3. QED BY <1>1, <1>2

LEMMA KeepsType ==
    ASSUME NEW R, NEW q \in Seq(R), NEW S, NEW n \in 0..Len(q), NEW kept, Keeps(kept, q, S, Len(q))
    PROVE  kept[n] \in Seq(R)
<1> DEFINE T == {m \in Nat : m <= Len(q) => kept[m] \in Seq(R)}
<1>1. 0 \in T
  BY DEF Keeps
<1>2. ASSUME NEW m \in T PROVE m + 1 \in T
  <2>1. SUFFICES ASSUME m + 1 <= Len(q) PROVE kept[m + 1] \in Seq(R)
    OBVIOUS
  <2>2. m + 1 \in 1..Len(q) /\ m + 1 \in 0..Len(q) /\ m + 1 # 0 /\ (m + 1) - 1 = m /\ m <= Len(q)
    BY <2>1
  <2>3. kept[m] \in Seq(R) /\ q[m + 1] \in R
    BY <2>2
  <2>4. kept[m + 1] = IF q[m + 1] \in S THEN kept[m] ELSE Append(kept[m], q[m + 1])
    BY <2>2 DEF Keeps
  <2>5. QED BY <2>3, <2>4
<1>3. T = Nat
  BY <1>1, <1>2, Inductive
<1>4. n \in Nat /\ n <= Len(q)
  OBVIOUS
<1>5. QED BY <1>3, <1>4

LEMMA WithoutType ==
    ASSUME NEW R, NEW q \in Seq(R), NEW S
    PROVE  Without(q, S) \in Seq(R)
<1>1. Len(q) \in Nat /\ Len(q) \in 0..Len(q)
  OBVIOUS
<1>2. PICK kept : Keeps(kept, q, S, Len(q)) /\ Without(q, S) = kept[Len(q)]
  BY <1>1, WithoutKeeps
<1>3. kept[Len(q)] \in Seq(R)
  BY <1>1, <1>2, KeepsType
<1>4. QED BY <1>2, <1>3

LEMMA WithoutAppend ==
    ASSUME NEW R, NEW q \in Seq(R), NEW x \in R, NEW S
    PROVE  Without(Append(q, x), S) = IF x \in S THEN Without(q, S) ELSE Append(Without(q, S), x)
<1> DEFINE p == Append(q, x)
<1>1. p \in Seq(R) /\ Len(p) = Len(q) + 1 /\ Len(q) \in Nat /\ p[Len(q) + 1] = x
      /\ \A i \in 1..Len(q) : p[i] = q[i]
  OBVIOUS
<1> HIDE DEF p
<1>2. PICK a : Keeps(a, q, S, Len(q)) /\ Without(q, S) = a[Len(q)]
  BY <1>1, WithoutKeeps
<1>3. PICK b : Keeps(b, p, S, Len(p)) /\ Without(p, S) = b[Len(p)]
  BY <1>1, WithoutKeeps
<1> DEFINE T == {m \in Nat : m <= Len(q) => a[m] = b[m]}
<1>4. 0 \in T
  BY <1>1, <1>2, <1>3 DEF Keeps
<1>5. ASSUME NEW m \in T PROVE m + 1 \in T
  <2>1. SUFFICES ASSUME m + 1 <= Len(q) PROVE a[m + 1] = b[m + 1]
    OBVIOUS
  <2>2. m + 1 \in 0..Len(q) /\ m + 1 \in 0..Len(p) /\ m + 1 # 0 /\ (m + 1) - 1 = m
    BY <1>1, <2>1
  <2>3. a[m] = b[m] /\ p[m + 1] = q[m + 1]
    BY <1>1, <2>1
  <2>4. a[m + 1] = IF q[m + 1] \in S THEN a[m] ELSE Append(a[m], q[m + 1])
    BY <1>2, <2>2 DEF Keeps
  <2>5. b[m + 1] = IF p[m + 1] \in S THEN b[m] ELSE Append(b[m], p[m + 1])
    BY <1>3, <2>2 DEF Keeps
  <2>6. QED BY <2>3, <2>4, <2>5
<1>6. T = Nat
  BY <1>4, <1>5, Inductive
<1>7. a[Len(q)] = b[Len(q)]
  BY <1>1, <1>6
<1>8. Len(p) \in 0..Len(p) /\ Len(p) # 0 /\ Len(p) - 1 = Len(q)
  BY <1>1
<1>9. b[Len(p)] = IF x \in S THEN b[Len(q)] ELSE Append(b[Len(q)], x)
  BY <1>1, <1>3, <1>8 DEF Keeps
<1>10. QED BY <1>2, <1>3, <1>7, <1>9 DEF p

\* Taking the first element off.
LEMMA WithoutTail ==
    ASSUME NEW R, NEW q \in Seq(R), q # <<>>, NEW S
    PROVE  Without(q, S) = (IF Head(q) \in S THEN <<>> ELSE <<Head(q)>>) \o Without(Tail(q), S)
<1> DEFINE t == Tail(q)
           first == IF Head(q) \in S THEN <<>> ELSE <<Head(q)>>
<1>1. t \in Seq(R) /\ Len(q) = Len(t) + 1 /\ Len(t) \in Nat /\ Head(q) = q[1] /\ q[1] \in R
      /\ \A i \in 1..Len(t) : t[i] = q[i + 1]
  OBVIOUS
<1>2. first \in Seq(R)
  BY <1>1
<1> HIDE DEF t
<1>3. PICK a : Keeps(a, t, S, Len(t)) /\ Without(t, S) = a[Len(t)]
  BY <1>1, WithoutKeeps
<1>4. PICK b : Keeps(b, q, S, Len(q)) /\ Without(q, S) = b[Len(q)]
  BY <1>1, WithoutKeeps
<1> DEFINE T == {m \in Nat : m <= Len(t) => b[m + 1] = first \o a[m]}
<1>5. 0 \in T
  <2>1. 0 \in 0..Len(q) /\ 1 \in 0..Len(q) /\ 0 \in 0..Len(t)
    BY <1>1
  <2>2. a[0] = <<>> /\ b[0] = <<>>
    BY <1>3, <1>4, <2>1 DEF Keeps
  <2>3. b[1] = IF q[1] \in S THEN <<>> ELSE Append(<<>>, q[1])
    <3>1. 1 \in 1..Len(q) /\ 1 - 1 = 0
      BY <1>1
    <3>2. b[1] = IF q[1] \in S THEN b[1 - 1] ELSE Append(b[1 - 1], q[1])
      BY <1>1, <1>4, <3>1, KeepsNext
    <3>3. QED BY <2>2, <3>1, <3>2
  <2>4. Append(<<>>, q[1]) = <<q[1]>>
    OBVIOUS
  <2>5. b[1] = first
    BY <1>1, <2>3, <2>4
  <2>6. first \o <<>> = first
    BY <1>2, ConcatEmptySeq
  <2>7. 0 + 1 = 1
    OBVIOUS
  <2>8. b[0 + 1] = first \o a[0]
    BY <2>2, <2>5, <2>6, <2>7
  <2>9. QED BY <2>8
<1> HIDE DEF first
<1>6. ASSUME NEW m \in T PROVE m + 1 \in T
  <2>1. SUFFICES ASSUME m + 1 <= Len(t) PROVE b[(m + 1) + 1] = first \o a[m + 1]
    OBVIOUS
  <2>2. /\ m + 1 \in 0..Len(t) /\ m + 1 # 0 /\ (m + 1) - 1 = m /\ m \in 0..Len(t) /\ m \in Nat
        /\ (m + 1) + 1 \in 0..Len(q) /\ (m + 1) + 1 # 0 /\ ((m + 1) + 1) - 1 = m + 1
        /\ m + 1 \in 1..Len(t)
    BY <1>1, <2>1
  <2>3. b[m + 1] = first \o a[m]
    BY <2>2
  <2>4. a[m + 1] = IF t[m + 1] \in S THEN a[m] ELSE Append(a[m], t[m + 1])
    BY <1>3, <2>2 DEF Keeps
  <2>5. b[(m + 1) + 1] = IF q[(m + 1) + 1] \in S THEN b[m + 1] ELSE Append(b[m + 1], q[(m + 1) + 1])
    <3>1. (m + 1) + 1 \in 1..Len(q) /\ Len(q) \in Nat
      BY <1>1, <2>2
    <3>2. b[(m + 1) + 1] = IF q[(m + 1) + 1] \in S THEN b[((m + 1) + 1) - 1]
                           ELSE Append(b[((m + 1) + 1) - 1], q[(m + 1) + 1])
      BY <1>4, <3>1, KeepsNext
    <3>3. QED BY <2>2, <3>2
  <2>6. q[(m + 1) + 1] = t[m + 1] /\ t[m + 1] \in R
    BY <1>1, <2>2
  <2>7. a[m] \in Seq(R)
    BY <1>1, <1>3, <2>2, KeepsType
  <2>8. Append(first \o a[m], t[m + 1]) = first \o Append(a[m], t[m + 1])
    <3> DEFINE y == a[m]
               x == t[m + 1]
    <3>1. y \in Seq(R) /\ x \in R
      BY <2>6, <2>7
    <3> HIDE DEF y, x
    <3>2. first \in Seq(R)
      BY <1>2
    <3>3. Append(first \o y, x) = first \o Append(y, x)
      BY <3>1, <3>2
    <3>4. QED BY <3>3 DEF x, y
  <2>9. QED BY <2>3, <2>4, <2>5, <2>6, <2>8
<1>7. T = Nat
  BY <1>5, <1>6, Inductive
<1>8. b[Len(q)] = first \o a[Len(t)]
  BY <1>1, <1>7
<1>9. QED BY <1>3, <1>4, <1>8 DEF first, t

-----------------------------------------------------------------------------
(* The resolver *)

IsResolver(r) == r = [known |-> r.known, alias |-> r.alias, names |-> r.names]

\* Duplicates are not known, names and duplicates lead to known entities.
Settled(r) ==
    /\ IsResolver(r) /\ None \notin r.known
    /\ r.names = [n \in DOMAIN r.names |-> r.names[n]]
    /\ \A ref \in DOMAIN r.alias : ref \notin r.known /\ r.alias[ref] \in r.known
    /\ \A n \in DOMAIN r.names : r.names[n] \in r.known

\* What was known before stays so.
Keeping(r, later) ==
    /\ r.known \subseteq later.known
    /\ DOMAIN r.names \subseteq DOMAIN later.names
    /\ \A ref \in DOMAIN r.alias : ref \in DOMAIN later.alias /\ later.alias[ref] = r.alias[ref]

\* An entity with a name leads to x, and no more is to be learnt from it.
Learnt(r, ref, name, x) ==
    \/ /\ ref \in r.known /\ x = ref
       /\ name = NoName \/ <<ref[1], name>> \in DOMAIN r.names
    \/ ref \in DOMAIN r.alias /\ x = r.alias[ref]

LEMMA LearntOn ==
    ASSUME NEW r, NEW later, Keeping(r, later), NEW ref, NEW name, NEW x, Learnt(r, ref, name, x)
    PROVE  Learnt(later, ref, name, x)
  BY DEF Learnt, Keeping

LEMMA KeepingOn ==
    ASSUME NEW a, NEW b, NEW c, Keeping(a, b), Keeping(b, c)
    PROVE  Keeping(a, c)
  BY DEF Keeping

\* Among finitely many numbers one is the greatest, and the first of those.
LEMMA GreatestFirst ==
    ASSUME NEW f, NEW n \in Nat, NEW S \in SUBSET (1..n), S # {}, \A i \in S : f[i] \in Nat
    PROVE  \E i \in S : \A j \in S : f[i] > f[j] \/ (f[i] = f[j] /\ i <= j)
<1> DEFINE Best(m) == \A T \in SUBSET S : T # {} /\ T \subseteq 1..m =>
               \E i \in T : \A j \in T : f[i] > f[j] \/ (f[i] = f[j] /\ i <= j)
           N == {m \in Nat : Best(m)}
<1>1. 0 \in N
  <2>1. 1..0 = {}
    OBVIOUS
  <2>2. QED BY <2>1
<1>2. ASSUME NEW m \in N PROVE m + 1 \in N
  <2>1. SUFFICES ASSUME NEW T \in SUBSET S, T # {}, T \subseteq 1..(m + 1)
                 PROVE  \E i \in T : \A j \in T : f[i] > f[j] \/ (f[i] = f[j] /\ i <= j)
    OBVIOUS
  <2> DEFINE U == T \ {m + 1}
  <2>2. U \in SUBSET S /\ U \subseteq 1..m
    BY <2>1
  <2>3. CASE m + 1 \notin T
    <3>1. T = U
      BY <2>3
    <3>2. QED BY <2>1, <2>2, <3>1
  <2>4. CASE U = {}
    <3>1. T = {m + 1} /\ f[m + 1] \in Nat
      BY <2>1, <2>4
    <3>2. QED BY <3>1
  <2>5. CASE m + 1 \in T /\ U # {}
    <3>1. PICK i \in U : \A j \in U : f[i] > f[j] \/ (f[i] = f[j] /\ i <= j)
      BY <2>2, <2>5
    <3>2. i \in S /\ i \in 1..m /\ f[i] \in Nat /\ f[m + 1] \in Nat /\ \A j \in U : f[j] \in Nat
      BY <2>2, <2>5
    <3>3. CASE f[i] >= f[m + 1]
      <4>1. f[i] > f[m + 1] \/ (f[i] = f[m + 1] /\ i <= m + 1)
        BY <3>2, <3>3
      <4>2. \A j \in T : f[i] > f[j] \/ (f[i] = f[j] /\ i <= j)
        BY <3>1, <4>1
      <4>3. QED BY <4>2
    <3>4. CASE ~(f[i] >= f[m + 1])
      <4>1. f[m + 1] > f[i]
        BY <3>2, <3>4
      <4>2. ASSUME NEW j \in U PROVE f[m + 1] > f[j]
        BY <3>1, <3>2, <4>1
      <4>3. \A j \in T : f[m + 1] > f[j] \/ (f[m + 1] = f[j] /\ m + 1 <= j)
        BY <2>5, <4>2
      <4>4. QED BY <2>5, <4>3
    <3>5. QED BY <3>3, <3>4
  <2>6. QED BY <2>3, <2>4, <2>5
<1>3. N = Nat
  <2> HIDE DEF N
  <2>1. N \in SUBSET Nat
    BY DEF N
  <2>2. QED BY <1>1, <1>2, <2>1, Inductive
<1>4. QED BY <1>3

\* What a name leads to is known.
LEMMA NameIsKnown ==
    ASSUME NEW r, Settled(r), NEW type, NEW name, \A b \in Range(Names) : Score(name, b) \in Nat
    PROVE  ByName(r, type, name) = None \/ ByName(r, type, name) \in r.known
<1> DEFINE alike == {i \in DOMAIN Names : /\ <<type, Names[i]>> \in DOMAIN r.names
                                          /\ Score(name, Names[i]) >= Threshold}
           f == [i \in DOMAIN Names |-> Score(name, Names[i])]
           Best(i) == \A j \in alike :
                          \/ Score(name, Names[i]) > Score(name, Names[j])
                          \/ Score(name, Names[i]) = Score(name, Names[j]) /\ i <= j
           best == CHOOSE i \in alike : Best(i)
<1>1. ByName(r, type, name) = IF alike = {} THEN None ELSE r.names[<<type, Names[best]>>]
  BY DEF ByName
<1>2. Len(Names) \in Nat /\ DOMAIN Names = 1..Len(Names)
  BY TwinAssumption
<1>3. \A i \in DOMAIN Names : f[i] = Score(name, Names[i]) /\ f[i] \in Nat
  BY DEF Range
<1>4. ASSUME alike # {} PROVE best \in alike
  <2>1. alike \in SUBSET (1..Len(Names)) /\ \A i \in alike : f[i] \in Nat
    BY <1>2, <1>3
  <2>2. \E i \in alike : \A j \in alike : f[i] > f[j] \/ (f[i] = f[j] /\ i <= j)
    <3> HIDE DEF alike, f
    <3>1. QED BY <1>2, <1>4, <2>1, GreatestFirst
  <2>3. \E i \in alike : Best(i)
    <3>1. \A i \in alike : f[i] = Score(name, Names[i])
      BY <1>3
    <3> HIDE DEF alike, f
    <3>2. QED BY <2>2, <3>1
  <2> HIDE DEF Best
  <2>4. QED BY <2>3
<1>5. ASSUME alike # {} PROVE r.names[<<type, Names[best]>>] \in r.known
  <2>1. <<type, Names[best]>> \in DOMAIN r.names
    <3> HIDE DEF best
    <3>1. QED BY <1>4, <1>5
  <2>2. QED BY <2>1 DEF Settled
<1> HIDE DEF alike, best
<1>6. QED BY <1>1, <1>5

LEMMA RegisteredSettles ==
    ASSUME NEW r, Settled(r), NEW ref, ref \notin DOMAIN r.alias, ref # None, NEW name
    PROVE  /\ Settled(Registered(r, ref, name)) /\ Keeping(r, Registered(r, ref, name))
           /\ Learnt(Registered(r, ref, name), ref, name, ref)
<1> DEFINE q == Registered(r, ref, name)
           known == r.known \cup {ref}
           names == IF name = NoName THEN r.names ELSE Default(r.names, <<ref[1], name>>, ref)
<1>1. r = [known |-> r.known, alias |-> r.alias, names |-> r.names]
  BY DEF Settled, IsResolver
<1>2. q = [r EXCEPT !.known = known, !.names = names]
  BY DEF Registered
<1>3. \A n \in DOMAIN names : names[n] \in known
  BY DEF Settled, Default
<1>4. r.known \subseteq known /\ ref \in known /\ None \notin known
  BY DEF Settled
<1>5. \A x \in DOMAIN r.alias : x \notin known /\ r.alias[x] \in known
  BY DEF Settled
<1>6. /\ DOMAIN r.names \subseteq DOMAIN names
      /\ name = NoName \/ <<ref[1], name>> \in DOMAIN names
  BY DEF Default
<1>7. names = [n \in DOMAIN names |-> names[n]]
  BY DEF Settled, Default
<1> HIDE DEF q, known, names
<1>8. q = [known |-> known, alias |-> r.alias, names |-> names]
  BY <1>1, <1>2
<1>9. IsResolver(q) /\ q.known = known /\ q.alias = r.alias /\ q.names = names
  BY <1>8 DEF IsResolver
<1>10. Settled(q)
  BY <1>3, <1>4, <1>5, <1>7, <1>9 DEF Settled
<1>11. Keeping(r, q)
  BY <1>4, <1>6, <1>9 DEF Keeping
<1>12. Learnt(q, ref, name, ref)
  BY <1>4, <1>6, <1>9 DEF Learnt
<1>13. QED BY <1>10, <1>11, <1>12 DEF q

LEMMA CanonicaliseSettles ==
    ASSUME NEW r, Settled(r), NEW ref, ref # None, NEW name \in Range(Names) \cup {NoName}
    PROVE  LET c == Canonicalise(r, ref, name) IN
           Settled(c.r) /\ Keeping(r, c.r) /\ Learnt(c.r, ref, name, c.ref)
<1> DEFINE c == Canonicalise(r, ref, name)
           same == IF name = NoName THEN None ELSE ByName(r, ref[1], name)
<1>1. Keeping(r, r)
  BY DEF Keeping
<1>2. CASE ref \in r.known
  <2>1. c = [r |-> Registered(r, ref, name), ref |-> ref]
    BY <1>2 DEF Canonicalise
  <2>2. ref \notin DOMAIN r.alias
    BY <1>2 DEF Settled
  <2>3. QED BY <2>1, <2>2, RegisteredSettles
<1>3. CASE ref \notin r.known /\ ref \in DOMAIN r.alias
  <2>1. c = [r |-> r, ref |-> r.alias[ref]]
    BY <1>3 DEF Canonicalise
  <2>2. QED BY <1>1, <1>3, <2>1 DEF Learnt
<1>4. CASE ref \notin r.known /\ ref \notin DOMAIN r.alias /\ same # None
  <2> DEFINE alias == Default(r.alias, ref, same)
             q == [r EXCEPT !.alias = alias]
  <2>1. c = [r |-> q, ref |-> same]
    BY <1>4 DEF Canonicalise
  <2>2. same \in r.known
    <3>1. \A b \in Range(Names) : Score(name, b) \in Nat
      BY TwinAssumption
    <3>2. ByName(r, ref[1], name) = None \/ ByName(r, ref[1], name) \in r.known
      BY <3>1, NameIsKnown
    <3>3. QED BY <1>4, <3>2
  <2>3. /\ \A x \in DOMAIN alias : x \notin r.known /\ alias[x] \in r.known
        /\ \A x \in DOMAIN r.alias : x \in DOMAIN alias /\ alias[x] = r.alias[x]
        /\ ref \in DOMAIN alias /\ alias[ref] = same
    <3> HIDE DEF same
    <3>1. QED BY <1>4, <2>2 DEF Default, Settled
  <2>4. r = [known |-> r.known, alias |-> r.alias, names |-> r.names]
    BY DEF Settled, IsResolver
  <2> HIDE DEF alias, same
  <2>5. q = [known |-> r.known, alias |-> alias, names |-> r.names]
    BY <2>4
  <2> HIDE DEF q
  <2>6. IsResolver(q) /\ q.known = r.known /\ q.alias = alias /\ q.names = r.names
    BY <2>5 DEF IsResolver
  <2>7. Settled(q) /\ Keeping(r, q)
    BY <2>3, <2>6 DEF Settled, Keeping
  <2>8. Learnt(q, ref, name, same)
    BY <2>3, <2>6 DEF Learnt
  <2>9. QED BY <2>1, <2>7, <2>8
<1>5. CASE ref \notin r.known /\ ref \notin DOMAIN r.alias /\ same = None
  <2>1. c = [r |-> Registered(r, ref, name), ref |-> ref]
    BY <1>5 DEF Canonicalise
  <2>2. QED BY <1>5, <2>1, RegisteredSettles
<1>6. QED BY <1>2, <1>3, <1>4, <1>5

\* What was learnt is learnt only once.
LEMMA CanonicaliseAgain ==
    ASSUME NEW r, Settled(r), NEW ref, NEW name, NEW x, Learnt(r, ref, name, x)
    PROVE  Canonicalise(r, ref, name) = [r |-> r, ref |-> x]
<1>1. CASE ref \in r.known
  <2>1. x = ref /\ (name = NoName \/ <<ref[1], name>> \in DOMAIN r.names)
    BY <1>1 DEF Learnt, Settled
  <2>2. Canonicalise(r, ref, name) = [r |-> Registered(r, ref, name), ref |-> ref]
    BY <1>1 DEF Canonicalise
  <2> DEFINE names == IF name = NoName THEN r.names ELSE Default(r.names, <<ref[1], name>>, ref)
             known == r.known \cup {ref}
  <2>3. known = r.known
    BY <1>1
  <2>4. names = r.names
    <3>1. CASE name = NoName
      BY <3>1
    <3>2. CASE name # NoName
      <4>1. DOMAIN r.names \cup {<<ref[1], name>>} = DOMAIN r.names
        BY <2>1, <3>2
      <4>2. Default(r.names, <<ref[1], name>>, ref) = [z \in DOMAIN r.names |-> r.names[z]]
        BY <4>1 DEF Default
      <4>3. QED BY <3>2, <4>2 DEF Settled
    <3>3. QED BY <3>1, <3>2
  <2>5. Registered(r, ref, name) = [r EXCEPT !.known = known, !.names = names]
    BY DEF Registered
  <2> HIDE DEF known, names
  <2>6. Registered(r, ref, name) = [known |-> r.known, alias |-> r.alias, names |-> r.names]
    BY <2>3, <2>4, <2>5 DEF Settled, IsResolver
  <2>7. QED BY <2>1, <2>2, <2>6 DEF Settled, IsResolver
<1>2. CASE ref \notin r.known
  BY <1>2 DEF Learnt, Canonicalise
<1>3. QED BY <1>1, <1>2

\* done is what _resolve_entities has done after each of the first n entities.
Resolves(done, r, e, n) ==
    done = [i \in 0..n |->
               IF i = 0 THEN [r |-> r, refs |-> <<>>]
               ELSE LET c == Canonical(done[i - 1].r, e, e.refs[i])
                    IN [r |-> c.r, refs |-> Append(done[i - 1].refs, c.ref)]]

Resolved(done, e, i) ==
    LET c == Canonical(done.r, e, e.refs[i]) IN [r |-> c.r, refs |-> Append(done.refs, c.ref)]

LEMMA ResolvesExists ==
    ASSUME NEW r, NEW e
    PROVE  \A n \in Nat : \E done : Resolves(done, r, e, n)
<1> DEFINE T == {n \in Nat : \E done : Resolves(done, r, e, n)}
<1>1. 0 \in T
  <2>1. Resolves([i \in 0..0 |-> [r |-> r, refs |-> <<>>]], r, e, 0)
    BY DEF Resolves
  <2>2. QED BY <2>1
<1>2. ASSUME NEW n \in T PROVE n + 1 \in T
  <2>1. PICK done : Resolves(done, r, e, n)
    OBVIOUS
  <2> DEFINE next == Resolved(done[n], e, n + 1)
             longer == [i \in 0..(n + 1) |-> IF i = n + 1 THEN next ELSE done[i]]
  <2>2. ASSUME NEW i \in 0..(n + 1)
        PROVE  longer[i] = IF i = 0 THEN [r |-> r, refs |-> <<>>] ELSE Resolved(longer[i - 1], e, i)
    <3>1. CASE i = n + 1
      <4>1. n \in 0..(n + 1) /\ n # n + 1 /\ i # 0 /\ i - 1 = n
        BY <3>1
      <4>2. longer[i] = next /\ longer[i - 1] = done[n]
        BY <3>1, <4>1
      <4>3. QED BY <3>1, <4>1, <4>2
    <3>2. CASE i # n + 1
      <4>1. i \in 0..n /\ longer[i] = done[i]
        BY <3>2
      <4>2. i # 0 => longer[i - 1] = done[i - 1]
        BY <3>2
      <4>3. done[i] = IF i = 0 THEN [r |-> r, refs |-> <<>>] ELSE Resolved(done[i - 1], e, i)
        BY <2>1, <4>1 DEF Resolves, Resolved
      <4>4. QED BY <4>1, <4>2, <4>3
    <3>3. QED BY <3>1, <3>2
  <2>3. Resolves(longer, r, e, n + 1)
    BY <2>2 DEF Resolves, Resolved
  <2>4. QED BY <2>3
<1>3. T = Nat
  BY <1>1, <1>2, Inductive
<1>4. QED BY <1>3

\* The name an entity of an envelope is given.
Called(e, ref) == IF ref[1] = Prefix(e.kind) THEN NameIn(e) ELSE NoName

\* The first m entities lead to refs, with nothing more to learn.
AllLearnt(r, e, refs, m) ==
    /\ Len(refs) = m
    /\ \A i \in 1..m : Learnt(r, e.refs[i], Called(e, e.refs[i]), refs[i])

LEMMA ResolveIs ==
    ASSUME NEW r, NEW e, IsEnvelope(e)
    PROVE  \E done : /\ Resolves(done, r, e, Len(e.refs))
                     /\ ResolveEntities(r, e) = done[Len(e.refs)]
                     /\ done[0] = [r |-> r, refs |-> <<>>]
                     /\ \A m \in Nat : m + 1 <= Len(e.refs) => done[m + 1] = Resolved(done[m], e, m + 1)
<1> DEFINE done == CHOOSE d : Resolves(d, r, e, Len(e.refs))
           n == Len(e.refs)
<1>1. n \in Nat
  BY DEF IsEnvelope
<1>2. Resolves(done, r, e, n)
  BY <1>1, ResolvesExists
<1>3. ResolveEntities(r, e) = done[n]
  BY DEF ResolveEntities, Resolves
<1> HIDE DEF done, n
<1>4. done[0] = [r |-> r, refs |-> <<>>]
  BY <1>1, <1>2 DEF Resolves
<1>5. ASSUME NEW m \in Nat, m + 1 <= n PROVE done[m + 1] = Resolved(done[m], e, m + 1)
  <2>1. m + 1 \in 0..n /\ m + 1 # 0 /\ (m + 1) - 1 = m
    BY <1>1, <1>5
  <2>2. done[m + 1] = Resolved(done[(m + 1) - 1], e, m + 1)
    BY <1>2, <2>1 DEF Resolves, Resolved
  <2>3. QED BY <2>1, <2>2
<1>6. QED BY <1>2, <1>3, <1>4, <1>5 DEF n

LEMMA ResolvedIs ==
    ASSUME NEW d, NEW e, NEW i
    PROVE  LET c == Canonicalise(d.r, e.refs[i], Called(e, e.refs[i])) IN
           Resolved(d, e, i).r = c.r /\ Resolved(d, e, i).refs = Append(d.refs, c.ref)
  BY DEF Resolved, Canonical, Called

LEMMA ResolveSettles ==
    ASSUME NEW r, Settled(r), NEW e, IsEnvelope(e)
    PROVE  LET done == ResolveEntities(r, e) IN
           /\ Settled(done.r) /\ Keeping(r, done.r) /\ done.refs \in Seq(done.r.known)
           /\ AllLearnt(done.r, e, done.refs, Len(e.refs))
<1> DEFINE n == Len(e.refs)
           Good(d, m) == /\ Settled(d.r) /\ Keeping(r, d.r) /\ d.refs \in Seq(d.r.known)
                         /\ AllLearnt(d.r, e, d.refs, m)
<1>1. n \in Nat /\ \A i \in 1..n : e.refs[i] # None
  BY DEF IsEnvelope, Range
<1>2. PICK done : /\ ResolveEntities(r, e) = done[n]
                  /\ done[0] = [r |-> r, refs |-> <<>>]
                  /\ \A m \in Nat : m + 1 <= n => done[m + 1] = Resolved(done[m], e, m + 1)
  BY ResolveIs
<1> HIDE DEF n
<1> DEFINE T == {m \in Nat : m <= n => Good(done[m], m)}
<1>3. 0 \in T
  <2>1. Keeping(r, r) /\ <<>> \in Seq(r.known) /\ Len(<<>>) = 0
    BY DEF Keeping
  <2>2. done[0].r = r /\ done[0].refs = <<>>
    BY <1>2
  <2>3. AllLearnt(r, e, <<>>, 0)
    BY <2>1 DEF AllLearnt
  <2>4. QED BY <2>1, <2>2, <2>3
<1>4. ASSUME NEW m \in T PROVE m + 1 \in T
  <2>1. SUFFICES ASSUME m + 1 <= n PROVE Good(done[m + 1], m + 1)
    OBVIOUS
  <2>2. m \in Nat /\ Good(done[m], m) /\ m + 1 \in 1..n
    BY <1>1, <2>1
  <2> DEFINE d == done[m]
             ref == e.refs[m + 1]
             name == Called(e, ref)
             c == Canonicalise(d.r, ref, name)
             next == done[m + 1]
  <2>3. next.r = c.r /\ next.refs = Append(d.refs, c.ref)
    <3>1. next = Resolved(d, e, m + 1)
      BY <1>2, <2>1, <2>2
    <3>2. QED BY <3>1, ResolvedIs
  <2>4. name \in Range(Names) \cup {NoName} /\ ref # None
    BY <1>1, <2>2 DEF Called, NameIn
  <2>5. Settled(c.r) /\ Keeping(d.r, c.r) /\ Learnt(c.r, ref, name, c.ref)
    <3> HIDE DEF name, d, ref
    <3>1. Settled(d.r)
      BY <2>2 DEF d
    <3>2. QED BY <2>4, <3>1, CanonicaliseSettles
  <2> DEFINE q == c.r
             x == c.ref
             refs == d.refs
             known == q.known
  <2>6. /\ Settled(q) /\ Keeping(d.r, q) /\ Learnt(q, ref, name, x)
        /\ next.r = q /\ next.refs = Append(refs, x)
    BY <2>3, <2>5
  <2> HIDE DEF c, q, x, next
  <2>7. Keeping(r, q)
    BY <2>2, <2>6, KeepingOn
  <2>8. x \in known
    BY <2>6 DEF Learnt, Settled
  <2>9. refs \in Seq(known)
    <3>1. refs \in Seq(d.r.known) /\ d.r.known \subseteq known
      BY <2>2, <2>6 DEF Keeping
    <3>2. QED BY <3>1, SeqMonotonic
  <2>10. Len(refs) = m /\ \A i \in 1..m : Learnt(q, e.refs[i], Called(e, e.refs[i]), refs[i])
    <3>1. Len(refs) = m /\ \A i \in 1..m : Learnt(d.r, e.refs[i], Called(e, e.refs[i]), refs[i])
      BY <2>2 DEF AllLearnt
    <3>2. QED BY <2>6, <3>1, LearntOn
  <2> HIDE DEF refs, d, known
  <2>11. /\ Append(refs, x) \in Seq(known) /\ Len(Append(refs, x)) = m + 1
         /\ Append(refs, x)[m + 1] = x /\ \A i \in 1..m : Append(refs, x)[i] = refs[i]
    BY <2>2, <2>8, <2>9, <2>10
  <2> DEFINE longer == Append(refs, x)
  <2> HIDE DEF longer
  <2>12. AllLearnt(q, e, longer, m + 1)
    <3>1. Len(longer) = m + 1
      BY <2>11 DEF longer
    <3>2. ASSUME NEW i \in 1..(m + 1) PROVE Learnt(q, e.refs[i], Called(e, e.refs[i]), longer[i])
      <4>1. CASE i = m + 1
        BY <2>6, <2>11, <4>1 DEF longer, name, ref
      <4>2. CASE i # m + 1
        <5>1. i \in 1..m
          BY <2>2, <4>2
        <5>2. QED BY <2>10, <2>11, <5>1 DEF longer
      <4>3. QED BY <4>1, <4>2
    <3>3. QED BY <3>1, <3>2 DEF AllLearnt
  <2>13. QED BY <2>6, <2>7, <2>11, <2>12 DEF longer, next, known
<1>5. T = Nat
  <2> HIDE DEF T
  <2>1. T \in SUBSET Nat
    BY DEF T
  <2>2. QED BY <1>3, <1>4, <2>1, Inductive
<1>6. Good(done[n], n)
  BY <1>1, <1>5
<1>7. QED BY <1>2, <1>6 DEF n

\* Entities resolved again, with nothing learnt in between, lead where they led
\* and teach nothing.
LEMMA ResolveAgain ==
    ASSUME NEW r, Settled(r), NEW e, IsEnvelope(e),
           NEW R, NEW refs \in Seq(R), AllLearnt(r, e, refs, Len(e.refs))
    PROVE  ResolveEntities(r, e) = [r |-> r, refs |-> refs]
<1> DEFINE n == Len(e.refs)
<1>1. n \in Nat /\ Len(refs) = n /\ \A i \in 1..n : Learnt(r, e.refs[i], Called(e, e.refs[i]), refs[i])
  BY DEF IsEnvelope, AllLearnt
<1>2. PICK done : /\ Resolves(done, r, e, n)
                  /\ ResolveEntities(r, e) = done[n]
                  /\ done[0] = [r |-> r, refs |-> <<>>]
                  /\ \A m \in Nat : m + 1 <= n => done[m + 1] = Resolved(done[m], e, m + 1)
  BY ResolveIs
<1> HIDE DEF n
<1> DEFINE T == {m \in Nat : m <= n => done[m] = [r |-> r, refs |-> SubSeq(refs, 1, m)]}
<1>3. 0 \in T
  <2>1. SubSeq(refs, 1, 0) = <<>>
    OBVIOUS
  <2>2. QED BY <1>2, <2>1
<1>4. ASSUME NEW m \in T PROVE m + 1 \in T
  <2>1. SUFFICES ASSUME m + 1 <= n PROVE done[m + 1] = [r |-> r, refs |-> SubSeq(refs, 1, m + 1)]
    OBVIOUS
  <2> DEFINE ref == e.refs[m + 1]
             before == SubSeq(refs, 1, m)
  <2>2. m \in Nat /\ m + 1 \in 1..n /\ done[m] = [r |-> r, refs |-> before]
    BY <1>1, <2>1
  <2>3. done[m].r = r /\ done[m].refs = before
    BY <2>2
  <2>4. Canonicalise(r, ref, Called(e, ref)) = [r |-> r, ref |-> refs[m + 1]]
    BY <1>1, <2>2, CanonicaliseAgain
  <2>5. Resolved(done[m], e, m + 1) = [r |-> r, refs |-> Append(before, refs[m + 1])]
    <3> DEFINE c == Canonicalise(r, ref, Called(e, ref))
               d == done[m]
    <3>1. Canonicalise(d.r, ref, Called(e, ref)) = c
      BY <2>3
    <3>2. c.r = r /\ c.ref = refs[m + 1]
      BY <2>4
    <3>3. Canonical(d.r, e, ref) = c
      BY <3>1 DEF Canonical, Called
    <3> HIDE DEF before, c
    <3>4. Resolved(d, e, m + 1) = [r |-> c.r, refs |-> Append(d.refs, c.ref)]
      BY <3>3 DEF Resolved
    <3> HIDE DEF d
    <3>5. QED BY <2>3, <3>2, <3>4 DEF d
  <2>6. Append(before, refs[m + 1]) = SubSeq(refs, 1, m + 1)
    <3>1. m + 1 \in 1..Len(refs)
      BY <1>1, <2>2
    <3>2. QED BY <2>2, <3>1
  <2>7. QED BY <1>2, <2>1, <2>2, <2>5, <2>6
<1>5. T = Nat
  <2> HIDE DEF T
  <2>1. T \in SUBSET Nat
    BY DEF T
  <2>2. QED BY <1>3, <1>4, <2>1, Inductive
<1>6. \A m \in Nat : m <= n => done[m] = [r |-> r, refs |-> SubSeq(refs, 1, m)]
  BY <1>5
<1>7. done[n] = [r |-> r, refs |-> SubSeq(refs, 1, n)]
  <2>1. n \in Nat /\ n <= n
    BY <1>1
  <2>2. QED BY <1>6, <2>1
<1>8. SubSeq(refs, 1, n) = refs
  BY <1>1
<1>9. QED BY <1>2, <1>7, <1>8

\* Entities resolved once more lead where they led.
LEMMA ResolveTwice ==
    ASSUME NEW r, Settled(r), NEW e, IsEnvelope(e)
    PROVE  ResolveEntities(ResolveEntities(r, e).r, e) =
               [r |-> ResolveEntities(r, e).r, refs |-> ResolveEntities(r, e).refs]
<1> DEFINE q == ResolveEntities(r, e).r
           refs == ResolveEntities(r, e).refs
<1>1. Settled(q) /\ refs \in Seq(q.known) /\ AllLearnt(q, e, refs, Len(e.refs))
  BY ResolveSettles
<1> HIDE DEF q, refs
<1>2. ResolveEntities(q, e) = [r |-> q, refs |-> refs]
  BY <1>1, ResolveAgain
<1>3. QED BY <1>2 DEF q, refs

-----------------------------------------------------------------------------
(* The steps of a handler *)

\* name_similarity is a number for any two texts.
ScoresAreNumbers == \A a, b : Score(a, b) \in Nat

NamesOnly(step, S) == \A ref : <<"node", ref>> \in step.put => ref \in S

\* Steps that write no nodes but those of the entities in S.
Within(steps, S) ==
    \E R : steps \in Seq(R) /\ \A step \in R : "stop" \in DOMAIN step \/ NamesOnly(step, S)

LEMMA WithinNone == \A S : Within(<<>>, S)
<1> SUFFICES ASSUME NEW S PROVE Within(<<>>, S)
  OBVIOUS
<1> DEFINE none == <<>>
<1>1. none \in Seq({})
  OBVIOUS
<1> HIDE DEF none
<1>2. Within(none, S)
  BY <1>1 DEF Within
<1>3. QED BY <1>2 DEF none

LEMMA WithinOne ==
    ASSUME NEW S, NEW step, "stop" \in DOMAIN step \/ NamesOnly(step, S)
    PROVE  Within(<<step>>, S)
<1> DEFINE one == <<step>>
           R == {step}
<1>1. one \in Seq(R) /\ \A x \in R : "stop" \in DOMAIN x \/ NamesOnly(x, S)
  OBVIOUS
<1> HIDE DEF one, R
<1>2. Within(one, S)
  BY <1>1 DEF Within
<1>3. QED BY <1>2 DEF one

LEMMA WithinBoth ==
    ASSUME NEW S, NEW a, NEW b, Within(a, S), Within(b, S)
    PROVE  Within(a \o b, S)
<1>1. PICK A : a \in Seq(A) /\ \A step \in A : "stop" \in DOMAIN step \/ NamesOnly(step, S)
  BY DEF Within
<1>2. PICK B : b \in Seq(B) /\ \A step \in B : "stop" \in DOMAIN step \/ NamesOnly(step, S)
  BY DEF Within
<1>3. a \in Seq(A \cup B) /\ b \in Seq(A \cup B)
  BY <1>1, <1>2, SeqMonotonic
<1>4. a \o b \in Seq(A \cup B)
  BY <1>3
<1>5. \A step \in A \cup B : "stop" \in DOMAIN step \/ NamesOnly(step, S)
  BY <1>1, <1>2
<1>6. QED BY <1>4, <1>5 DEF Within

LEMMA WithinWhen ==
    ASSUME NEW S, NEW condition, NEW steps, condition => Within(steps, S)
    PROVE  Within(When(condition, steps), S)
  BY WithinNone DEF When

LEMMA WithinStop == \A S, how : Within(Stop(how), S)
<1> SUFFICES ASSUME NEW S, NEW how PROVE Within(Stop(how), S)
  OBVIOUS
<1>1. "stop" \in DOMAIN [stop |-> how]
  OBVIOUS
<1>2. QED BY <1>1, WithinOne DEF Stop

LEMMA WithinRequire ==
    ASSUME NEW S, NEW found, NEW steps, found => Within(steps, S)
    PROVE  Within(Require(found, steps), S)
  BY WithinStop DEF Require

LEMMA WithinReadNumber == \A S, e, f : Within(ReadNumber(e, f), S)
<1> SUFFICES ASSUME NEW S, NEW e, NEW f PROVE Within(ReadNumber(e, f), S)
  OBVIOUS
<1>1. Within(When(f \notin DOMAIN e.payload, Stop("rejected")), S)
  BY WithinStop, WithinWhen
<1>2. Within(When(Field(e, f) # Number, Stop("raised")), S)
  BY WithinStop, WithinWhen
<1>3. QED BY <1>1, <1>2, WithinBoth DEF ReadNumber

LEMMA WithinPoint == \A S, series : Within(Point(series), S)
<1> SUFFICES ASSUME NEW S, NEW series PROVE Within(Point(series), S)
  OBVIOUS
<1> DEFINE step == [put |-> {}, add |-> <<series>>]
<1>1. step.put = {}
  OBVIOUS
<1>2. NamesOnly(step, S)
  BY <1>1 DEF NamesOnly
<1> HIDE DEF step
<1>3. Within(<<step>>, S)
  BY <1>2, WithinOne
<1>4. QED BY <1>3 DEF step, Point

LEMMA WithinNode == \A S : \A ref \in S : Within(Node(ref), S)
<1> SUFFICES ASSUME NEW S, NEW ref \in S PROVE Within(Node(ref), S)
  OBVIOUS
<1> DEFINE step == [put |-> {<<"node", ref>>}, add |-> <<>>]
<1>1. step.put = {<<"node", ref>>}
  OBVIOUS
<1>2. NamesOnly(step, S)
  BY <1>1 DEF NamesOnly
<1> HIDE DEF step
<1>3. Within(<<step>>, S)
  BY <1>2, WithinOne
<1>4. QED BY <1>3 DEF step, Node

LEMMA NodesAreNodes ==
    ASSUME NEW ref, NEW a, NEW kind, NEW b, <<"node", ref>> = <<"edge", a, kind, b>>
    PROVE  FALSE
<1>1. <<"node", ref>>[1] = "node" /\ <<"edge", a, kind, b>>[1] = "edge"
  OBVIOUS
<1>2. QED BY <1>1

LEMMA WithinDoc == \A S, id : Within(Doc(id), S)
<1> SUFFICES ASSUME NEW S, NEW id PROVE Within(Doc(id), S)
  OBVIOUS
<1> DEFINE step == [put |-> {<<"doc", id>>}, add |-> <<>>]
<1>1. step.put = {<<"doc", id>>}
  OBVIOUS
<1>2. \A ref : <<"node", ref>> # <<"doc", id>>
  OBVIOUS
<1>3. NamesOnly(step, S)
  BY <1>1, <1>2 DEF NamesOnly
<1> HIDE DEF step
<1>4. Within(<<step>>, S)
  BY <1>3, WithinOne
<1>5. QED BY <1>4 DEF step, Doc

LEMMA WithinEdge == \A S : \A a, b \in S : \A kind : Within(Edge(a, kind, b), S)
<1> SUFFICES ASSUME NEW S, NEW a \in S, NEW b \in S, NEW kind PROVE Within(Edge(a, kind, b), S)
  OBVIOUS
<1> DEFINE step == [put |-> {<<"node", a>>, <<"node", b>>, <<"edge", a, kind, b>>}, add |-> <<>>]
<1>1. step.put = {<<"node", a>>, <<"node", b>>, <<"edge", a, kind, b>>}
  OBVIOUS
<1>2. ASSUME NEW ref, <<"node", ref>> \in step.put PROVE ref \in S
  <2>1. CASE <<"node", ref>> = <<"node", a>>
    BY <2>1
  <2>2. CASE <<"node", ref>> = <<"node", b>>
    BY <2>2
  <2>3. CASE <<"node", ref>> = <<"edge", a, kind, b>>
    BY <2>3, NodesAreNodes
  <2>4. QED BY <1>1, <1>2, <2>1, <2>2, <2>3
<1>3. NamesOnly(step, S)
  BY <1>2 DEF NamesOnly
<1> HIDE DEF step
<1>4. Within(<<step>>, S)
  BY <1>3, WithinOne
<1>5. QED BY <1>4 DEF step, Edge

LEMMA WithinLinks ==
    ASSUME NEW S, NEW a \in S, NEW kind, NEW e, Range(e.refs) \subseteq S
    PROVE  Within(Links(a, kind, e), S)
<1> DEFINE others == Range(e.refs) \ {a}
           nodes == {<<"node", ref>> : ref \in others \cup {a}}
           edges == {<<"edge", a, kind, ref>> : ref \in others}
           step == [put |-> nodes \cup edges, add |-> <<>>]
<1>1. step.put = nodes \cup edges
  OBVIOUS
<1>2. ASSUME NEW ref, <<"node", ref>> \in step.put PROVE ref \in S
  <2>1. CASE <<"node", ref>> \in nodes
    <3>1. PICK x \in others \cup {a} : <<"node", ref>> = <<"node", x>>
      BY <2>1
    <3>2. QED BY <3>1
  <2>2. CASE <<"node", ref>> \in edges
    <3>1. PICK x \in others : <<"node", ref>> = <<"edge", a, kind, x>>
      BY <2>2
    <3>2. QED BY <3>1, NodesAreNodes
  <2>3. QED BY <1>1, <1>2, <2>1, <2>2
<1>3. NamesOnly(step, S)
  BY <1>2 DEF NamesOnly
<1>4. Within(<<step>>, S)
  <2> HIDE DEF step
  <2>1. QED BY <1>3, WithinOne
<1>5. Within(When(others # {}, <<step>>), S)
  <2> HIDE DEF step, others
  <2>1. QED BY <1>4, WithinWhen
<1>6. Links(a, kind, e) = When(others # {}, <<step>>)
  BY DEF Links
<1>7. QED BY <1>5, <1>6


-----------------------------------------------------------------------------
(* The handlers *)

Types == {"customer", "account", "trade", "instrument", "case", "alert", "policy", "document"}

\* What the fields of a payload may identify.
Literals(e) == {<<type, Field(e, f)>> : type \in Types, f \in Identifiers}

\* What a handler is given: a resolver, an envelope with canonical entities, and
\* the set S of entities that may have nodes, which leaves out the duplicates.
Given(r, e, S) ==
    /\ Settled(r) /\ ScoresAreNumbers
    /\ e.refs \in Seq(r.known) /\ r.known \subseteq S
    /\ Literals(e) \ DOMAIN r.alias \subseteq S

\* An identifier in a payload leads to what it stands for; what is used as it is
\* was no duplicate.
LEMMA PayloadWithin ==
    ASSUME NEW r, NEW e, NEW S, Given(r, e, S), NEW type \in Types, NEW f \in Identifiers
    PROVE  FromPayload(r, type, e, f) = None \/ FromPayload(r, type, e, f) \in S
<1> DEFINE value == Field(e, f)
           literal == <<type, value>>
           found == Resolve(r, type, value)
<1>1. literal \in Literals(e)
  BY DEF Literals
<1>2. ByName(r, type, value) = None \/ ByName(r, type, value) \in r.known
  <2>1. \A b \in Range(Names) : Score(value, b) \in Nat
    BY DEF Given, ScoresAreNumbers
  <2>2. QED BY <2>1, NameIsKnown DEF Given
<1>3. found = None \/ found \in r.known
  BY <1>2 DEF Resolve, Given, Settled
<1>4. found = None => literal \notin DOMAIN r.alias
  BY DEF Resolve, Given, Settled
<1>5. FromPayload(r, type, e, f) = IF value = Missing THEN None ELSE FirstOf(found, literal)
  BY DEF FromPayload
<1> HIDE DEF found, literal, value
<1>6. found = None => literal \in S
  BY <1>1, <1>4 DEF Given
<1>7. found # None => found \in S
  BY <1>3 DEF Given
<1>8. QED BY <1>5, <1>6, <1>7 DEF FirstOf

LEMMA EntityWithin ==
    ASSUME NEW r, NEW e, NEW S, Given(r, e, S), NEW type \in Types, NEW f \in Identifiers
    PROVE  Entity(r, type, e, f) = None \/ Entity(r, type, e, f) \in S
<1> DEFINE I == {i \in 1..Len(e.refs) : e.refs[i][1] = type}
           i == IF I # {} THEN Min(I) ELSE 0
<1>1. Entity(r, type, e, f) = IF i # 0 THEN e.refs[i] ELSE FromPayload(r, type, e, f)
  BY DEF Entity, SelectInSeq
<1>2. ASSUME i # 0 PROVE i \in 1..Len(e.refs)
  <2>1. I # {} /\ I \in SUBSET Nat
    BY <1>2
  <2>2. \E x \in I : \A y \in I : x <= y
    <3> HIDE DEF I
    <3>1. QED BY <2>1, LeastNatural
  <2>3. Min(I) \in I
    <3> HIDE DEF I
    <3>1. QED BY <2>2 DEF Min
  <2>4. QED BY <2>1, <2>3
<1>3. ASSUME i # 0 PROVE e.refs[i] \in S
  <2>1. e.refs \in Seq(r.known) /\ r.known \subseteq S
    BY DEF Given
  <2> HIDE DEF i
  <2>2. QED BY <1>2, <1>3, <2>1
<1> HIDE DEF i
<1>4. QED BY <1>1, <1>3, PayloadWithin

LEMMA RefsWithin ==
    ASSUME NEW r, NEW e, NEW S, Given(r, e, S)
    PROVE  Range(e.refs) \subseteq S
<1>1. e.refs \in Seq(r.known) /\ r.known \subseteq S
  BY DEF Given
<1>2. QED BY <1>1 DEF Range

LEMMA CustomerWithin ==
    ASSUME NEW r, NEW e, NEW S, Given(r, e, S)
    PROVE  Within(OnCustomer(r, e), S)
<1> DEFINE c == Entity(r, "customer", e, "customer_id")
           found == c # None
<1>1. c = None \/ c \in S
  BY EntityWithin DEF Types, Identifiers
<1>2. OnCustomer(r, e) = Require(found, Node(c))
  BY DEF OnCustomer
<1>3. found => Within(Node(c), S)
  <2> HIDE DEF c
  <2>1. QED BY <1>1, WithinNode
<1> HIDE DEF found, c
<1>4. QED BY <1>2, <1>3, WithinRequire

LEMMA TransferWithin ==
    ASSUME NEW r, NEW e, NEW S, Given(r, e, S)
    PROVE  Within(OnTransfer(r, e), S)
<1> DEFINE src == FromPayload(r, "account", e, "from_account_id")
           dst == FromPayload(r, "account", e, "to_account_id")
           a == ReadNumber(e, "amount")
           b == Edge(src, "transfers_to", dst)
           c == Point(<<"count", src, dst>>)
           d == Point(<<"transfers", src>>)
           found == None \notin {src, dst}
<1>1. (src = None \/ src \in S) /\ (dst = None \/ dst \in S)
  BY PayloadWithin DEF Types, Identifiers
<1>2. OnTransfer(r, e) = Require(found, a \o b \o c \o d)
  BY DEF OnTransfer
<1>3. Within(a, S) /\ Within(c, S) /\ Within(d, S)
  BY WithinReadNumber, WithinPoint
<1>4. found => Within(b, S)
  <2> HIDE DEF src, dst
  <2>1. QED BY <1>1, WithinEdge
<1> HIDE DEF found, a, b, c, d, src, dst
<1>5. found => Within(a \o b \o c \o d, S)
  BY <1>3, <1>4, WithinBoth
<1>6. QED BY <1>2, <1>5, WithinRequire

LEMMA AccountWithin ==
    ASSUME NEW r, NEW e, NEW S, Given(r, e, S)
    PROVE  Within(OnAccount(r, e), S)
<1> DEFINE a == Entity(r, "account", e, "account_id")
           owner == Entity(r, "customer", e, "customer_id")
           number == ReadNumber(e, "balance")
           point == Point(<<"balance", a>>)
           owns == When(owner # None, Edge(owner, "owns", a))
           balance == When("balance" \in DOMAIN e.payload, number \o point)
           found == a # None
<1>1. (a = None \/ a \in S) /\ (owner = None \/ owner \in S)
  BY EntityWithin DEF Types, Identifiers
<1>2. OnAccount(r, e) = Require(found, Node(a) \o owns \o balance)
  BY DEF OnAccount
<1>3. Within(balance, S)
  <2>1. Within(number, S) /\ Within(point, S)
    BY WithinReadNumber, WithinPoint
  <2> HIDE DEF number, point
  <2>2. Within(number \o point, S)
    BY <2>1, WithinBoth
  <2>3. QED BY <2>2, WithinWhen
<1>4. found => Within(owns, S) /\ Within(Node(a), S)
  <2> HIDE DEF a, owner
  <2>1. a # None => Within(Node(a), S)
    BY <1>1, WithinNode
  <2>2. a # None /\ owner # None => Within(Edge(owner, "owns", a), S)
    BY <1>1, WithinEdge
  <2>3. QED BY <2>1, <2>2, WithinWhen
<1> HIDE DEF found, a, owns, balance
<1>5. found => Within(Node(a) \o owns \o balance, S)
  BY <1>3, <1>4, WithinBoth
<1>6. QED BY <1>2, <1>5, WithinRequire

LEMMA TradeWithin ==
    ASSUME NEW r, NEW e, NEW S, Given(r, e, S)
    PROVE  Within(OnTrade(r, e), S)
<1> DEFINE t == Entity(r, "trade", e, "trade_id")
           a == Entity(r, "account", e, "account_id")
           i == Entity(r, "instrument", e, "instrument_id")
           known == None \notin {t, a, i}
           placed == Edge(a, "placed", t)
           on == Edge(t, "on", i)
           quantity == ReadNumber(e, "quantity")
           price == ReadNumber(e, "price")
           point == Point(<<"trade_notional", i>>)
<1>1. (t = None \/ t \in S) /\ (a = None \/ a \in S) /\ (i = None \/ i \in S)
  BY EntityWithin DEF Types, Identifiers
<1>2. OnTrade(r, e) = Require(known, Node(t) \o placed \o on \o quantity \o price \o point)
  BY DEF OnTrade
<1>3. Within(quantity, S) /\ Within(price, S) /\ Within(point, S)
  BY WithinReadNumber, WithinPoint
<1>4. known => Within(Node(t), S) /\ Within(placed, S) /\ Within(on, S)
  <2> HIDE DEF t, a, i
  <2>1. QED BY <1>1, WithinNode, WithinEdge
<1>5. known \in BOOLEAN
  OBVIOUS
<1> HIDE DEF known, t, placed, on, quantity, price, point
<1>6. known => Within(Node(t) \o placed \o on \o quantity \o price \o point, S)
  <2>1. SUFFICES ASSUME known PROVE Within(Node(t) \o placed \o on \o quantity \o price \o point, S)
    OBVIOUS
  <2>2. Within(Node(t) \o placed \o on, S)
    BY <1>4, <2>1, WithinBoth
  <2>3. QED BY <1>3, <2>2, WithinBoth
<1>7. QED BY <1>2, <1>5, <1>6, WithinRequire

LEMMA PositionWithin ==
    ASSUME NEW r, NEW e, NEW S, Given(r, e, S)
    PROVE  Within(OnPosition(r, e), S)
<1> DEFINE a == Entity(r, "account", e, "account_id")
           i == Entity(r, "instrument", e, "instrument_id")
           known == None \notin {a, i}
           quantity == ReadNumber(e, "quantity")
           value == ReadNumber(e, "market_value")
           holds == Edge(a, "holds", i)
           point == Point(<<"position", a, i>>)
<1>1. (a = None \/ a \in S) /\ (i = None \/ i \in S)
  BY EntityWithin DEF Types, Identifiers
<1>2. OnPosition(r, e) = Require(known, quantity \o value \o holds \o point)
  BY DEF OnPosition
<1>3. Within(quantity, S) /\ Within(value, S) /\ Within(point, S)
  BY WithinReadNumber, WithinPoint
<1>4. known => Within(holds, S)
  <2> HIDE DEF a, i
  <2>1. QED BY <1>1, WithinEdge
<1>5. known \in BOOLEAN
  OBVIOUS
<1> HIDE DEF known, quantity, value, holds, point
<1>6. known => Within(quantity \o value \o holds \o point, S)
  BY <1>3, <1>4, WithinBoth
<1>7. QED BY <1>2, <1>5, <1>6, WithinRequire

LEMMA CaseWithin ==
    ASSUME NEW r, NEW e, NEW S, Given(r, e, S)
    PROVE  Within(OnCase(r, e), S)
<1> DEFINE c == Entity(r, "case", e, "case_id")
           links == Links(c, "involves", e)
           doc == When(Field(e, "narrative") \notin {Missing, Blank}, Doc(c))
           found == c # None
<1>1. c = None \/ c \in S
  BY EntityWithin DEF Types, Identifiers
<1>2. OnCase(r, e) = Require(found, Node(c) \o links \o doc)
  BY DEF OnCase
<1>3. Within(doc, S)
  BY WithinDoc, WithinWhen
<1>4. found => Within(Node(c), S) /\ Within(links, S)
  <2> HIDE DEF c
  <2>1. QED BY <1>1, WithinNode, WithinLinks, RefsWithin
<1> HIDE DEF found, c, links, doc
<1>5. found => Within(Node(c) \o links \o doc, S)
  BY <1>3, <1>4, WithinBoth
<1>6. QED BY <1>2, <1>5, WithinRequire

LEMMA AlertWithin ==
    ASSUME NEW r, NEW e, NEW S, Given(r, e, S)
    PROVE  Within(OnAlert(r, e), S)
<1> DEFINE a == Entity(r, "alert", e, "alert_id")
           links == Links(a, "concerns", e)
           score == When("score" \in DOMAIN e.payload, ReadNumber(e, "score"))
           point == Point(<<"alerts">>)
           found == a # None
<1>1. a = None \/ a \in S
  BY EntityWithin DEF Types, Identifiers
<1>2. OnAlert(r, e) = Require(found, Node(a) \o links \o score \o point)
  BY DEF OnAlert
<1>3. Within(score, S) /\ Within(point, S)
  BY WithinReadNumber, WithinPoint, WithinWhen
<1>4. found => Within(Node(a), S) /\ Within(links, S)
  <2> HIDE DEF a
  <2>1. QED BY <1>1, WithinNode, WithinLinks, RefsWithin
<1> HIDE DEF found, a, links, score, point
<1>5. found => Within(Node(a) \o links \o score \o point, S)
  BY <1>3, <1>4, WithinBoth
<1>6. QED BY <1>2, <1>5, WithinRequire

LEMMA PolicyWithin ==
    ASSUME NEW r, NEW e, NEW S, Given(r, e, S)
    PROVE  Within(OnPolicy(r, e), S)
<1> DEFINE p == Entity(r, "policy", e, "policy_id")
           found == p # None /\ Field(e, "body") \notin {Missing, Blank}
<1>1. p = None \/ p \in S
  BY EntityWithin DEF Types, Identifiers
<1>2. OnPolicy(r, e) = Require(found, Doc(p) \o Node(p))
  BY DEF OnPolicy
<1>3. Within(Doc(p), S)
  BY WithinDoc
<1> HIDE DEF p
<1>4. found => Within(Doc(p) \o Node(p), S)
  <2>1. ASSUME found PROVE Within(Node(p), S)
    BY <1>1, <2>1, WithinNode
  <2>2. QED BY <1>3, <2>1, WithinBoth
<1>5. found \in BOOLEAN
  OBVIOUS
<1> HIDE DEF found
<1>6. QED BY <1>2, <1>4, <1>5, WithinRequire

LEMMA MarketWithin ==
    ASSUME NEW r, NEW e, NEW S, Given(r, e, S)
    PROVE  Within(OnMarket(r, e), S)
<1> DEFINE i == Entity(r, "instrument", e, "instrument_id")
           key == FirstGiven(e, <<"series_key", "instrument_id", "symbol">>)
           value == FirstGiven(e, <<"value", "mid", "price">>)
           found == Missing \notin {key, value}
           number == ReadNumber(e, value)
           point == Point(<<"price", Field(e, key)>>)
<1>1. i = None \/ i \in S
  BY EntityWithin DEF Types, Identifiers
<1>2. OnMarket(r, e) = IF e.kind = "instrument" THEN Require(i # None, Node(i))
                       ELSE Require(found, number \o point)
  BY DEF OnMarket
<1>3. Within(number, S) /\ Within(point, S)
  BY WithinReadNumber, WithinPoint
<1>4. found \in BOOLEAN
  OBVIOUS
<1> HIDE DEF i, found, number, point
<1>5. Within(Require(i # None, Node(i)), S)
  BY <1>1, WithinNode, WithinRequire
<1>6. Within(number \o point, S)
  BY <1>3, WithinBoth
<1>7. Within(Require(found, number \o point), S)
  BY <1>4, <1>6, WithinRequire
<1>8. QED BY <1>2, <1>5, <1>7

LEMMA DocumentWithin ==
    ASSUME NEW r, NEW e, NEW S, Given(r, e, S)
    PROVE  Within(OnDocument(r, e), S)
<1> DEFINE f == IF Field(e, "doc_id") # Missing THEN "doc_id" ELSE "document_id"
           d == Entity(r, "document", e, f)
           links == Links(d, "references", e)
           found == d # None /\ FirstGiven(e, <<"text", "body">>) # Missing
<1>1. d = None \/ d \in S
  <2>1. f \in Identifiers /\ "document" \in Types
    BY DEF Identifiers, Types
  <2> HIDE DEF f
  <2>2. QED BY <2>1, EntityWithin
<1>2. OnDocument(r, e) = Require(found, Doc(d) \o Node(d) \o links)
  BY DEF OnDocument
<1>3. Within(Doc(d), S)
  BY WithinDoc
<1>4. found => Within(Node(d), S) /\ Within(links, S)
  <2> HIDE DEF d
  <2>1. QED BY <1>1, WithinNode, WithinLinks, RefsWithin
<1>5. found \in BOOLEAN
  OBVIOUS
<1> HIDE DEF d, links, found
<1>6. found => Within(Doc(d) \o Node(d) \o links, S)
  BY <1>3, <1>4, WithinBoth
<1>7. QED BY <1>2, <1>5, <1>6, WithinRequire

\* Whatever its kind, an envelope has nodes written for canonical entities only,
\* and for those its payload names.
LEMMA HandlerWithin ==
    ASSUME NEW r, NEW e, NEW S, Given(r, e, S), e.kind \in Routes
    PROVE  Within(Handler(r, e), S)
<1>1. CASE e.kind = "customer"
  BY <1>1, CustomerWithin DEF Handler
<1>2. CASE e.kind = "account"
  BY <1>2, AccountWithin DEF Handler
<1>3. CASE e.kind = "transfer"
  BY <1>3, TransferWithin DEF Handler
<1>4. CASE e.kind = "trade"
  BY <1>4, TradeWithin DEF Handler
<1>5. CASE e.kind = "position"
  BY <1>5, PositionWithin DEF Handler
<1>6. CASE e.kind = "case"
  BY <1>6, CaseWithin DEF Handler
<1>7. CASE e.kind = "alert"
  BY <1>7, AlertWithin DEF Handler
<1>8. CASE e.kind = "policy"
  BY <1>8, PolicyWithin DEF Handler
<1>9. CASE e.kind \in {"market", "instrument"}
  BY <1>9, MarketWithin DEF Handler
<1>10. CASE e.kind \in {"document", "filing"}
  BY <1>10, DocumentWithin DEF Handler
<1>11. QED
  BY <1>1, <1>2, <1>3, <1>4, <1>5, <1>6, <1>7, <1>8, <1>9, <1>10 DEF Routes

-----------------------------------------------------------------------------
(* One envelope *)

IsTwin(t) ==
    t = [facts |-> t.facts, points |-> t.points, resolver |-> t.resolver, outcomes |-> t.outcomes]

Sound(t) == IsTwin(t) /\ Settled(t.resolver) /\ \E T : t.outcomes \in Seq(T)

LEMMA HandledTwin ==
    ASSUME NEW t, IsTwin(t), NEW steps
    PROVE  /\ IsTwin(Handled(t, steps))
           /\ Handled(t, steps).resolver = t.resolver
           /\ \E x : Handled(t, steps).outcomes = Append(t.outcomes, x)
           /\ Handled(t, steps).facts =
                  t.facts \cup UNION {steps[i].put :
                      i \in {i \in DOMAIN steps :
                               \A j \in {k \in DOMAIN steps : "stop" \in DOMAIN steps[k]} : i < j}}
<1> DEFINE stops == {i \in DOMAIN steps : "stop" \in DOMAIN steps[i]}
           taken == {i \in DOMAIN steps : \A j \in stops : i < j}
           added(series) == {i \in taken : steps[i].add = <<series>>}
           facts == t.facts \cup UNION {steps[i].put : i \in taken}
           points == t.points (+) [series \in UNION {Range(steps[i].add) : i \in taken}
                                       |-> Cardinality(added(series))]
           outcome == IF stops = {} THEN "ingested" ELSE steps[Min(stops)].stop
           outcomes == Append(t.outcomes, outcome)
           u == Handled(t, steps)
<1>1. u = [t EXCEPT !.facts = facts, !.points = points, !.outcomes = outcomes]
  BY DEF Handled
<1>2. \E x : outcomes = Append(t.outcomes, x)
  OBVIOUS
<1>3. facts = t.facts \cup UNION {steps[i].put : i \in taken}
  OBVIOUS
<1> HIDE DEF u, facts, points, outcomes
<1>4. u = [facts |-> facts, points |-> points, resolver |-> t.resolver, outcomes |-> outcomes]
  BY <1>1 DEF IsTwin
<1>5. IsTwin(u) /\ u.resolver = t.resolver /\ u.outcomes = outcomes /\ u.facts = facts
  BY <1>4 DEF IsTwin
<1>6. QED BY <1>2, <1>3, <1>5 DEF u

LEMMA OutcomesGrow ==
    ASSUME NEW t, Sound(t), NEW u, IsTwin(u), Settled(u.resolver),
           \E x : u.outcomes = Append(t.outcomes, x)
    PROVE  Sound(u)
<1>1. PICK T : t.outcomes \in Seq(T)
  BY DEF Sound
<1>2. PICK x : u.outcomes = Append(t.outcomes, x)
  OBVIOUS
<1>3. t.outcomes \in Seq(T \cup {x})
  BY <1>1, SeqMonotonic
<1>4. u.outcomes \in Seq(T \cup {x})
  BY <1>2, <1>3
<1>5. QED BY <1>4 DEF Sound

\* What an envelope teaches a resolver, and adds to the graph and the documents.
Teaches(r, e) == IF e.kind \in Routes THEN ResolveEntities(r, e).r ELSE r

Taken(steps) ==
    {i \in DOMAIN steps : \A j \in {k \in DOMAIN steps : "stop" \in DOMAIN steps[k]} : i < j}

\* The steps of the handler of a routed envelope.
StepsOf(r, e) ==
    Handler(ResolveEntities(r, e).r, [e EXCEPT !.refs = ResolveEntities(r, e).refs])

Adds(r, e) ==
    IF e.kind \in Routes THEN UNION {StepsOf(r, e)[i].put : i \in Taken(StepsOf(r, e))} ELSE {}

LEMMA IngestedIs ==
    ASSUME NEW t, IsTwin(t), NEW e
    PROVE  LET u == Ingested(t, e) IN
           /\ IsTwin(u) /\ \E x : u.outcomes = Append(t.outcomes, x)
           /\ u.resolver = Teaches(t.resolver, e)
           /\ u.facts = t.facts \cup Adds(t.resolver, e)
<1> DEFINE u == Ingested(t, e)
<1>1. CASE e.kind \in Routes
  <2> DEFINE q == ResolveEntities(t.resolver, e).r
             v == [t EXCEPT !.resolver = q]
             steps == StepsOf(t.resolver, e)
  <2>1. u = Handled(v, steps)
    BY <1>1 DEF Ingested, Routed, StepsOf
  <2>2. q = Teaches(t.resolver, e) /\ Adds(t.resolver, e) = UNION {steps[i].put : i \in Taken(steps)}
    BY <1>1 DEF Teaches, Adds
  <2> HIDE DEF q, steps
  <2>3. v = [facts |-> t.facts, points |-> t.points, resolver |-> q, outcomes |-> t.outcomes]
    BY DEF IsTwin
  <2>4. IsTwin(v) /\ v.resolver = q /\ v.outcomes = t.outcomes /\ v.facts = t.facts
    BY <2>3 DEF IsTwin
  <2> HIDE DEF v, u
  <2>5. /\ IsTwin(Handled(v, steps)) /\ Handled(v, steps).resolver = v.resolver
        /\ \E x : Handled(v, steps).outcomes = Append(v.outcomes, x)
        /\ Handled(v, steps).facts = v.facts \cup UNION {steps[i].put : i \in Taken(steps)}
    BY <2>4, HandledTwin DEF Taken
  <2>6. QED BY <2>1, <2>2, <2>4, <2>5 DEF u
<1>2. CASE e.kind \notin Routes
  <2> DEFINE outcomes == Append(t.outcomes, "unrouted")
  <2>1. u = [t EXCEPT !.outcomes = outcomes]
    BY <1>2 DEF Ingested
  <2>2. \E x : outcomes = Append(t.outcomes, x)
    OBVIOUS
  <2> HIDE DEF outcomes, u
  <2>3. u = [facts |-> t.facts, points |-> t.points, resolver |-> t.resolver, outcomes |-> outcomes]
    BY <2>1 DEF IsTwin
  <2>4. IsTwin(u) /\ u.facts = t.facts /\ u.resolver = t.resolver /\ u.outcomes = outcomes
    BY <2>3 DEF IsTwin
  <2>5. Teaches(t.resolver, e) = t.resolver /\ Adds(t.resolver, e) = {}
    BY <1>2 DEF Teaches, Adds
  <2>6. QED BY <2>2, <2>4, <2>5 DEF u
<1>3. QED BY <1>1, <1>2

LEMMA TeachesKeeping ==
    ASSUME NEW r, Settled(r), NEW e, IsEnvelope(e)
    PROVE  Settled(Teaches(r, e)) /\ Keeping(r, Teaches(r, e))
<1>1. Keeping(r, r)
  BY DEF Keeping
<1>2. QED BY <1>1, ResolveSettles DEF Teaches

LEMMA IngestedTwin ==
    ASSUME NEW t, Sound(t), NEW e, IsEnvelope(e)
    PROVE  Sound(Ingested(t, e)) /\ Keeping(t.resolver, Ingested(t, e).resolver)
<1> DEFINE u == Ingested(t, e)
<1>1. /\ IsTwin(u) /\ \E x : u.outcomes = Append(t.outcomes, x)
      /\ u.resolver = Teaches(t.resolver, e)
  BY IngestedIs DEF Sound
<1> HIDE DEF u
<1>2. Settled(u.resolver) /\ Keeping(t.resolver, u.resolver)
  BY <1>1, TeachesKeeping DEF Sound
<1>3. Sound(u)
  BY <1>1, <1>2, OutcomesGrow
<1>4. QED BY <1>2, <1>3 DEF u

\* What an envelope has taught and added, it teaches and adds again.
LEMMA TeachesOnce ==
    ASSUME NEW r, Settled(r), NEW e, IsEnvelope(e)
    PROVE  LET q == Teaches(r, e) IN Teaches(q, e) = q /\ Adds(q, e) = Adds(r, e)
<1>1. CASE e.kind \in Routes
  <2> DEFINE q == ResolveEntities(r, e).r
             refs == ResolveEntities(r, e).refs
  <2>1. ResolveEntities(q, e) = [r |-> q, refs |-> refs]
    BY ResolveTwice
  <2>2. Teaches(r, e) = q /\ StepsOf(r, e) = Handler(q, [e EXCEPT !.refs = refs])
    BY <1>1 DEF Teaches, StepsOf
  <2> HIDE DEF q, refs
  <2>3. ResolveEntities(q, e).r = q /\ ResolveEntities(q, e).refs = refs
    BY <2>1
  <2>4. Teaches(q, e) = q /\ StepsOf(q, e) = StepsOf(r, e)
    BY <1>1, <2>2, <2>3 DEF Teaches, StepsOf
  <2>5. Adds(q, e) = Adds(r, e)
    BY <2>4 DEF Adds
  <2>6. QED BY <2>2, <2>4, <2>5
<1>2. CASE e.kind \notin Routes
  BY <1>2 DEF Teaches, Adds
<1>3. QED BY <1>1, <1>2

\* Nothing an envelope adds is the node of a duplicate.
LEMMA AddsNoDuplicates ==
    ASSUME ScoresAreNumbers, NEW r, Settled(r), NEW e, IsEnvelope(e),
           NEW ref \in DOMAIN Teaches(r, e).alias
    PROVE  <<"node", ref>> \notin Adds(r, e)
<1>1. CASE e.kind \in Routes
  <2> DEFINE q == ResolveEntities(r, e).r
             refs == ResolveEntities(r, e).refs
             f == [e EXCEPT !.refs = refs]
             S == q.known \cup (Literals(f) \ DOMAIN q.alias)
             steps == Handler(q, f)
  <2>1. Settled(q) /\ refs \in Seq(q.known)
    BY ResolveSettles
  <2>2. Teaches(r, e) = q /\ Adds(r, e) = UNION {steps[i].put : i \in Taken(steps)}
    BY <1>1 DEF Teaches, Adds, StepsOf
  <2> HIDE DEF q, refs
  <2>3. f = [kind |-> e.kind, refs |-> refs, payload |-> e.payload, episode |-> e.episode]
    BY DEF IsEnvelope
  <2>4. f.kind = e.kind /\ f.refs = refs
    BY <2>3
  <2> HIDE DEF f
  <2>5. ref \notin S
    BY <2>1, <2>2 DEF Settled
  <2>6. Given(q, f, S)
    BY <2>1, <2>4 DEF Given
  <2> HIDE DEF S
  <2>7. Within(steps, S)
    BY <1>1, <2>4, <2>6, HandlerWithin
  <2> HIDE DEF steps
  <2>8. PICK R : steps \in Seq(R) /\ \A step \in R : "stop" \in DOMAIN step \/ NamesOnly(step, S)
    BY <2>7 DEF Within
  <2>9. ASSUME NEW i \in Taken(steps) PROVE <<"node", ref>> \notin steps[i].put
    <3>1. i \in DOMAIN steps /\ i \in Nat /\ steps[i] \in R
      BY <2>8 DEF Taken
    <3>2. "stop" \notin DOMAIN steps[i]
      BY <3>1 DEF Taken
    <3>3. NamesOnly(steps[i], S)
      BY <2>8, <3>1, <3>2
    <3>4. QED BY <2>5, <3>3 DEF NamesOnly
  <2>10. QED BY <2>2, <2>9
<1>2. CASE e.kind \notin Routes
  BY <1>2 DEF Adds
<1>3. QED BY <1>1, <1>2

-----------------------------------------------------------------------------
(* Envelopes ingested one after the other *)

\* What comes of a twin at the next envelope.
After(t, e, strict) == IF strict /\ Refused(t) THEN t ELSE Ingested(t, e)

\* after is the twin after each of the first n envelopes.
Replays(after, t, s, strict, n) ==
    after = [i \in 0..n |-> IF i = 0 THEN t
                            ELSE IF strict /\ Refused(after[i - 1]) THEN after[i - 1]
                            ELSE Ingested(after[i - 1], s[i])]

LEMMA ReplaysExists ==
    ASSUME NEW t, NEW s, NEW strict
    PROVE  \A n \in Nat : \E after : Replays(after, t, s, strict, n)
<1> DEFINE T == {n \in Nat : \E after : Replays(after, t, s, strict, n)}
<1>1. 0 \in T
  <2>1. Replays([i \in 0..0 |-> t], t, s, strict, 0)
    BY DEF Replays
  <2>2. QED BY <2>1
<1>2. ASSUME NEW n \in T PROVE n + 1 \in T
  <2>1. PICK after : Replays(after, t, s, strict, n)
    OBVIOUS
  <2> DEFINE next == After(after[n], s[n + 1], strict)
             longer == [i \in 0..(n + 1) |-> IF i = n + 1 THEN next ELSE after[i]]
  <2>2. ASSUME NEW i \in 0..(n + 1)
        PROVE  longer[i] = IF i = 0 THEN t ELSE After(longer[i - 1], s[i], strict)
    <3>1. CASE i = n + 1
      <4>1. n \in 0..(n + 1) /\ n # n + 1 /\ i # 0 /\ i - 1 = n
        BY <3>1
      <4>2. longer[i] = next /\ longer[i - 1] = after[n]
        BY <3>1, <4>1
      <4>3. QED BY <3>1, <4>1, <4>2
    <3>2. CASE i # n + 1
      <4>1. i \in 0..n /\ longer[i] = after[i]
        BY <3>2
      <4>2. i # 0 => longer[i - 1] = after[i - 1]
        BY <3>2
      <4>3. after[i] = IF i = 0 THEN t ELSE After(after[i - 1], s[i], strict)
        BY <2>1, <4>1 DEF Replays, After
      <4>4. QED BY <4>1, <4>2, <4>3
    <3>3. QED BY <3>1, <3>2
  <2>3. Replays(longer, t, s, strict, n + 1)
    BY <2>2 DEF Replays, After
  <2>4. QED BY <2>3
<1>3. T = Nat
  BY <1>1, <1>2, Inductive
<1>4. QED BY <1>3

LEMMA ReplayIs ==
    ASSUME NEW t, NEW s, Len(s) \in Nat, NEW strict
    PROVE  \E after : Replays(after, t, s, strict, Len(s)) /\ Replay(t, s, strict) = after[Len(s)]
<1> DEFINE after == CHOOSE a : Replays(a, t, s, strict, Len(s))
<1>1. Replays(after, t, s, strict, Len(s))
  BY ReplaysExists
<1>2. Replay(t, s, strict) = after[Len(s)]
  BY DEF Replay, Replays
<1>3. QED BY <1>1, <1>2

LEMMA ReplaysFirst ==
    ASSUME NEW t, NEW s, NEW strict, NEW n \in Nat, NEW after, Replays(after, t, s, strict, n)
    PROVE  after[0] = t
  BY DEF Replays

LEMMA ReplaysNext ==
    ASSUME NEW t, NEW s, NEW strict, NEW n \in Nat, NEW after, Replays(after, t, s, strict, n)
    PROVE  \A m \in Nat : m + 1 <= n => after[m + 1] = After(after[m], s[m + 1], strict)
<1> SUFFICES ASSUME NEW m \in Nat, m + 1 <= n
             PROVE  after[m + 1] = After(after[m], s[m + 1], strict)
  OBVIOUS
<1>1. m + 1 \in 0..n /\ m + 1 # 0 /\ (m + 1) - 1 = m
  OBVIOUS
<1>2. after[m + 1] = IF strict /\ Refused(after[(m + 1) - 1]) THEN after[(m + 1) - 1]
                     ELSE Ingested(after[(m + 1) - 1], s[m + 1])
  BY <1>1 DEF Replays
<1>3. QED BY <1>1, <1>2 DEF After

LEMMA ReplayTwin ==
    ASSUME NEW R, \A e \in R : IsEnvelope(e), NEW s \in Seq(R), NEW t, Sound(t), NEW strict
    PROVE  Sound(Replay(t, s, strict))
<1> DEFINE n == Len(s)
<1>1. n \in Nat /\ \A i \in 1..n : s[i] \in R
  OBVIOUS
<1>2. PICK after : Replays(after, t, s, strict, n) /\ Replay(t, s, strict) = after[n]
  BY <1>1, ReplayIs
<1> HIDE DEF n
<1> DEFINE T == {m \in Nat : m <= n => Sound(after[m])}
<1>3. 0 \in T
  BY <1>1, <1>2, ReplaysFirst
<1>4. ASSUME NEW m \in T PROVE m + 1 \in T
  <2>1. SUFFICES ASSUME m + 1 <= n PROVE Sound(after[m + 1])
    OBVIOUS
  <2>2. m \in Nat /\ Sound(after[m]) /\ IsEnvelope(s[m + 1])
    BY <1>1, <2>1
  <2>3. after[m + 1] = After(after[m], s[m + 1], strict)
    BY <1>1, <1>2, <2>1, <2>2, ReplaysNext
  <2>4. Sound(Ingested(after[m], s[m + 1]))
    BY <2>2, IngestedTwin
  <2>5. QED BY <2>2, <2>3, <2>4 DEF After
<1>5. T = Nat
  <2> HIDE DEF T
  <2>1. T \in SUBSET Nat
    BY DEF T
  <2>2. QED BY <1>3, <1>4, <2>1, Inductive
<1>6. QED BY <1>1, <1>2, <1>5

-----------------------------------------------------------------------------
(* What the sources yield *)

\* What a stream yields is an envelope once the episode is stamped on it.
LEMMA IsAnEnvelope ==
    ASSUME NEW kind, NEW T, None \notin T, NEW refs \in Seq(T), NEW payload, NEW episode \in Episodes
    PROVE  IsEnvelope([kind |-> kind, refs |-> refs, payload |-> payload, episode |-> episode])
<1> DEFINE e == [kind |-> kind, refs |-> refs, payload |-> payload, episode |-> episode]
<1>1. /\ e = [kind |-> e.kind, refs |-> e.refs, payload |-> e.payload, episode |-> e.episode]
      /\ e.refs = refs /\ e.episode = episode
  OBVIOUS
<1>2. refs \in Seq(Range(refs)) /\ Range(refs) \subseteq T
  BY DEF Range
<1> HIDE DEF e
<1>3. IsEnvelope(e)
  BY <1>1, <1>2 DEF IsEnvelope
<1>4. QED BY <1>3 DEF e

\* An entity, a type and an identifier, is not None.
LEMMA PairsAreSome == \A a, b : <<a, b>> # None
  BY DEF None

\* A row gives an envelope, or none.
LEMMA RowsAreEnvelopes ==
    ASSUME NEW j, IsBatch(j), NEW row \in Range(j.rows)
    PROVE  EnvelopeOf(j, row) = Junk \/ IsEnvelope(EnvelopeOf(j, row))
<1>0. j.episode \in Episodes
  BY DEF IsBatch
<1>1. CASE j.source = "csv"
  <2> DEFINE mapping == j.mapping
             columns == Without(mapping.refs, {m \in Range(mapping.refs) : ~Filled(row, m[2])})
             refs == [i \in DOMAIN columns |-> <<columns[i][1], row[columns[i][2]]>>]
             payload == [c \in DOMAIN row \ {mapping.ts} |-> Coerced(row[c])]
             T == {refs[i] : i \in DOMAIN columns}
             raw == RowEnvelope(mapping, row)
             given == [kind |-> mapping.kind, refs |-> refs, payload |-> payload]
  <2>1. EnvelopeOf(j, row) = IF raw = Junk THEN Junk
                             ELSE [kind |-> raw.kind, refs |-> raw.refs, payload |-> raw.payload, episode |-> j.episode]
    BY <1>1 DEF EnvelopeOf
  <2>2. raw = Junk \/ raw = given
    BY DEF RowEnvelope
  <2>3. columns \in Seq(Range(mapping.refs))
    BY WithoutType DEF IsBatch
  <2>4. refs \in Seq(T)
    <3> HIDE DEF columns
    <3>1. DOMAIN columns = 1..Len(columns) /\ Len(columns) \in Nat
      BY <2>3
    <3>2. QED BY <3>1
  <2>5. None \notin T
    <3> HIDE DEF columns
    <3>1. QED BY PairsAreSome
  <2> HIDE DEF refs, payload, T, raw, mapping
  <2>6. given.kind = mapping.kind /\ given.refs = refs /\ given.payload = payload
    OBVIOUS
  <2> HIDE DEF given
  <2>7. \/ EnvelopeOf(j, row) = Junk
        \/ EnvelopeOf(j, row) = [kind |-> mapping.kind, refs |-> refs, payload |-> payload, episode |-> j.episode]
    BY <2>1, <2>2, <2>6
  <2>8. QED BY <1>0, <2>4, <2>5, <2>7, IsAnEnvelope
<1>2. CASE j.source = "edgar"
  <2> DEFINE first == <<<<"legal_entity", row.cik>>>>
             tickers == [i \in DOMAIN row.tickers |-> <<"instrument", row.tickers[i]>>]
             T == {<<"legal_entity", row.cik>>} \cup {tickers[i] : i \in DOMAIN row.tickers}
             refs == first \o tickers
             payload == [doc_id |-> row.accession, text |-> Text, title |-> Text]
             raw == FilingEnvelope(row)
  <2>1. EnvelopeOf(j, row) = IF raw = Junk THEN Junk
                             ELSE [kind |-> raw.kind, refs |-> raw.refs, payload |-> raw.payload, episode |-> j.episode]
    BY <1>2 DEF EnvelopeOf
  <2>2. raw.kind = "filing" /\ raw.refs = refs /\ raw.payload = payload
    BY DEF FilingEnvelope
  <2>3. first \in Seq(T)
    OBVIOUS
  <2>4. tickers \in Seq(T)
    <3>1. row.tickers \in Seq(Range(row.tickers))
      BY <1>2 DEF IsBatch
    <3>2. DOMAIN row.tickers = 1..Len(row.tickers) /\ Len(row.tickers) \in Nat
      BY <3>1
    <3>3. \A i \in DOMAIN tickers : tickers[i] \in T
      OBVIOUS
    <3>4. DOMAIN tickers = 1..Len(row.tickers) /\ tickers = [i \in DOMAIN tickers |-> tickers[i]]
      BY <3>2
    <3> HIDE DEF tickers, T
    <3>5. QED BY <3>2, <3>3, <3>4
  <2>5. refs \in Seq(T)
    <3> HIDE DEF first, tickers, T
    <3>1. QED BY <2>3, <2>4
  <2>6. None \notin T
    BY PairsAreSome
  <2> HIDE DEF refs, payload, T, raw
  <2>7. \/ EnvelopeOf(j, row) = Junk
        \/ EnvelopeOf(j, row) = [kind |-> "filing", refs |-> refs, payload |-> payload, episode |-> j.episode]
    BY <2>1, <2>2
  <2>8. QED BY <1>0, <2>5, <2>6, <2>7, IsAnEnvelope
<1>3. CASE j.source = "market"
  <2> DEFINE refs == <<<<"instrument", row.instrument>>>>
             T == {<<"instrument", row.instrument>>}
             payload == [instrument |-> row.instrument, mid |-> Number]
             raw == TickEnvelope(row)
  <2>1. EnvelopeOf(j, row) = IF raw = Junk THEN Junk
                             ELSE [kind |-> raw.kind, refs |-> raw.refs, payload |-> raw.payload, episode |-> j.episode]
    BY <1>3 DEF EnvelopeOf
  <2>2. raw.kind = "market" /\ raw.refs = refs /\ raw.payload = payload
    BY DEF TickEnvelope
  <2>3. refs \in Seq(T) /\ None \notin T
    BY PairsAreSome
  <2> HIDE DEF refs, payload, T, raw
  <2>4. \/ EnvelopeOf(j, row) = Junk
        \/ EnvelopeOf(j, row) = [kind |-> "market", refs |-> refs, payload |-> payload, episode |-> j.episode]
    BY <2>1, <2>2
  <2>5. QED BY <1>0, <2>3, <2>4, IsAnEnvelope
<1>4. QED BY <1>1, <1>2, <1>3 DEF IsBatch

BatchFields == {"source", "episode", "rows", "mapping", "strict", "limit", "forms"}

\* A batch with fewer rows, and another limit.
LEMMA FewerRows ==
    ASSUME NEW j, IsBatch(j), DOMAIN j = BatchFields, NEW rows \in Seq(Range(j.rows)), NEW b,
           /\ DOMAIN b = DOMAIN j /\ b.rows = rows
           /\ \A f \in BatchFields \ {"rows", "limit"} : b[f] = j[f]
    PROVE  IsBatch(b) /\ DOMAIN b = BatchFields
<1>1. /\ b.source = j.source /\ b.rows = rows /\ b.mapping = j.mapping /\ b.episode = j.episode
      /\ DOMAIN b = DOMAIN j
  BY DEF BatchFields
<1>2. rows \in Seq(Range(rows)) /\ Range(rows) \subseteq Range(j.rows)
  BY DEF Range
<1>3. IsBatch(b)
  BY <1>1, <1>2 DEF IsBatch
<1>4. QED BY <1>1, <1>3

LEMMA WantedRows ==
    ASSUME NEW j, IsBatch(j)
    PROVE  Wanted(j) \in Seq(Range(j.rows))
  BY WithoutType DEF IsBatch, Wanted

-----------------------------------------------------------------------------
(* The log *)

LEMMA SinceAppend ==
    ASSUME NEW R, NEW s \in Seq(R), NEW e \in R, NEW b \in 0..Len(s)
    PROVE  SubSeq(Append(s, e), b + 1, Len(s) + 1) = Append(SubSeq(s, b + 1, Len(s)), e)
<1> DEFINE p == SubSeq(Append(s, e), b + 1, Len(s) + 1)
           q == Append(SubSeq(s, b + 1, Len(s)), e)
<1>1. p \in Seq(R) /\ Len(p) = Len(s) + 1 - b /\ \A i \in 1..Len(p) : p[i] = Append(s, e)[b + i]
  OBVIOUS
<1>2. q \in Seq(R) /\ Len(q) = Len(s) - b + 1
  OBVIOUS
<1>3. ASSUME NEW i \in 1..Len(q) PROVE q[i] = IF i = Len(q) THEN e ELSE s[b + i]
  BY <1>2
<1>4. ASSUME NEW i \in 1..Len(q) PROVE Append(s, e)[b + i] = IF i = Len(q) THEN e ELSE s[b + i]
  BY <1>2
<1> HIDE DEF p, q
<1>5. Len(p) = Len(q)
  BY <1>1, <1>2
<1>6. \A i \in 1..Len(p) : p[i] = q[i]
  BY <1>1, <1>3, <1>4, <1>5
<1>7. p = q
  BY <1>1, <1>2, <1>5, <1>6, SeqEqual
<1>8. QED BY <1>7 DEF p, q

LEMMA SinceNothing ==
    ASSUME NEW R, NEW s \in Seq(R)
    PROVE  SubSeq(s, Len(s) + 1, Len(s)) = <<>>
  OBVIOUS

Mail == Events \cup {STOP, Junk}

Logs(S) == [Episodes -> Seq(S)]

\* What is queued, what a batch holds and what was recorded are envelopes, and
\* a batch runs where there is no queue.
Recording ==
    /\ \E R : log \in Logs(R) /\ disk \in Logs(R) /\ \A e \in R : IsEnvelope(e)
    /\ base \in [Episodes -> Nat] /\ \A ep \in Episodes : base[ep] <= Len(log[ep])
    /\ queue \in Seq(Mail)
    /\ job = NoJob \/ (consumer = "batch" /\ IsBatch(job) /\ DOMAIN job = BatchFields)

LEMMA LogsWiden ==
    ASSUME NEW R, NEW S, R \subseteq S, NEW l \in Logs(R)
    PROVE  l \in Logs(S)
<1>1. Seq(R) \subseteq Seq(S)
  BY SeqMonotonic
<1>2. QED BY <1>1 DEF Logs

LEMMA RecordedLogs ==
    ASSUME NEW R, NEW l \in Logs(R), NEW e \in R, e.episode \in Episodes
    PROVE  /\ Recorded(l, e) \in Logs(R)
           /\ \A ep \in Episodes : Recorded(l, e)[ep] = IF ep = e.episode THEN Append(l[ep], e) ELSE l[ep]
           /\ \A ep \in Episodes : Len(l[ep]) <= Len(Recorded(l, e)[ep])
<1> DEFINE ep == e.episode
           longer == Append(l[ep], e)
<1>1. l[ep] \in Seq(R)
  BY DEF Logs
<1>2. longer \in Seq(R) /\ Len(longer) = Len(l[ep]) + 1 /\ Len(l[ep]) \in Nat
  <2> DEFINE q == l[ep]
  <2>1. q \in Seq(R)
    BY <1>1
  <2> HIDE DEF q
  <2>2. Append(q, e) \in Seq(R) /\ Len(Append(q, e)) = Len(q) + 1 /\ Len(q) \in Nat
    BY <2>1
  <2>3. QED BY <2>2 DEF q
<1> HIDE DEF longer
<1>3. Recorded(l, e) = [l EXCEPT ![e.episode] = longer]
  BY DEF Recorded, longer
<1>4. \A x \in Episodes : Len(l[x]) \in Nat
  BY DEF Logs
<1>5. Recorded(l, e) \in Logs(R)
  BY <1>2, <1>3 DEF Logs
<1>6. \A x \in Episodes : Recorded(l, e)[x] = IF x = e.episode THEN longer ELSE l[x]
  BY <1>3 DEF Logs
<1>7. \A x \in Episodes : Recorded(l, e)[x] = IF x = e.episode THEN Append(l[x], e) ELSE l[x]
  BY <1>6 DEF longer
<1>8. \A x \in Episodes : Len(l[x]) <= Len(Recorded(l, e)[x])
  BY <1>2, <1>4, <1>6
<1>9. QED BY <1>5, <1>7, <1>8

LEMMA OpenedLogs ==
    ASSUME NEW R, NEW l \in Logs(R), NEW book \in Seq(R)
    PROVE  Opened(l, book) \in Logs(R)
<1> DEFINE longer == l[DemoEpisode] \o book
<1>1. l[DemoEpisode] \in Seq(R)
  BY TwinAssumption DEF Logs
<1>2. longer \in Seq(R)
  BY <1>1
<1> HIDE DEF longer
<1>3. Opened(l, book) = [l EXCEPT ![DemoEpisode] = longer]
  BY DEF Opened, longer
<1>4. QED BY <1>2, <1>3 DEF Logs

LEMMA BooksAreEnvelopes ==
    ASSUME NEW book \in Book
    PROVE  book \in Seq(Range(Demo)) /\ \A e \in Range(Demo) : IsEnvelope(e)
<1> DEFINE R == Range(Demo)
<1>1. Demo \in Seq(R) /\ \A e \in R : IsEnvelope(e)
  BY TwinAssumption
<1> HIDE DEF R
<1>2. <<>> \in Seq(R)
  OBVIOUS
<1>3. book \in Seq(R)
  BY <1>1, <1>2 DEF Book
<1>4. QED BY <1>1, <1>3 DEF R

LEMMA EmptySound == Sound(EmptyTwin)
<1>1. IsResolver(EmptyResolver) /\ EmptyResolver.known = {} /\ EmptyResolver.alias = <<>>
      /\ EmptyResolver.names = <<>>
  BY DEF EmptyResolver, IsResolver
<1>2. Settled(EmptyResolver)
  <2>1. DOMAIN <<>> = {} /\ <<>> = [n \in DOMAIN <<>> |-> <<>>[n]]
    OBVIOUS
  <2>2. QED BY <1>1, <2>1 DEF Settled
<1>3. EmptyTwin.resolver = EmptyResolver /\ EmptyTwin.outcomes = <<>> /\ IsTwin(EmptyTwin)
  BY DEF EmptyTwin, IsTwin
<1>4. EmptyTwin.outcomes \in Seq({})
  BY <1>3
<1>5. QED BY <1>2, <1>3, <1>4 DEF Sound

LEMMA BookSound ==
    ASSUME NEW book \in Book
    PROVE  Sound(Replayed(EmptyTwin, book))
  BY BooksAreEnvelopes, EmptySound, ReplayTwin DEF Replayed

-----------------------------------------------------------------------------
(* What a step does to the twin and its episodes *)

\* What was delivered since the resolver last changed teaches and adds nothing.
Absorbed(t, e) ==
    /\ IsEnvelope(e)
    /\ Teaches(t.resolver, e) = t.resolver
    /\ Adds(t.resolver, e) \subseteq t.facts

Twinned ==
    /\ Recording /\ Sound(twin)
    /\ \A e \in settled : Absorbed(twin, e)

LEMMA IngestTwinned ==
    ASSUME Twinned, NEW e, IsEnvelope(e), Ingest(e)
    PROVE  /\ Sound(twin') /\ Keeping(twin.resolver, twin'.resolver)
           /\ \A d \in settled' : Absorbed(twin', d)
<1> DEFINE r == twin.resolver
           q == Teaches(r, e)
<1>1. twin' = Ingested(twin, e) /\ settled' = Settles(e)
  BY DEF Ingest
<1>2. IsTwin(twin) /\ Settled(r)
  BY DEF Twinned, Sound
<1>3. twin'.resolver = q /\ twin'.facts = twin.facts \cup Adds(r, e)
  BY <1>1, <1>2, IngestedIs
<1>4. Sound(twin') /\ Keeping(r, twin'.resolver)
  BY <1>1, IngestedTwin DEF Twinned
<1>5. Absorbed(twin', e)
  <2>1. Teaches(q, e) = q /\ Adds(q, e) = Adds(r, e)
    BY <1>2, TeachesOnce
  <2> HIDE DEF q, r
  <2>2. QED BY <1>3, <2>1 DEF Absorbed
<1>6. ASSUME twin'.resolver = twin.resolver, NEW d \in settled PROVE Absorbed(twin', d)
  BY <1>3, <1>6 DEF Twinned, Absorbed
<1>7. QED BY <1>1, <1>4, <1>5, <1>6 DEF Settles

LEMMA IngestRecording ==
    ASSUME Recording, NEW e, IsEnvelope(e), Ingest(e) \/ IngestUnwritten(e)
    PROVE  /\ \E R : log' \in Logs(R) /\ disk' \in Logs(R) /\ \A x \in R : IsEnvelope(x)
           /\ base' = base /\ \A ep \in Episodes : base[ep] <= Len(log'[ep])
           /\ \A ep \in Episodes : log'[ep] = IF ep = e.episode THEN Append(log[ep], e) ELSE log[ep]
<1>1. PICK R : log \in Logs(R) /\ disk \in Logs(R) /\ \A x \in R : IsEnvelope(x)
  BY DEF Recording
<1> DEFINE Q == R \cup {e}
<1>2. /\ log' = Recorded(log, e) /\ base' = base
      /\ disk' = Recorded(disk, e) \/ disk' = disk
  BY DEF Ingest, IngestUnwritten
<1>3. /\ log \in Logs(Q) /\ disk \in Logs(Q) /\ e \in Q /\ \A x \in Q : IsEnvelope(x)
      /\ e.episode \in Episodes
  BY <1>1, LogsWiden DEF IsEnvelope
<1> HIDE DEF Q
<1>4. log' \in Logs(Q) /\ disk' \in Logs(Q)
  BY <1>2, <1>3, RecordedLogs
<1>5. ASSUME NEW ep \in Episodes
      PROVE  /\ log'[ep] = IF ep = e.episode THEN Append(log[ep], e) ELSE log[ep]
             /\ base[ep] <= Len(log'[ep])
  <2>1. /\ log'[ep] = IF ep = e.episode THEN Append(log[ep], e) ELSE log[ep]
        /\ Len(log[ep]) <= Len(log'[ep])
    BY <1>2, <1>3, RecordedLogs
  <2>2. base[ep] \in Nat /\ base[ep] <= Len(log[ep])
    BY DEF Recording
  <2>3. Len(log[ep]) \in Nat /\ Len(log'[ep]) \in Nat
    <3>1. log[ep] \in Seq(Q) /\ log'[ep] \in Seq(Q)
      BY <1>3, <1>4 DEF Logs
    <3>2. QED BY <3>1
  <2>4. QED BY <2>1, <2>2, <2>3
<1>6. QED BY <1>2, <1>3, <1>4, <1>5

LEMMA Emptied ==
    ASSUME NEW R, NEW l \in Logs(R), NEW b, b = [ep \in Episodes |-> Len(l[ep])]
    PROVE  /\ b \in [Episodes -> Nat] /\ \A ep \in Episodes : b[ep] <= Len(l[ep])
           /\ SubSeq(l["default"], b["default"] + 1, Len(l["default"])) = <<>>
<1>1. ASSUME NEW ep \in Episodes PROVE Len(l[ep]) \in Nat /\ l[ep] \in Seq(R)
  BY DEF Logs
<1>2. "default" \in Episodes
  BY FeedsAssumption
<1>3. SubSeq(l["default"], Len(l["default"]) + 1, Len(l["default"])) = <<>>
  BY <1>1, <1>2, SinceNothing
<1>4. QED BY <1>1, <1>2, <1>3

LEMMA BuildRecording ==
    ASSUME Recording, Build
    PROVE  /\ \E R : log' \in Logs(R) /\ disk' \in Logs(R) /\ \A x \in R : IsEnvelope(x)
           /\ base' \in [Episodes -> Nat] /\ \A ep \in Episodes : base'[ep] <= Len(log'[ep])
           /\ Since' = <<>> /\ Sound(twin') /\ settled' = {}
<1>1. PICK R : log \in Logs(R) /\ disk \in Logs(R) /\ \A x \in R : IsEnvelope(x)
  BY DEF Recording
<1> DEFINE Q == R \cup Range(Demo)
<1>2. PICK book \in Book :
          /\ log' = Opened(disk, book) /\ disk' = log' /\ settled' = {}
          /\ base' = [ep \in Episodes |-> Len(log'[ep])]
          /\ twin' = Replayed(EmptyTwin, book)
  BY DEF Build
<1>3. disk \in Logs(Q) /\ book \in Seq(Q) /\ \A x \in Q : IsEnvelope(x)
  <2>1. book \in Seq(Range(Demo)) /\ \A e \in Range(Demo) : IsEnvelope(e)
    BY BooksAreEnvelopes
  <2>2. QED BY <1>1, <2>1, LogsWiden, SeqMonotonic
<1> HIDE DEF Q
<1>4. log' \in Logs(Q)
  BY <1>2, <1>3, OpenedLogs
<1>5. /\ base' \in [Episodes -> Nat] /\ \A ep \in Episodes : base'[ep] <= Len(log'[ep])
      /\ SubSeq(log'["default"], base'["default"] + 1, Len(log'["default"])) = <<>>
  BY <1>2, <1>4, Emptied
<1>6. Since' = <<>>
  BY <1>5 DEF Since
<1>7. QED BY <1>2, <1>3, <1>4, <1>5, <1>6, BookSound

LEMMA FeedsStart ==
    ASSUME FeedsInit
    PROVE  Twinned /\ Since = <<>>
<1>1. PICK book \in Book :
          /\ log = Opened(EmptyLog, book) /\ disk = log /\ settled = {}
          /\ base = [ep \in Episodes |-> Len(log[ep])]
          /\ twin = Replayed(EmptyTwin, book)
  BY DEF FeedsInit, TwinInit
<1> DEFINE Q == Range(Demo)
<1>2. book \in Seq(Q) /\ \A x \in Q : IsEnvelope(x)
  BY BooksAreEnvelopes
<1> HIDE DEF Q
<1>3. EmptyLog \in Logs(Q)
  BY DEF EmptyLog, Logs
<1>4. log \in Logs(Q)
  BY <1>1, <1>2, <1>3, OpenedLogs
<1>5. /\ base \in [Episodes -> Nat] /\ \A ep \in Episodes : base[ep] <= Len(log[ep])
      /\ SubSeq(log["default"], base["default"] + 1, Len(log["default"])) = <<>>
  BY <1>1, <1>4, Emptied
<1>6. queue \in Seq(Mail) /\ job = NoJob
  BY DEF FeedsInit
<1>7. Recording
  BY <1>1, <1>2, <1>4, <1>5, <1>6 DEF Recording
<1>8. QED BY <1>1, <1>5, <1>7, BookSound DEF Twinned, Since

\* Both consumers and every batch hand envelopes to the twin.
LEMMA QueuedEnvelope ==
    ASSUME Recording, queue # <<>>, Head(queue) \notin {STOP, Junk}
    PROVE  IsEnvelope(Head(queue)) /\ Head(queue).episode = "default"
<1>1. Head(queue) \in Mail
  BY DEF Recording
<1>2. QED BY <1>1, FeedsAssumption DEF Mail

LEMMA BatchEnvelope ==
    ASSUME Recording, job # NoJob, job.rows # <<>>, EnvelopeOf(job, Head(job.rows)) # Junk
    PROVE  IsEnvelope(EnvelopeOf(job, Head(job.rows)))
<1>1. IsBatch(job)
  BY DEF Recording
<1>2. job.rows \in Seq(Range(job.rows))
  BY <1>1 DEF IsBatch
<1>3. Head(job.rows) \in Range(job.rows)
  BY <1>2
<1>4. QED BY <1>1, <1>3, RowsAreEnvelopes

\* What a step does to the twin: nothing, one more envelope, an envelope that
\* could not be written, or a new process.
Step ==
    \/ UNCHANGED twinVars
    \/ \E e : IsEnvelope(e) /\ (Ingest(e) \/ IngestUnwritten(e))
    \/ Build

LEMMA EveryStep ==
    ASSUME Recording, [FeedsNext]_feedVars
    PROVE  Step
<1>1. CASE Take
  <2>1. CASE Head(queue) \in {STOP, Junk}
    BY <1>1, <2>1 DEF Take, Step
  <2>2. CASE Head(queue) \notin {STOP, Junk}
    <3>1. queue # <<>> /\ (Ingest(Head(queue)) \/ IngestUnwritten(Head(queue)))
      BY <1>1, <2>2 DEF Take
    <3>2. IsEnvelope(Head(queue))
      BY <2>2, <3>1, QueuedEnvelope
    <3>3. QED BY <3>1, <3>2 DEF Step
  <2>3. QED BY <2>1, <2>2
<1>2. CASE Feed
  <2> DEFINE e == EnvelopeOf(job, Head(job.rows))
  <2>1. job # NoJob /\ job.rows # <<>>
        /\ (UNCHANGED twinVars \/ (e # Junk /\ (Ingest(e) \/ IngestUnwritten(e))))
    BY <1>2 DEF Feed
  <2>2. e # Junk => IsEnvelope(e)
    BY <2>1, BatchEnvelope
  <2> HIDE DEF e
  <2>3. QED BY <2>1, <2>2 DEF Step
<1>3. CASE Restart
  BY <1>3 DEF Restart, Step
<1>4. CASE \/ \E e \in Events \cup {Junk} : Post(e)
           \/ Close \/ Ends \/ Finish
           \/ \E how \in {"server", "stream"} : Listen(how)
           \/ \E j \in Jobs, online \in BOOLEAN : Start(j, online)
  BY <1>4 DEF Post, Close, Ends, Finish, Listen, Start, Step
<1>5. CASE UNCHANGED feedVars
  BY <1>5 DEF feedVars, Step
<1>6. QED BY <1>1, <1>2, <1>3, <1>4, <1>5 DEF FeedsNext

LEMMA JobStep ==
    ASSUME Recording, [FeedsNext]_feedVars
    PROVE  job' = NoJob \/ (consumer' = "batch" /\ IsBatch(job') /\ DOMAIN job' = BatchFields)
<1> DEFINE Good(b) == IsBatch(b) /\ DOMAIN b = BatchFields
<1>1. job = NoJob \/ (consumer = "batch" /\ Good(job))
  BY DEF Recording
<1>2. CASE (job' = job /\ consumer' = consumer) \/ job' = NoJob
  BY <1>1, <1>2
<1>3. CASE \E j \in Jobs, online \in BOOLEAN : Start(j, online)
  <2>1. PICK j \in Jobs, online \in BOOLEAN : Start(j, online)
    BY <1>3
  <2> DEFINE rows == Wanted(j)
             b == [j EXCEPT !.rows = rows]
  <2>2. job' = b /\ Good(j) /\ consumer' = "batch"
    BY <2>1, FeedsAssumption DEF Start, BatchFields
  <2>3. rows \in Seq(Range(j.rows))
    BY <2>2, WantedRows
  <2> HIDE DEF rows
  <2>4. DOMAIN b = DOMAIN j /\ b.rows = rows /\ \A f \in BatchFields \ {"rows", "limit"} : b[f] = j[f]
    BY <2>2 DEF BatchFields
  <2> HIDE DEF b
  <2>5. QED BY <2>2, <2>3, <2>4, FewerRows
<1>4. CASE Feed
  <2>1. CASE job' = NoJob
    BY <2>1
  <2>2. CASE job' # NoJob
    <3> DEFINE rows == Tail(job.rows)
               b == job'
    <3>1. /\ job # NoJob /\ job.rows # <<>> /\ consumer' = consumer
          /\ b = [job EXCEPT !.rows = rows] \/ b = [job EXCEPT !.rows = rows, !.limit = @ - 1]
      BY <1>4, <2>2 DEF Feed
    <3>2. Good(job) /\ consumer = "batch"
      BY <1>1, <3>1
    <3>3. job.rows \in Seq(Range(job.rows))
      BY <3>2 DEF IsBatch
    <3>4. rows \in Seq(Range(job.rows))
      <4> DEFINE all == job.rows
                 R == Range(job.rows)
      <4>1. all \in Seq(R) /\ all # <<>> /\ rows = Tail(all)
        BY <3>1, <3>3
      <4> HIDE DEF all, R, rows
      <4>2. rows \in Seq(R)
        BY <4>1
      <4>3. QED BY <4>2 DEF R
    <3> HIDE DEF rows, b
    <3>5. DOMAIN b = DOMAIN job /\ b.rows = rows /\ \A f \in BatchFields \ {"rows", "limit"} : b[f] = job[f]
      BY <3>1, <3>2 DEF BatchFields
    <3>6. IsBatch(b) /\ DOMAIN b = BatchFields
      BY <3>2, <3>4, <3>5, FewerRows
    <3>7. QED BY <3>1, <3>2, <3>6 DEF b
  <2>3. QED BY <2>1, <2>2
<1>5. CASE \/ Restart \/ Finish
  BY <1>2, <1>5 DEF Restart, Finish
<1>6. CASE \/ \E e \in Events \cup {Junk} : Post(e)
           \/ Close \/ Take \/ Ends
           \/ \E how \in {"server", "stream"} : Listen(how)
           \/ UNCHANGED feedVars
  <2>1. job' = job
    BY <1>6 DEF Post, Close, Take, Ends, Listen, feedVars
  <2>2. consumer = "batch" => consumer' = consumer
    BY <1>6 DEF Post, Close, Take, Ends, Listen, feedVars
  <2>3. QED BY <1>1, <2>1, <2>2
<1>7. QED BY <1>3, <1>4, <1>5, <1>6 DEF FeedsNext

LEMMA QueueStep ==
    ASSUME Recording, [FeedsNext]_feedVars
    PROVE  queue' \in Seq(Mail)
<1>1. queue \in Seq(Mail)
  BY DEF Recording
<1>2. ASSUME NEW e \in Events \cup {Junk}, Post(e) PROVE queue' \in Seq(Mail)
  <2>1. queue' = Append(queue, e) /\ e \in Mail
    BY <1>2 DEF Post, Mail
  <2>2. QED BY <1>1, <2>1
<1>3. CASE Close
  <2>1. queue' = Append(queue, STOP) /\ STOP \in Mail
    BY <1>3 DEF Close, Mail
  <2>2. QED BY <1>1, <2>1
<1>4. CASE Take
  BY <1>1, <1>4 DEF Take
<1>5. CASE Restart
  BY <1>5 DEF Restart
<1>6. CASE \/ Ends \/ Feed \/ Finish \/ UNCHANGED feedVars
           \/ \E how \in {"server", "stream"} : Listen(how)
           \/ \E j \in Jobs, online \in BOOLEAN : Start(j, online)
  BY <1>1, <1>6 DEF Ends, Feed, Finish, Listen, Start, feedVars
<1>7. QED BY <1>2, <1>3, <1>4, <1>5, <1>6 DEF FeedsNext

LEMMA TwinnedStep ==
    ASSUME Twinned, [FeedsNext]_feedVars
    PROVE  Twinned'
<1> DEFINE Logged ==
             /\ \E R : log' \in Logs(R) /\ disk' \in Logs(R) /\ \A e \in R : IsEnvelope(e)
             /\ base' \in [Episodes -> Nat] /\ \A ep \in Episodes : base'[ep] <= Len(log'[ep])
           Absorbing == Sound(twin') /\ \A e \in settled' : Absorbed(twin', e)
<1>1. Recording /\ Sound(twin) /\ \A e \in settled : Absorbed(twin, e)
  BY DEF Twinned
<1>2. queue' \in Seq(Mail)
  BY <1>1, QueueStep
<1>3. job' = NoJob \/ (consumer' = "batch" /\ IsBatch(job') /\ DOMAIN job' = BatchFields)
  BY <1>1, JobStep
<1>4. Logged /\ Absorbing
  <2>1. CASE UNCHANGED twinVars
    <3>1. log' = log /\ disk' = disk /\ base' = base /\ twin' = twin /\ settled' = settled
      BY <2>1 DEF twinVars
    <3>2. QED BY <1>1, <3>1 DEF Recording
  <2>2. ASSUME NEW e, IsEnvelope(e), Ingest(e) PROVE Logged /\ Absorbing
    <3>1. Absorbing
      BY <2>2, IngestTwinned
    <3>2. Logged
      BY <1>1, <2>2, IngestRecording DEF Recording
    <3>3. QED BY <3>1, <3>2
  <2>3. ASSUME NEW e, IsEnvelope(e), IngestUnwritten(e) PROVE Logged /\ Absorbing
    <3>1. twin' = twin /\ settled' = settled
      BY <2>3 DEF IngestUnwritten
    <3>2. Logged
      BY <1>1, <2>3, IngestRecording DEF Recording
    <3>3. QED BY <1>1, <3>1, <3>2
  <2>4. CASE Build
    BY <1>1, <2>4, BuildRecording
  <2>5. Step
    BY <1>1, EveryStep
  <2>6. QED BY <2>1, <2>2, <2>3, <2>4, <2>5 DEF Step
<1>5. Recording'
  BY <1>2, <1>3, <1>4 DEF Recording
<1>6. QED BY <1>4, <1>5 DEF Twinned

LEMMA FeedsTwinned == FeedsSpec => []Twinned
<1>1. FeedsInit => Twinned
  BY FeedsStart
<1>2. QED BY <1>1, TwinnedStep, PTL DEF FeedsSpec

-----------------------------------------------------------------------------
(* The queue *)

Out == {STOP, Junk}

LEMMA WithoutNothing == Without(<<>>, Out) = <<>>
<1>1. Len(<<>>) = 0
  OBVIOUS
<1>2. PICK kept : Keeps(kept, <<>>, Out, 0) /\ Without(<<>>, Out) = kept[0]
  BY <1>1, WithoutKeeps
<1>3. QED BY <1>2 DEF Keeps

\* What a step that ingests e does to the default episode.
LEMMA SinceStep ==
    ASSUME Recording, NEW e, IsEnvelope(e), e.episode = "default", Ingest(e) \/ IngestUnwritten(e)
    PROVE  Since' = Append(Since, e)
<1>1. /\ base' = base
      /\ \A ep \in Episodes : log'[ep] = IF ep = e.episode THEN Append(log[ep], e) ELSE log[ep]
  BY IngestRecording
<1>2. PICK R : log \in Logs(R)
  BY DEF Recording
<1> DEFINE s == log["default"]
           b == base["default"]
           Q == R \cup {e}
<1>3. "default" \in Episodes
  BY FeedsAssumption
<1>4. s \in Seq(Q) /\ e \in Q
  <2>1. s \in Seq(R)
    BY <1>2, <1>3 DEF Logs
  <2>2. QED BY <2>1, SeqMonotonic
<1>5. b \in Nat /\ b <= Len(s)
  BY <1>3 DEF Recording
<1>6. Since = SubSeq(s, b + 1, Len(s)) /\ Since' = SubSeq(Append(s, e), b + 1, Len(Append(s, e)))
  BY <1>1, <1>3 DEF Since
<1> HIDE DEF s, b, Q
<1>7. b \in 0..Len(s) /\ Len(Append(s, e)) = Len(s) + 1
  BY <1>4, <1>5
<1>8. SubSeq(Append(s, e), b + 1, Len(s) + 1) = Append(SubSeq(s, b + 1, Len(s)), e)
  BY <1>4, <1>7, SinceAppend
<1>9. QED BY <1>6, <1>7, <1>8

LEMMA SinceType ==
    ASSUME Recording
    PROVE  \E R : Since \in Seq(R)
<1>1. PICK R : log \in Logs(R)
  BY DEF Recording
<1> DEFINE s == log["default"]
           b == base["default"]
<1>2. "default" \in Episodes
  BY FeedsAssumption
<1>3. s \in Seq(R) /\ b \in Nat /\ b <= Len(s)
  BY <1>1, <1>2 DEF Logs, Recording
<1>4. Since = SubSeq(s, b + 1, Len(s))
  BY DEF Since
<1> HIDE DEF s, b
<1>5. SubSeq(s, b + 1, Len(s)) \in Seq(R)
  BY <1>3
<1>6. QED BY <1>4, <1>5

LEMMA AcceptedStep ==
    ASSUME Recording, AcceptedIsKept, [FeedsNext]_feedVars
    PROVE  AcceptedIsKept'
<1>1. queue \in Seq(Mail)
  BY DEF Recording
<1>2. PICK S : Since \in Seq(S)
  BY SinceType
<1> DEFINE R == S \cup Mail
<1>3. Since \in Seq(R) /\ queue \in Seq(R) /\ Mail \subseteq R /\ Without(queue, Out) \in Seq(R)
  BY <1>1, <1>2, WithoutType, SeqMonotonic
<1> HIDE DEF R
<1> SUFFICES ASSUME consumer' # "batch" PROVE accepted' = Since' \o Without(queue', Out)
  BY DEF AcceptedIsKept, Out, STOP, Junk
<1>4. ASSUME consumer # "batch" PROVE accepted = Since \o Without(queue, Out)
  BY <1>4 DEF AcceptedIsKept, Out
<1>5. ASSUME NEW e \in Events \cup {Junk}, Post(e) PROVE accepted' = Since' \o Without(queue', Out)
  <2>1. /\ queue' = Append(queue, e) /\ accepted' = IF e = Junk THEN accepted ELSE Append(accepted, e)
        /\ consumer # "batch" /\ Since' = Since
    BY <1>5 DEF Post, Since, twinVars
  <2>2. e \in Mail /\ (e \in Out <=> e = Junk)
    BY FeedsAssumption DEF Mail, Out
  <2>3. Without(queue', Out) = IF e \in Out THEN Without(queue, Out) ELSE Append(Without(queue, Out), e)
    BY <1>1, <2>1, <2>2, WithoutAppend
  <2> DEFINE w == Without(queue, Out)
             s == Since
  <2>4. s \in Seq(R) /\ w \in Seq(R) /\ e \in R
    BY <1>3, <2>2
  <2>5. accepted = s \o w
    BY <1>4, <2>1
  <2> HIDE DEF w, s
  <2>6. Append(s \o w, e) = s \o Append(w, e)
    BY <2>4
  <2>7. CASE e = Junk
    BY <2>1, <2>2, <2>3, <2>5, <2>7 DEF w, s
  <2>8. CASE e # Junk
    BY <2>1, <2>2, <2>3, <2>5, <2>6, <2>8 DEF w, s
  <2>9. QED BY <2>7, <2>8
<1>6. CASE Close
  <2>1. /\ queue' = Append(queue, STOP) /\ accepted' = accepted /\ Since' = Since
        /\ consumer # "batch" /\ STOP \in Mail /\ STOP \in Out
    BY <1>6 DEF Close, Mail, Out, Since, twinVars
  <2>2. Without(queue', Out) = IF STOP \in Out THEN Without(queue, Out) ELSE Append(Without(queue, Out), STOP)
    BY <1>1, <2>1, WithoutAppend
  <2>3. QED BY <1>4, <2>1, <2>2
<1>7. CASE Take
  <2> DEFINE h == Head(queue)
             w == Without(Tail(queue), Out)
             s == Since
  <2>1. queue # <<>> /\ queue' = Tail(queue) /\ accepted' = accepted /\ consumer # "batch"
    BY <1>7 DEF Take
  <2>2. accepted = s \o Without(queue, Out)
    BY <1>4, <2>1
  <2>3. Without(queue, Out) = (IF h \in Out THEN <<>> ELSE <<h>>) \o w
    BY <1>1, <2>1, WithoutTail
  <2>4. h \in R /\ Tail(queue) \in Seq(R)
    BY <1>3, <2>1
  <2>5. w \in Seq(R) /\ s \in Seq(R)
    BY <1>3, <2>4, WithoutType
  <2>6. CASE h \in Out
    <3>1. Since' = s
      BY <1>7, <2>6 DEF Take, Out, Since, twinVars
    <3> HIDE DEF h, w, s
    <3>2. <<>> \o w = w
      BY <2>5
    <3>3. QED BY <2>1, <2>2, <2>3, <2>6, <3>1, <3>2 DEF w
  <2>7. CASE h \notin Out
    <3>1. Ingest(h) \/ IngestUnwritten(h)
      BY <1>7, <2>7 DEF Take, Out
    <3>2. IsEnvelope(h) /\ h.episode = "default"
      BY <2>1, <2>7, QueuedEnvelope DEF Out
    <3> HIDE DEF h
    <3>3. Since' = Append(s, h)
      BY <3>1, <3>2, SinceStep
    <3> HIDE DEF w, s
    <3>4. s \o (<<h>> \o w) = Append(s, h) \o w
      <4> DEFINE one == <<h>>
      <4>1. one \in Seq(R) /\ s \o one = Append(s, h)
        BY <2>4, <2>5
      <4> HIDE DEF one
      <4>2. one \in Seq(R) /\ s \in Seq(R) /\ w \in Seq(R)
        BY <2>5, <4>1 DEF w, s
      <4>3. (s \o one) \o w = s \o (one \o w)
        BY <4>2, ConcatAssociative
      <4>4. QED BY <4>1, <4>3 DEF one
    <3>5. QED BY <2>1, <2>2, <2>3, <2>7, <3>3, <3>4 DEF w
  <2>8. QED BY <2>6, <2>7
<1>8. CASE Restart
  <2>1. queue' = <<>> /\ accepted' = <<>> /\ Build
    BY <1>8 DEF Restart
  <2>2. Since' = <<>>
    BY <2>1, BuildRecording
  <2>3. <<>> \o <<>> = <<>>
    OBVIOUS
  <2>4. QED BY <2>1, <2>2, <2>3, WithoutNothing
<1>9. CASE \/ Ends \/ Finish \/ UNCHANGED feedVars
           \/ \E how \in {"server", "stream"} : Listen(how)
           \/ \E j \in Jobs, online \in BOOLEAN : Start(j, online)
  <2>1. queue' = queue /\ accepted' = accepted /\ Since' = Since /\ consumer # "batch"
    BY <1>9 DEF Ends, Finish, Listen, Start, feedVars, Since, twinVars
  <2>2. QED BY <1>4, <2>1
<1>10. CASE Feed
  <2>1. consumer = "batch" /\ consumer' = consumer
    BY <1>10 DEF Feed, Recording
  <2>2. QED BY <2>1
<1>11. QED
  BY <1>5, <1>6, <1>7, <1>8, <1>9, <1>10 DEF FeedsNext

\* webhook.py, "immediate backpressure instead of silent loss": whoever consumes,
\* however often a stream ends or is closed and another begins, and whatever the
\* twin makes of them, the events that were accepted are those recorded since
\* the process began and then those in the queue, each once and in their order;
\* for any events, any queue and any episodes there were.
THEOREM AcceptedAreKept == FeedsSpec => []AcceptedIsKept
<1>1. FeedsInit => AcceptedIsKept
  <2> SUFFICES ASSUME FeedsInit PROVE accepted = Since \o Without(queue, Out)
    BY DEF AcceptedIsKept, Out
  <2>1. queue = <<>> /\ accepted = <<>> /\ Since = <<>>
    BY FeedsStart DEF FeedsInit
  <2>2. <<>> \o <<>> = <<>>
    OBVIOUS
  <2>3. QED BY <2>1, <2>2, WithoutNothing
<1>2. Twinned /\ AcceptedIsKept /\ [FeedsNext]_feedVars => AcceptedIsKept'
  BY AcceptedStep DEF Twinned
<1>3. QED BY <1>1, <1>2, FeedsTwinned, PTL DEF FeedsSpec

-----------------------------------------------------------------------------
(* Identities *)

\* resolution.py: whatever names come later, a known entity is never taken for
\* another, and a duplicate stays the duplicate of the same known entity.
THEOREM IdentitiesAreStable == FeedsSpec => IdentityIsStable
<1> DEFINE Stable == Build \/ \A ref \in Seen(twin.resolver) :
               /\ Identity(twin'.resolver, ref) = Identity(twin.resolver, ref)
               /\ Identity(twin.resolver, ref) \in twin'.resolver.known
<1>1. ASSUME Twinned, [FeedsNext]_feedVars PROVE [Stable]_twinVars
  <2>1. Recording /\ Settled(twin.resolver)
    BY <1>1 DEF Twinned, Sound
  <2>2. ASSUME NEW e, IsEnvelope(e), Ingest(e) PROVE Stable
    <3>1. Keeping(twin.resolver, twin'.resolver) /\ Settled(twin'.resolver)
      BY <1>1, <2>2, IngestTwinned DEF Sound
    <3>2. ASSUME NEW ref \in Seen(twin.resolver)
          PROVE  /\ Identity(twin'.resolver, ref) = Identity(twin.resolver, ref)
                 /\ Identity(twin.resolver, ref) \in twin'.resolver.known
      <4>1. CASE ref \in twin.resolver.known
        BY <2>1, <3>1, <4>1 DEF Settled, Keeping, Identity
      <4>2. CASE ref \in DOMAIN twin.resolver.alias
        BY <2>1, <3>1, <4>2 DEF Settled, Keeping, Identity
      <4>3. QED BY <4>1, <4>2 DEF Seen
    <3>3. QED BY <3>2
  <2>3. ASSUME NEW e, IsEnvelope(e), IngestUnwritten(e) PROVE Stable
    <3>1. twin' = twin
      BY <2>3 DEF IngestUnwritten
    <3>2. \A ref \in Seen(twin.resolver) : Identity(twin.resolver, ref) \in twin.resolver.known
      BY <2>1 DEF Settled, Seen, Identity
    <3>3. QED BY <3>1, <3>2
  <2>4. Step
    BY <1>1, <2>1, EveryStep
  <2>5. QED BY <2>2, <2>3, <2>4 DEF Step
<1>2. IdentityIsStable <=> [][Stable]_twinVars
  BY DEF IdentityIsStable
<1> HIDE DEF Stable
<1>3. QED BY <1>1, <1>2, FeedsTwinned, PTL DEF FeedsSpec

\* ingestion.py, "stale duplicate ids inside payloads still land on canonical
\* entities": with any similarity of names, no step after the one that found an
\* entity to be the duplicate of another, nor that step, gives it a node,
\* however often entities or payloads name it.
THEOREM DuplicatesHaveNoNodes == ScoresAreNumbers /\ FeedsSpec => DuplicatesGetNoNodes
<1> DEFINE Spared == Build \/ \A ref \in DOMAIN twin'.resolver.alias :
               <<"node", ref>> \in twin'.facts => <<"node", ref>> \in twin.facts
<1>1. ASSUME ScoresAreNumbers, Twinned, [FeedsNext]_feedVars PROVE [Spared]_twinVars
  <2>1. Recording /\ IsTwin(twin) /\ Settled(twin.resolver)
    BY <1>1 DEF Twinned, Sound
  <2>2. ASSUME NEW e, IsEnvelope(e), Ingest(e), NEW ref \in DOMAIN twin'.resolver.alias,
               <<"node", ref>> \in twin'.facts
        PROVE  <<"node", ref>> \in twin.facts
    <3>1. twin' = Ingested(twin, e)
      BY <2>2 DEF Ingest
    <3>2. /\ twin'.resolver = Teaches(twin.resolver, e)
          /\ twin'.facts = twin.facts \cup Adds(twin.resolver, e)
      BY <2>1, <3>1, IngestedIs
    <3>3. <<"node", ref>> \notin Adds(twin.resolver, e)
      BY <1>1, <2>1, <2>2, <3>2, AddsNoDuplicates
    <3>4. QED BY <2>2, <3>2, <3>3
  <2>3. ASSUME NEW e, IsEnvelope(e), IngestUnwritten(e) PROVE twin' = twin
    BY <2>3 DEF IngestUnwritten
  <2>4. Step
    BY <1>1, <2>1, EveryStep
  <2>5. QED BY <2>2, <2>3, <2>4 DEF Step
<1>2. DuplicatesGetNoNodes <=> [][Spared]_twinVars
  BY DEF DuplicatesGetNoNodes
<1>3. ScoresAreNumbers => (ScoresAreNumbers)'
  BY DEF ScoresAreNumbers
<1> HIDE DEF Spared
<1>4. QED BY <1>1, <1>2, <1>3, FeedsTwinned, PTL DEF FeedsSpec

\* jsonl_cdc.py delivers at least once: with any names, similarities and kinds
\* of events, an event that is delivered again before the resolver learnt
\* something new changes no node, edge, document or identity.
THEOREM RedeliveriesAddNoFacts == FeedsSpec => []RedeliveryAddsNoFacts
<1>1. ASSUME Twinned PROVE RedeliveryAddsNoFacts
  <2> SUFFICES ASSUME NEW e \in settled
               PROVE  /\ Ingested(twin, e).facts = twin.facts
                      /\ Ingested(twin, e).resolver = twin.resolver
    BY DEF RedeliveryAddsNoFacts
  <2>1. IsTwin(twin) /\ Absorbed(twin, e)
    BY <1>1 DEF Twinned, Sound
  <2>2. /\ Ingested(twin, e).resolver = Teaches(twin.resolver, e)
        /\ Ingested(twin, e).facts = twin.facts \cup Adds(twin.resolver, e)
    BY <2>1, IngestedIs
  <2>3. QED BY <2>1, <2>2 DEF Absorbed
<1>2. QED BY <1>1, FeedsTwinned, PTL

=============================================================================
