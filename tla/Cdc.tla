--------------------------------- MODULE Cdc ---------------------------------
(***************************************************************************)
(* fintwinos/connectors/jsonl_cdc.py: JsonlCdcConnector tails a file of     *)
(* JSON lines and keeps the offset behind the last line consumed in a file  *)
(* of its own; connectors/base.py: pump hands what the stream yields to the *)
(* ingestor, one envelope at a time.                                       *)
(*                                                                          *)
(* A line reaches the file in three writes: the head of its record, the     *)
(* rest, the newline.  A position is the number of whole lines before it    *)
(* and the parts of the next one.  The source may be rotated: renamed away  *)
(* (an open handle stays on the old file) or truncated in place.           *)
(*                                                                          *)
(* A number of bytes of one file is any position of another.  garbled and   *)
(* missed are history variables: the lines of which the head was consumed   *)
(* as a line of its own, and those before a position that an offset of      *)
(* another file led to.  An envelope's contents are the line.              *)
(***************************************************************************)
EXTENDS Naturals, FiniteSets

CONSTANTS
    MaxLines,       \* bound: lines a file holds
    MaxFiles,       \* bound: files the source is rotated through
    Malformed,      \* lines that hold no record
    Undecodable,    \* lines that are not UTF-8
    Modes           \* constructor arguments and the limit of the pump (0: none)

ASSUME CdcAssumption ==
    /\ MaxLines \in Nat /\ MaxFiles \in Nat \ {0}
    /\ Malformed \cup Undecodable \subseteq (1..MaxFiles) \X (1..MaxLines)
    /\ Modes \subseteq [follow : BOOLEAN, forever : BOOLEAN, strict : BOOLEAN,
                       resume : BOOLEAN, limit : Nat]

Files == 1..MaxFiles
Lines == Files \X (1..MaxLines)

VARIABLES
    mode,     \* how this pipeline is configured
    size,     \* the length of each file, a position
    source,   \* the file that is at the path now
    offset,   \* the offset file: a position, with the file it was read from
    reader,   \* the stream and its consumer
    received, \* lines ingestor.ingest was called with
    garbled,
    missed

vars == <<mode, size, source, offset, reader, received, garbled, missed>>

Position == [full : 0..MaxLines, part : 0..2]
Top == [full |-> 0, part |-> 0]

Beyond(a, b) == a.full > b.full \/ (a.full = b.full /\ a.part > b.part)

\* The lines some part of which is before a position of a file.
Touched(pos, f) ==
    {l \in Lines : l[1] = f /\ (l[2] <= pos.full \/ (l[2] = pos.full + 1 /\ pos.part # 0))}

Down == [pc |-> "down"]
Reader == [pc : {"reading", "yielded", "ingested"}, file : Files, pos : Position,
           holds : SUBSET Lines, taken : Nat] \cup {Down}

--------------------------------------------------------------------------------
(* The source *)

Grow ==
    /\ size[source].full < MaxLines
    /\ size' = [size EXCEPT ![source] =
                    IF @.part = 2 THEN [full |-> @.full + 1, part |-> 0]
                    ELSE [full |-> @.full, part |-> @.part + 1]]
    /\ UNCHANGED <<mode, source, offset, reader, received, garbled, missed>>

\* The file is renamed away, or truncated under the reader's handle, which
\* stays where it was, in bytes.
Rotate ==
    /\ source < MaxFiles
    /\ source' = source + 1
    /\ \/ UNCHANGED <<reader, missed>>
       \/ \E p \in Position :
            /\ reader # Down
            /\ (p = Top) <=> (reader.pos = Top)
            /\ reader' = [reader EXCEPT !.file = source', !.pos = p]
            /\ missed' = missed \cup Touched(p, source')
    /\ UNCHANGED <<mode, size, offset, received, garbled>>

--------------------------------------------------------------------------------
(* The offset file *)

\* _load_offset, where it leads: an offset beyond the end starts over, and what
\* is recorded of its file is the path.
Loaded ==
    IF ~mode.resume \/ offset.pos = Top THEN {Top}
    ELSE IF offset.file = source
    THEN {IF Beyond(offset.pos, size[source]) THEN Top ELSE offset.pos}
    ELSE {p \in Position : ~Beyond(p, size[source])}

\* _save_offset, with what is recorded of it.
Save(pos) == offset' = [pos |-> pos, file |-> reader.file]

\* reset_offset
Reset ==
    /\ offset' = [offset EXCEPT !.pos = Top]
    /\ UNCHANGED <<mode, size, source, reader, received, garbled, missed>>

--------------------------------------------------------------------------------
(* The stream *)

\* What readline returns from a position on: up to the next newline, if there
\* is one.
Rest == IF size[reader.file].full > reader.pos.full
        THEN [full |-> reader.pos.full + 1, part |-> 0]
        ELSE size[reader.file]

AtEnd == ~Beyond(size[reader.file], reader.pos)
Whole == Rest.part = 0
Line == <<reader.file, reader.pos.full + 1>>
BlankLine == reader.pos.part = 2
HasRecord == reader.pos.part = 0 /\ Rest.part # 1
IsRecord == HasRecord /\ Line \notin Malformed \cup Undecodable

\* pump: stream() opens the file at the loaded offset.
Open ==
    /\ reader = Down
    /\ \E p \in Loaded :
        /\ reader' = [pc |-> "reading", file |-> source, pos |-> p, holds |-> {}, taken |-> 0]
        /\ missed' = IF offset.file = source THEN missed ELSE missed \cup Touched(p, source)
    /\ UNCHANGED <<mode, size, source, offset, received, garbled>>

\* Nothing to read, or in follow mode no whole line: a batch ends, a follower
\* polls (this step is not taken) or gives up when idle for too long, unless it
\* has no idle timeout.
Waits == AtEnd \/ (mode.follow /\ ~Whole)

End ==
    /\ reader.pc = "reading" /\ Waits /\ ~(mode.follow /\ mode.forever)
    /\ Save(reader.pos)
    /\ reader' = Down
    /\ UNCHANGED <<mode, size, source, received, garbled, missed>>

Consumed(pc) == [reader EXCEPT !.pc = pc, !.pos = Rest]

Bug_Raises == TRUE

\* A line that is not UTF-8 is decoded outside of the try, so it ends the
\* stream of either kind; a malformed one that of a strict connector.
Raises == mode.strict \/ (HasRecord /\ Line \in Undecodable)

\* A blank line is passed over, and a malformed one.
Skip ==
    /\ reader.pc = "reading" /\ ~Waits /\ ~IsRecord
    /\ BlankLine \/ ~Raises
    /\ Save(Rest) /\ reader' = Consumed("reading")
    /\ garbled' = IF Whole \/ HasRecord THEN garbled ELSE garbled \cup {Line}
    /\ UNCHANGED <<mode, size, source, received, missed>>

\* The stream fails where it is; a torn line may have a character torn too.
Raise ==
    /\ reader.pc = "reading" /\ ~Waits /\ ~IsRecord /\ ~BlankLine
    /\ Raises \/ ~HasRecord
    /\ reader' = Down
    /\ UNCHANGED <<mode, size, source, offset, received, garbled, missed>>

Bug_Yield ==
    /\ reader.pc = "reading" /\ ~Waits /\ IsRecord
    /\ reader' = [Consumed("yielded") EXCEPT !.holds = {Line}]
    /\ Save(Rest)
    /\ UNCHANGED <<mode, size, source, received, garbled, missed>>

Yield ==
    /\ reader.pc = "reading" /\ ~Waits /\ IsRecord
    /\ reader' = [Consumed("yielded") EXCEPT !.holds = {Line}]
    /\ UNCHANGED <<mode, size, source, offset, received, garbled, missed>>

\* pump: the ingestor takes the envelope; an exception is only counted.
Deliver ==
    /\ reader.pc = "yielded"
    /\ received' = received \cup reader.holds
    /\ reader' = [reader EXCEPT !.pc = "ingested", !.holds = {},
                                !.taken = IF mode.limit = 0 THEN 0 ELSE @ + 1]
    /\ UNCHANGED <<mode, size, source, offset, garbled, missed>>

\* pump comes back for the next envelope, which saves the offset, or has
\* reached its limit and closes the stream, which does not.
Saves == mode.limit = 0 \/ reader.taken < mode.limit

Advance ==
    /\ reader.pc = "ingested"
    /\ IF Saves
       THEN Save(reader.pos) /\ reader' = [reader EXCEPT !.pc = "reading"]
       ELSE reader' = Down /\ UNCHANGED offset
    /\ UNCHANGED <<mode, size, source, received, garbled, missed>>

Crash ==
    /\ reader # Down
    /\ reader' = Down
    /\ UNCHANGED <<mode, size, source, offset, received, garbled, missed>>

--------------------------------------------------------------------------------

Init ==
    /\ mode \in Modes
    /\ size = [f \in Files |-> Top] /\ source = 1
    /\ offset = [pos |-> Top, file |-> 1]
    /\ reader = Down
    /\ received = {} /\ garbled = {} /\ missed = {}

Stream == Open \/ End \/ Skip \/ Raise \/ Yield \/ Deliver \/ Advance

Next == Grow \/ Rotate \/ Reset \/ Stream \/ Crash

Spec == Init /\ [][Next]_vars

\* A pipeline that ended, failed or crashed is started again, its steps are
\* taken, crashes do not always come before the same step, and the rest of a
\* torn line is no different each time.
Fairness ==
    /\ WF_vars(Stream)
    /\ SF_vars(Skip /\ Whole) /\ SF_vars(Yield) /\ SF_vars(Deliver) /\ SF_vars(Advance)

FairSpec == Spec /\ Fairness

--------------------------------------------------------------------------------

TypeOK ==
    /\ mode \in Modes
    /\ size \in [Files -> Position] /\ source \in Files
    /\ offset \in [pos : Position, file : Files]
    /\ reader \in Reader
    /\ received \subseteq Lines /\ garbled \subseteq Lines /\ missed \subseteq Lines

\* The lines whose record is in a file.
Written == {l \in Lines : size[l[1]].full >= l[2]
                          \/ (size[l[1]].full = l[2] - 1 /\ size[l[1]].part = 2)}

\* The lines before the resume point.
Passed == {l \in Lines : l[1] = offset.file /\ l[2] <= offset.pos.full}

\* Each line is received at least once before the offset file passes it
\* (jsonl_cdc.py: at-least-once delivery across crashes), but for malformed
\* ones, for those that a batch consumed half-written, which a strict connector
\* and a follower never do, and for those an offset of another file led past.
Promise == INSTANCE AtLeastOnce WITH
    written <- Written,
    excused <- Malformed \cup missed \cup (IF mode.follow \/ mode.strict THEN {} ELSE garbled),
    passed <- Passed

DeliversAtLeastOnce == Promise!Spec

\* A line the stream never gets past: it is not UTF-8, or malformed and the
\* connector strict, or a record and the pump takes one envelope at a time.
Blocks(k) ==
    \/ k \in Undecodable
    \/ k \in Malformed /\ mode.strict
    \/ k \notin Malformed /\ mode.limit = 1

\* Every finished line that stays in the source arrives at last, whatever
\* crashes, if the offset is resumed from and not reset for ever and no line
\* before it blocks the stream; not if an offset of another file was applied to
\* its file, or a follower that never ends holds on to another.
EveryLineArrives ==
    <>[][~Reset]_vars => \A l \in Lines \ (Malformed \cup Undecodable) :
        /\ size[l[1]].full >= l[2] /\ mode.resume
        /\ \A k \in Lines : k[1] = l[1] /\ k[2] < l[2] => ~Blocks(k)
        ~> \/ l \in received \cup garbled
           \/ source # l[1]
           \/ \E k \in missed : k[1] = l[1]
           \/ mode.forever /\ reader # Down /\ reader.file # l[1]

================================================================================
