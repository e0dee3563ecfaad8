------------------------------ MODULE AuditTrail ------------------------------
(***************************************************************************)
(* The audit trail of fintwinos/core/audit.py: a hash chain in memory and a *)
(* JSONL file that a restarted process loads it from.                       *)
(*                                                                          *)
(* append extends the chain in memory and then writes the line, under one   *)
(* lock; a process can die, and a write can fail, between the two or in the  *)
(* middle of the line.  A write that failed leaves the record in memory.     *)
(* Several trails may write one file; each knows only its own chain.         *)
(*                                                                          *)
(* A hash is the tuple of what it covers, so it is collision-free.  A line   *)
(* is a record, or Torn when it does not parse; what a payload says may not  *)
(* come back from JSON as it went in (ReadBack). appended and returned are   *)
(* history variables: the chain as every append left it in memory, and the   *)
(* records whose append returned.  Definitions named Bug_... are mutated     *)
(* forms used to test the properties.                                        *)
(***************************************************************************)
EXTENDS Naturals, FiniteSets, Sequences, SequencesExt

CONSTANTS
    Trails,        \* AuditTrail objects on one path, each in its own process
    Bodies,        \* what a record says: actor, action, payload
    ReadBack,      \* what each body says once it was written and read back: a
                   \* date in a payload is hashed as str, and returns as another text
    MaxAppends,    \* bound of the records appended, and of an edited file
    WritesMayFail, \* may a write fail or stop in the middle of a line?
    MaxEdits       \* bound of the changes made to the file by hand

ASSUME BoundAssumption == MaxAppends \in Nat /\ MaxEdits \in Nat
ASSUME ReadBackAssumption == ReadBack \in [Bodies -> Bodies]
ASSUME SwitchAssumption == WritesMayFail \in BOOLEAN

VARIABLES
    running,   \* the trails whose process is running
    memory,    \* _records of each trail
    writing,   \* the record append has not written yet
    file,      \* the lines of the file, and is the last one terminated?
    appended,
    returned,
    edits      \* how often the file was changed by hand

vars == <<running, memory, writing, file, appended, returned, edits>>

\* GENESIS_HASH, which is the hash of no record; nothing to write; and a line
\* that does not parse.
Genesis == <<>>
NoRecord == [none |-> TRUE]
Torn == [broken |-> TRUE]

\* Bug: the payload is not part of what is hashed.
Bug_compute_hash(seq, ts, body, prev) == <<seq, ts, prev>>

\* AuditRecord.compute_hash.
compute_hash(seq, ts, body, prev) == <<seq, ts, body, prev>>

Intact(record) ==
    record.hash = compute_hash(record.seq, record.ts, record.body,
                               record.prev_hash)

Running(p) == p \in running
Busy(p) == writing[p] # NoRecord

\* The hash the next record is chained to.
LastHash(chain) == IF chain = <<>> THEN Genesis ELSE Last(chain).hash

-----------------------------------------------------------------------------
(* verify and _load *)

\* Bug: only the hashes are recomputed.
Bug_verify(chain) == \A i \in DOMAIN chain : Intact(chain[i])

verify(chain) ==
    \A i \in DOMAIN chain :
        /\ chain[i].prev_hash =
               IF i = 1 THEN Genesis ELSE chain[i - 1].hash
        /\ Intact(chain[i])

\* A line that does not parse makes the constructor raise.
Loadable == \A i \in DOMAIN file.lines : file.lines[i] # Torn

\* Bug: the chain in the file is not loaded.
Bug_Loaded == <<>>

Loaded ==
    [i \in DOMAIN file.lines |->
        [file.lines[i] EXCEPT !.body = ReadBack[file.lines[i].body]]]

-----------------------------------------------------------------------------
(* The operations *)

\* A process starts, and loads the file if there is one.
Start(p) ==
    /\ ~Running(p)
    /\ Loadable
    /\ running' = running \cup {p}
    /\ memory' = [memory EXCEPT ![p] = Loaded]
    /\ UNCHANGED <<writing, file, appended, returned, edits>>

next_seq(chain) == Len(chain)

Extended(chain, record) == Append(chain, record)

\* No two appends happen at the same time.
utcnow == Cardinality(appended)

\* append, up to the lock-protected extension of the list.
AppendRecord(p, body) ==
    /\ Running(p)
    /\ ~Busy(p)
    /\ Cardinality(appended) < MaxAppends
    /\ LET seq == next_seq(memory[p])
           prev == LastHash(memory[p])
           record == [seq |-> seq, ts |-> utcnow, body |-> body,
                      prev_hash |-> prev,
                      hash |-> compute_hash(seq, utcnow, body, prev)]
       IN  /\ memory' = [memory EXCEPT ![p] = Extended(@, record)]
           /\ writing' = [writing EXCEPT ![p] = record]
           /\ appended' = appended \cup {Append(memory[p], record)}
    /\ UNCHANGED <<running, file, returned, edits>>

\* Bug: the file is opened for writing, which empties it.
Bug_WithLine(line) == <<line>>

\* What is written after an unterminated line becomes a part of it.
WithLine(line) ==
    IF file.terminated THEN Append(file.lines, line)
    ELSE [file.lines EXCEPT ![Len(file.lines)] = Torn]

Write(p) ==
    /\ Busy(p)
    /\ file' = [lines |-> WithLine(writing[p]), terminated |-> TRUE]
    /\ writing' = [writing EXCEPT ![p] = NoRecord]
    /\ returned' = returned \cup {writing[p]}
    /\ UNCHANGED <<running, memory, appended, edits>>

\* Nothing, a part of the line, or the line without its end is written, and
\* the exception leaves append.
WriteFails(p) ==
    /\ WritesMayFail
    /\ Busy(p)
    /\ \/ UNCHANGED file
       \/ \E line \in {Torn, writing[p]} :
              file' = [lines |-> WithLine(line), terminated |-> FALSE]
    /\ writing' = [writing EXCEPT ![p] = NoRecord]
    /\ UNCHANGED <<running, memory, appended, returned, edits>>

\* A process that dies in the middle of a line is WriteFails, then Crash.
Crash(p) ==
    /\ Running(p)
    /\ running' = running \ {p}
    /\ memory' = [memory EXCEPT ![p] = <<>>]
    /\ writing' = [writing EXCEPT ![p] = NoRecord]
    /\ UNCHANGED <<file, appended, returned, edits>>

\* Retrospective changes of the file: a record is given another body, a line
\* is removed or repeated elsewhere, two lines change places.  The result ends
\* with a whole line.  An editor who also recomputes the hashes up to the tail
\* is outside what verify() can tell, and outside the model.
EditedFile(lines) == [lines |-> lines, terminated |-> TRUE]

Edit ==
    /\ edits < MaxEdits
    /\ edits' = edits + 1
    /\ \E i \in DOMAIN file.lines :
           \/ /\ file.lines[i] # Torn
              /\ \E body \in Bodies :
                     file' = EditedFile([file.lines EXCEPT ![i].body = body])
           \/ file' = EditedFile(RemoveAt(file.lines, i))
           \/ \E j \in DOMAIN file.lines :
                  \/ file' = EditedFile([file.lines EXCEPT
                                             ![i] = file.lines[j],
                                             ![j] = file.lines[i]])
                  \/ /\ Len(file.lines) < MaxAppends
                     /\ file' = EditedFile(InsertAt(file.lines, i, file.lines[j]))
    /\ UNCHANGED <<running, memory, writing, appended, returned>>

Init ==
    /\ running = {}
    /\ memory = [p \in Trails |-> <<>>]
    /\ writing = [p \in Trails |-> NoRecord]
    /\ file = [lines |-> <<>>, terminated |-> TRUE]
    /\ appended = {}
    /\ returned = {}
    /\ edits = 0

Next ==
    \/ \E p \in Trails :
           \/ Start(p)
           \/ \E body \in Bodies : AppendRecord(p, body)
           \/ Write(p)
           \/ WriteFails(p)
           \/ Crash(p)
    \/ Edit

Spec == Init /\ [][Next]_vars

-----------------------------------------------------------------------------
(* Properties *)

\* The records append made, and what an edit can make of them.
Made == {Last(chain) : chain \in appended}

Variants == {[record EXCEPT !.body = body] : record \in Made, body \in Bodies}

Hashes == {Genesis} \cup {record.hash : record \in Made}

Records == [seq : Nat, ts : Nat, body : Bodies, prev_hash : Hashes, hash : Hashes]

\* Appended records are intact; chains and lines consist of them and of what
\* edits make of them; and there is a line to go on with when the last line is
\* not terminated.
TypeOK ==
    /\ running \subseteq Trails
    /\ memory \in [Trails -> Seq(Variants)]
    /\ writing \in [Trails -> Made \cup {NoRecord}]
    /\ file \in [lines : Seq(Variants \cup {Torn}), terminated : BOOLEAN]
    /\ file.terminated \/ file.lines # <<>>
    /\ IsFiniteSet(appended)
    /\ appended \subseteq Seq(Variants)
    /\ Made \subseteq Records
    /\ \A record \in Made : Intact(record)
    /\ returned \subseteq Made
    /\ edits \in 0..MaxEdits

\* "The chain survives restarts and stays verifiable" (infra/README.md): the
\* chain of a running process verifies, and the file could be loaded into one
\* that does, numbered from zero, at any moment -- in particular after a crash
\* between the memory and the file.
Survives(chain) ==
    verify(chain) /\ \A i \in DOMAIN chain : chain[i].seq = i - 1

ChainSurvives ==
    /\ \A p \in Trails : Running(p) => Survives(memory[p])
    /\ Loadable
    /\ Survives(Loaded)

\* Once append has returned, the file holds the whole chain: a crash loses at
\* most the record whose append had not returned.
MemoryIsOnFile ==
    \A p \in Trails : Running(p) /\ ~Busy(p) => memory[p] = file.lines

\* "The audit trail is a hash chain: persist /data so the chain survives
\* restarts and stays verifiable" (infra/README.md): whatever failed and
\* however many processes wrote the file, it holds every record whose append
\* returned, or it does not load, unless somebody edited it.  A loss is never
\* silent.
NoSilentLoss == edits = 0 /\ Loadable => returned \subseteq Range(file.lines)

\* "Any retrospective edit breaks the chain and is detectable with verify()"
\* (module docstring): a chain that verifies consists of records that append
\* made, and nothing was changed in them since.
TamperEvident ==
    \A p \in Trails :
        Running(p) /\ verify(memory[p]) =>
            \A i \in DOMAIN memory[p] :
                memory[p][i] \in Made

\* "Deployments that need truncation evidence should anchor last().hash"
\* (docstring of verify): a chain that verifies and ends with the hash of an
\* append whose chain verified is the very chain of that append, so nothing was
\* removed from it, added to it or changed in it since.
AnchorsDetectTruncation ==
    \A p \in Trails, chain \in appended :
        /\ Running(p) /\ verify(memory[p]) /\ verify(chain)
        /\ LastHash(memory[p]) = LastHash(chain)
        => memory[p] = chain

=============================================================================
