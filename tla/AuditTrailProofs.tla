--------------------------- MODULE AuditTrailProofs ---------------------------
(***************************************************************************)
(* Proofs about AuditTrail for any number of processes, records, failures   *)
(* and edits: types, tamper evidence, what an anchored hash pins, no silent *)
(* loss, and what crashes alone can lose.                                   *)
(***************************************************************************)
EXTENDS MCAuditTrail, SequenceTheorems, FiniteSetTheorems,
        WellFoundedInduction, TLAPS

-----------------------------------------------------------------------------
(* Sequences *)

LEMMA LastOfAppend ==
    ASSUME NEW S, NEW s \in Seq(S), NEW e \in S
    PROVE  Last(Append(s, e)) = e
  BY AppendProperties DEF Last

LEMMA RangeOfAppend ==
    ASSUME NEW S, NEW s \in Seq(S), NEW e \in S
    PROVE  Range(s) \cup {e} \subseteq Range(Append(s, e))
<1> DEFINE t == Append(s, e)
<1>1. /\ DOMAIN s = 1..Len(s)
      /\ DOMAIN t = 1..Len(s) + 1
      /\ Len(s) \in Nat
      /\ \A i \in 1..Len(s) : t[i] = s[i]
      /\ t[Len(s) + 1] = e
  BY AppendProperties, LenProperties
<1> HIDE DEF t
<1>2. QED BY <1>1 DEF Range

LEMMA EditsKeepType ==
    ASSUME NEW S, NEW s \in Seq(S), NEW i \in DOMAIN s, NEW j \in DOMAIN s
    PROVE  /\ RemoveAt(s, i) \in Seq(S)
           /\ InsertAt(s, i, s[j]) \in Seq(S)
           /\ [s EXCEPT ![i] = s[j], ![j] = s[i]] \in Seq(S)
           /\ \A e \in S : [s EXCEPT ![i] = e] \in Seq(S)
<1>1. /\ Len(s) \in Nat
      /\ i \in 1..Len(s) /\ j \in 1..Len(s)
      /\ \A k \in 1..Len(s) : s[k] \in S
  BY LenProperties, ElementOfSeq
<1>2. /\ SubSeq(s, 1, i - 1) \in Seq(S)
      /\ SubSeq(s, i + 1, Len(s)) \in Seq(S)
      /\ SubSeq(s, i, Len(s)) \in Seq(S)
  <2>1. \A k \in 1..(i - 1) : s[k] \in S
    BY <1>1
  <2>2. \A k \in (i + 1)..Len(s) : s[k] \in S
    BY <1>1
  <2>3. \A k \in i..Len(s) : s[k] \in S
    BY <1>1
  <2>4. i - 1 \in Int /\ i + 1 \in Int /\ i \in Int /\ Len(s) \in Int /\ 1 \in Int
    BY <1>1
  <2>5. QED BY ONLY <2>1, <2>2, <2>3, <2>4, SubSeqProperties
<1>3. RemoveAt(s, i) \in Seq(S)
  BY <1>2, ConcatProperties DEF RemoveAt
<1>4. <<s[j]>> \in Seq(S)
  BY <1>1
<1>5. InsertAt(s, i, s[j]) \in Seq(S)
  <2>1. SubSeq(s, 1, i - 1) \o <<s[j]>> \in Seq(S)
    BY <1>2, <1>4, ConcatProperties
  <2>2. QED BY <1>2, <2>1, ConcatProperties DEF InsertAt
<1>6. \A e \in S : [s EXCEPT ![i] = e] \in Seq(S)
  BY <1>1, ExceptSeq
<1>7. [s EXCEPT ![i] = s[j], ![j] = s[i]] \in Seq(S)
  <2> DEFINE t == [s EXCEPT ![i] = s[j]]
  <2>1. t \in Seq(S) /\ Len(t) = Len(s)
    BY <1>1, ExceptSeq
  <2>2. [t EXCEPT ![j] = s[i]] \in Seq(S)
    <3> HIDE DEF t
    <3>1. QED BY <1>1, <2>1, ExceptSeq
  <2>3. QED BY <2>2
<1>8. QED BY <1>3, <1>5, <1>6, <1>7

-----------------------------------------------------------------------------
(* Type correctness *)

\* A record that append made is one of its own variants.
LEMMA MadeAreVariants ==
    ASSUME TypeOK
    PROVE  Made \subseteq Variants
<1>1. ASSUME NEW record \in Made
      PROVE  record.body \in Bodies /\ [record EXCEPT !.body = record.body] = record
  BY <1>1 DEF TypeOK, Records
<1>2. QED BY <1>1 DEF Variants

\* A step that appends nothing keeps what chains and lines consist of.
LEMMA SameRecords ==
    ASSUME UNCHANGED appended
    PROVE  Made' = Made /\ Variants' = Variants /\ Hashes' = Hashes /\ Records' = Records
  BY DEF Made, Variants, Hashes, Records

\* Writing keeps the lines well-typed, and never leaves an empty line open.
LEMMA WithLineType ==
    ASSUME TypeOK, NEW line \in Variants \cup {Torn}
    PROVE  /\ WithLine(line) \in Seq(Variants \cup {Torn})
           /\ WithLine(line) # <<>>
<1> DEFINE S == Variants \cup {Torn}
<1>1. file.lines \in Seq(S) /\ file.terminated \in BOOLEAN
  BY DEF TypeOK
<1>2. line \in S /\ Torn \in S
  OBVIOUS
<1> HIDE DEF S
<1>3. CASE file.terminated
  <2>1. WithLine(line) = Append(file.lines, line)
    BY <1>3 DEF WithLine
  <2>2. Append(file.lines, line) \in Seq(S) /\ Append(file.lines, line) # <<>>
    BY <1>1, <1>2, AppendProperties
  <2>3. QED BY <2>1, <2>2 DEF S
<1>4. CASE ~file.terminated
  <2>1. Len(file.lines) \in 1..Len(file.lines)
    BY <1>1, <1>4, EmptySeq DEF TypeOK
  <2>2. /\ WithLine(line) \in Seq(S)
        /\ Len(WithLine(line)) = Len(file.lines)
    BY <1>1, <1>2, <1>4, <2>1, ExceptSeq DEF WithLine
  <2>3. WithLine(line) # <<>>
    BY <2>1, <2>2, EmptySeq
  <2>4. QED BY <2>2, <2>3 DEF S
<1>5. QED BY <1>3, <1>4

LEMMA InitTypeOK == Init => TypeOK
<1> SUFFICES ASSUME Init PROVE TypeOK
  OBVIOUS
<1>1. Made = {} /\ Variants = {}
  BY DEF Init, Made, Variants
<1>2. IsFiniteSet(appended)
  BY FS_EmptySet DEF Init
<1>3. QED BY <1>1, <1>2, BoundAssumption DEF Init, TypeOK

LEMMA AppendType ==
    ASSUME TypeOK, NEW p \in Trails, NEW body \in Bodies, AppendRecord(p, body)
    PROVE  TypeOK'
<1> DEFINE chain == memory[p]
           record == [seq |-> next_seq(chain), ts |-> utcnow, body |-> body,
                      prev_hash |-> LastHash(chain),
                      hash |-> compute_hash(next_seq(chain), utcnow, body,
                                            LastHash(chain))]
<1>1. /\ memory' = [memory EXCEPT ![p] = Append(chain, record)]
      /\ writing' = [writing EXCEPT ![p] = record]
      /\ appended' = appended \cup {Append(chain, record)}
      /\ UNCHANGED <<running, file, returned, edits>>
  BY DEF AppendRecord, Extended
<1>2. chain \in Seq(Variants)
  BY DEF TypeOK, AppendRecord
<1>3. /\ record.body \in Bodies
      /\ [record EXCEPT !.body = record.body] = record
      /\ Intact(record)
  BY DEF Intact
<1>4. record.seq \in Nat /\ record.ts \in Nat
  BY <1>2, LenProperties, FS_CardinalityType DEF TypeOK, next_seq, utcnow
<1>5. LastHash(chain) \in Hashes
  <2>1. CASE chain = <<>>
    BY <2>1 DEF LastHash, Hashes
  <2>2. CASE chain # <<>>
    <3>1. Last(chain) \in Variants
      BY <1>2, <2>2, EmptySeq, ElementOfSeq DEF Last
    <3>2. PICK made \in Made, b \in Bodies : Last(chain) = [made EXCEPT !.body = b]
      BY <3>1 DEF Variants
    <3>3. Last(chain).hash = made.hash
      BY <3>2 DEF TypeOK, Records
    <3>4. QED BY <2>2, <3>3 DEF LastHash, Hashes
  <2>3. QED BY <2>1, <2>2
<1>6. record = [seq |-> record.seq, ts |-> record.ts, body |-> record.body,
                prev_hash |-> LastHash(chain), hash |-> record.hash]
  OBVIOUS
<1> HIDE DEF record
<1>7. Made' = Made \cup {record}
  <2>1. Append(chain, record) \in appended' /\ Last(Append(chain, record)) = record
    <3>1. chain \in Seq(Variants \cup {record})
      BY <1>2, SeqMonotonic
    <3>2. QED BY <1>1, <3>1, LastOfAppend
  <2>2. QED BY <1>1, <2>1 DEF Made
<1>8. /\ Variants \subseteq Variants'
      /\ Hashes' = Hashes \cup {record.hash}
      /\ record \in Variants'
  BY <1>3, <1>7 DEF Variants, Hashes
<1>9. Append(chain, record) \in Seq(Variants')
  BY <1>2, <1>8, SeqMonotonic, AppendProperties
<1>10. memory' \in [Trails -> Seq(Variants')]
  <2>1. Seq(Variants) \subseteq Seq(Variants')
    BY <1>8, SeqMonotonic
  <2>2. QED BY <1>1, <1>9, <2>1 DEF TypeOK
<1>11. writing' \in [Trails -> Made' \cup {NoRecord}]
  BY <1>1, <1>7 DEF TypeOK
<1>12. /\ file' \in [lines : Seq(Variants' \cup {Torn}), terminated : BOOLEAN]
       /\ file'.terminated \/ file'.lines # <<>>
  <2>1. Seq(Variants \cup {Torn}) \subseteq Seq(Variants' \cup {Torn})
    BY <1>8, SeqMonotonic
  <2>2. QED BY <1>1, <2>1 DEF TypeOK
<1>13. IsFiniteSet(appended')
  BY <1>1, FS_AddElement DEF TypeOK
<1>14. appended' \subseteq Seq(Variants')
  BY <1>1, <1>8, <1>9, SeqMonotonic DEF TypeOK
<1>15. Made' \subseteq Records'
  <2>1. record \in Records'
    BY <1>3, <1>4, <1>5, <1>6, <1>8 DEF Records
  <2>2. Records \subseteq Records'
    BY <1>8 DEF Records
  <2>3. QED BY <1>7, <2>1, <2>2 DEF TypeOK
<1>16. \A r \in Made' : Intact(r)
  BY <1>3, <1>7 DEF TypeOK
<1>17. /\ returned' \subseteq Made' /\ edits' \in 0..MaxEdits
       /\ running' \subseteq Trails
  BY <1>1, <1>7 DEF TypeOK
<1>18. (\A r \in Made : Intact(r))'
  BY <1>16 DEF Intact
<1>19. QED
  BY <1>10, <1>11, <1>12, <1>13, <1>14, <1>15, <1>17, <1>18 DEF TypeOK

\* The other operations append nothing.
LEMMA OtherTypes ==
    ASSUME TypeOK, UNCHANGED appended,
           running' \subseteq Trails, memory' \in [Trails -> Seq(Variants)],
           writing' \in [Trails -> Made \cup {NoRecord}],
           file' \in [lines : Seq(Variants \cup {Torn}), terminated : BOOLEAN],
           file'.terminated \/ file'.lines # <<>>,
           returned' \subseteq Made, edits' \in 0..MaxEdits
    PROVE  TypeOK'
<1>1. /\ Made' = Made /\ Variants' = Variants /\ Records' = Records
  BY SameRecords
<1>2. (\A r \in Made : Intact(r))'
  BY <1>1 DEF TypeOK, Intact
<1>3. QED BY <1>1, <1>2 DEF TypeOK

\* What is read back from the lines is again made of variants.
LEMMA LoadedType ==
    ASSUME TypeOK, file.lines \in Seq(Variants)
    PROVE  Loaded \in Seq(Variants)
<1>1. /\ Len(file.lines) \in Nat
      /\ DOMAIN file.lines = 1..Len(file.lines)
      /\ \A i \in 1..Len(file.lines) : file.lines[i] \in Variants
  BY LenProperties, ElementOfSeq
<1>2. ASSUME NEW line \in Variants
      PROVE  [line EXCEPT !.body = ReadBack[line.body]] \in Variants
  <2>1. PICK made \in Made, b \in Bodies : line = [made EXCEPT !.body = b]
    BY DEF Variants
  <2>2. made \in Records
    BY DEF TypeOK
  <2>3. line.body = b /\ ReadBack[b] \in Bodies
    BY <2>1, <2>2, ReadBackAssumption DEF Records
  <2>4. [line EXCEPT !.body = ReadBack[b]] = [made EXCEPT !.body = ReadBack[b]]
    BY <2>1, <2>2 DEF Records
  <2>5. QED BY <2>3, <2>4 DEF Variants
<1>3. Loaded \in [1..Len(file.lines) -> Variants]
  BY <1>1, <1>2 DEF Loaded
<1>4. QED BY <1>1, <1>3

LEMMA NextTypeOK == TypeOK /\ [Next]_vars => TypeOK'
<1> SUFFICES ASSUME TypeOK, [Next]_vars PROVE TypeOK'
  OBVIOUS
<1>1. Made \subseteq Variants
  BY MadeAreVariants
<1>2. ASSUME NEW p \in Trails, Start(p) PROVE TypeOK'
  <2>1. file.lines \in Seq(Variants)
    <3>1. \A i \in DOMAIN file.lines : file.lines[i] \in Variants
      BY <1>2, LenProperties, ElementOfSeq DEF TypeOK, Start, Loadable
    <3>2. /\ Len(file.lines) \in Nat
          /\ DOMAIN file.lines = 1..Len(file.lines)
          /\ file.lines \in [1..Len(file.lines) -> Variants \cup {Torn}]
      BY LenProperties DEF TypeOK
    <3>3. file.lines \in [1..Len(file.lines) -> Variants]
      BY <3>1, <3>2
    <3>4. QED BY <3>2, <3>3
  <2>2. memory' \in [Trails -> Seq(Variants)]
    BY <1>2, <2>1, LoadedType DEF TypeOK, Start
  <2>3. QED BY <1>2, <2>2, OtherTypes DEF TypeOK, Start
<1>3. ASSUME NEW p \in Trails, NEW body \in Bodies, AppendRecord(p, body)
      PROVE  TypeOK'
  BY <1>3, AppendType
<1>4. ASSUME NEW p \in Trails, Write(p) PROVE TypeOK'
  <2>1. writing[p] \in Made
    BY <1>4 DEF TypeOK, Write, Busy
  <2>2. /\ WithLine(writing[p]) \in Seq(Variants \cup {Torn})
        /\ WithLine(writing[p]) # <<>>
    BY <1>1, <2>1, WithLineType
  <2>3. /\ file' \in [lines : Seq(Variants \cup {Torn}), terminated : BOOLEAN]
        /\ file'.terminated
    BY <1>4, <2>2 DEF Write
  <2>4. writing' \in [Trails -> Made \cup {NoRecord}] /\ returned' \subseteq Made
    BY <1>4, <2>1 DEF TypeOK, Write
  <2>5. QED BY <1>4, <2>3, <2>4, OtherTypes DEF TypeOK, Write
<1>5. ASSUME NEW p \in Trails, WriteFails(p) PROVE TypeOK'
  <2>1. writing' \in [Trails -> Made \cup {NoRecord}]
    BY <1>5 DEF TypeOK, WriteFails
  <2>2. /\ file' \in [lines : Seq(Variants \cup {Torn}), terminated : BOOLEAN]
        /\ file'.terminated \/ file'.lines # <<>>
    <3>1. CASE UNCHANGED file
      BY <3>1 DEF TypeOK
    <3>2. ASSUME NEW line \in {Torn, writing[p]},
                 file' = [lines |-> WithLine(line), terminated |-> FALSE]
          PROVE  /\ file' \in [lines : Seq(Variants \cup {Torn}), terminated : BOOLEAN]
                 /\ file'.lines # <<>>
      <4>1. line \in Variants \cup {Torn}
        BY <1>1, <1>5 DEF TypeOK, WriteFails, Busy
      <4>2. QED BY <3>2, <4>1, WithLineType
    <3>3. QED BY <1>5, <3>1, <3>2 DEF WriteFails
  <2>3. QED BY <1>5, <2>1, <2>2, OtherTypes DEF TypeOK, WriteFails
<1>6. ASSUME NEW p \in Trails, Crash(p) PROVE TypeOK'
  BY <1>6, OtherTypes DEF TypeOK, Crash
<1>7. CASE Edit
  <2>1. file.lines \in Seq(Variants \cup {Torn})
    BY DEF TypeOK
  <2>2. PICK i \in DOMAIN file.lines :
            \/ /\ file.lines[i] # Torn
               /\ \E body \in Bodies :
                      file' = EditedFile([file.lines EXCEPT ![i].body = body])
            \/ file' = EditedFile(RemoveAt(file.lines, i))
            \/ \E j \in DOMAIN file.lines :
                   \/ file' = EditedFile([file.lines EXCEPT ![i] = file.lines[j],
                                                            ![j] = file.lines[i]])
                   \/ file' = EditedFile(InsertAt(file.lines, i, file.lines[j]))
    BY <1>7 DEF Edit
  <2>3. ASSUME NEW body \in Bodies, file.lines[i] # Torn
        PROVE  [file.lines EXCEPT ![i].body = body] \in Seq(Variants \cup {Torn})
    <3>1. file.lines[i] \in Variants
      BY <2>1, <2>3, LenProperties, ElementOfSeq
    <3>2. PICK made \in Made, b \in Bodies : file.lines[i] = [made EXCEPT !.body = b]
      BY <3>1 DEF Variants
    <3>3. [file.lines[i] EXCEPT !.body = body] = [made EXCEPT !.body = body]
      BY <3>2 DEF TypeOK, Records
    <3>4. [file.lines[i] EXCEPT !.body = body] \in Variants \cup {Torn}
      BY <3>3 DEF Variants
    <3>5. QED BY <2>1, <3>4, EditsKeepType
  <2>4. PICK lines \in Seq(Variants \cup {Torn}) : file' = EditedFile(lines)
    BY <2>1, <2>2, <2>3, EditsKeepType
  <2>5. /\ file' \in [lines : Seq(Variants \cup {Torn}), terminated : BOOLEAN]
        /\ file'.terminated
    BY <2>4 DEF EditedFile
  <2>6. edits' \in 0..MaxEdits
    BY <1>7, BoundAssumption DEF TypeOK, Edit
  <2>7. QED BY <1>7, <2>5, <2>6, OtherTypes DEF TypeOK, Edit
<1>8. CASE UNCHANGED vars
  BY <1>8, OtherTypes DEF TypeOK, vars
<1>9. QED BY <1>2, <1>3, <1>4, <1>5, <1>6, <1>7, <1>8 DEF Next

\* Every state is well-typed: chains and lines are made of the records that
\* append made and of what edits make of them.
THEOREM TypeCorrect == Spec => []TypeOK
<1>1. Init => TypeOK
  BY InitTypeOK
<1>2. TypeOK /\ [Next]_vars => TypeOK'
  BY NextTypeOK
<1>3. QED BY <1>1, <1>2, PTL DEF Spec

-----------------------------------------------------------------------------
(* Tamper evidence *)

\* The hash of a record covers its body, so only the body that was appended
\* goes with it.
LEMMA IntactVariantsAreMade ==
    ASSUME TypeOK, NEW record \in Variants, Intact(record)
    PROVE  record \in Made
<1>1. PICK made \in Made, body \in Bodies : record = [made EXCEPT !.body = body]
  BY DEF Variants
<1>2. made \in Records /\ Intact(made)
  BY DEF TypeOK
<1>3. /\ record.hash = made.hash
      /\ record.seq = made.seq /\ record.ts = made.ts
      /\ record.prev_hash = made.prev_hash
      /\ record.body = body
  BY <1>1, <1>2 DEF Records
<1>4. <<made.seq, made.ts, body, made.prev_hash>>
        = <<made.seq, made.ts, made.body, made.prev_hash>>
  BY <1>2, <1>3 DEF Intact, compute_hash
<1>5. body = made.body
  BY <1>4
<1>6. [made EXCEPT !.body = made.body] = made
  BY <1>2 DEF Records
<1>7. QED BY <1>1, <1>5, <1>6

\* Whatever was done to the file, by however many processes and edits: a chain
\* that verifies holds only records that append made.
THEOREM TamperEvidence == Spec => []TamperEvident
<1>1. TypeOK => TamperEvident
  <2> SUFFICES ASSUME TypeOK, NEW p \in Trails, Running(p), verify(memory[p]),
                      NEW i \in DOMAIN memory[p]
               PROVE  memory[p][i] \in Made
    BY DEF TamperEvident
  <2>1. memory[p] \in Seq(Variants)
    BY DEF TypeOK, Running
  <2>2. memory[p][i] \in Variants
    BY <2>1, LenProperties, ElementOfSeq
  <2>3. Intact(memory[p][i])
    BY DEF verify
  <2>4. QED BY <2>2, <2>3, IntactVariantsAreMade
<1>2. QED BY <1>1, TypeCorrect, PTL

-----------------------------------------------------------------------------
(* No silent loss *)

\* Until somebody edits the file, a record whose append returned is on it, unless
\* a line is broken: a broken line stays broken, and only a broken line can
\* swallow a record.
Kept ==
    edits = 0 => returned \subseteq Range(file.lines) \/ Torn \in Range(file.lines)

LEMMA WithLineKeeps ==
    ASSUME TypeOK, NEW line \in Variants \cup {Torn}
    PROVE  \/ Range(file.lines) \cup {line} \subseteq Range(WithLine(line))
           \/ Torn \in Range(WithLine(line))
<1> DEFINE S == Variants \cup {Torn}
<1>1. file.lines \in Seq(S) /\ file.terminated \in BOOLEAN
  BY DEF TypeOK
<1>2. line \in S /\ Torn \in S
  OBVIOUS
<1> HIDE DEF S
<1>3. CASE file.terminated
  BY <1>1, <1>2, <1>3, RangeOfAppend DEF WithLine
<1>4. CASE ~file.terminated
  <2>1. Len(file.lines) \in DOMAIN file.lines
    BY <1>1, <1>4, EmptySeq, LenProperties DEF TypeOK
  <2>2. QED BY <1>4, <2>1 DEF WithLine, Range
<1>5. QED BY <1>3, <1>4

\* Until somebody edits it, a file that loads holds every record whose append
\* returned, whatever failed and however many processes wrote it.
THEOREM LossIsNeverSilent == Spec => []NoSilentLoss
<1>1. Init => Kept
  BY DEF Init, Kept
<1>2. TypeOK /\ Kept /\ [Next]_vars => Kept'
  <2> SUFFICES ASSUME TypeOK, Kept, [Next]_vars PROVE Kept'
    OBVIOUS
  <2>1. Made \subseteq Variants
    BY MadeAreVariants
  <2>2. CASE UNCHANGED <<file, returned, edits>>
    BY <2>2 DEF Kept
  <2>3. ASSUME NEW p \in Trails, Write(p) PROVE Kept'
    <3>1. writing[p] \in Variants \cup {Torn}
      BY <2>1, <2>3 DEF TypeOK, Write, Busy
    <3>2. \/ Range(file.lines) \cup {writing[p]} \subseteq Range(WithLine(writing[p]))
          \/ Torn \in Range(WithLine(writing[p]))
      BY <3>1, WithLineKeeps
    <3>3. file'.lines = WithLine(writing[p]) /\ returned' = returned \cup {writing[p]}
         /\ edits' = edits
      BY <2>3 DEF Write
    <3>4. QED BY <3>2, <3>3 DEF Kept
  <2>4. ASSUME NEW p \in Trails, WriteFails(p) PROVE Kept'
    <3>1. CASE UNCHANGED file
      BY <2>4, <3>1 DEF Kept, WriteFails
    <3>2. ASSUME NEW line \in {Torn, writing[p]},
                 file' = [lines |-> WithLine(line), terminated |-> FALSE]
          PROVE  Kept'
      <4>1. line \in Variants \cup {Torn}
        BY <2>1, <2>4 DEF TypeOK, WriteFails, Busy
      <4>2. \/ Range(file.lines) \cup {line} \subseteq Range(WithLine(line))
            \/ Torn \in Range(WithLine(line))
        BY <4>1, WithLineKeeps
      <4>3. file'.lines = WithLine(line) /\ returned' = returned /\ edits' = edits
        BY <2>4, <3>2 DEF WriteFails
      <4>4. QED BY <4>2, <4>3 DEF Kept
    <3>3. QED BY <2>4, <3>1, <3>2 DEF WriteFails
  <2>5. ASSUME Edit PROVE Kept'
    <3>1. edits \in Nat /\ edits' = edits + 1
      BY <2>5, BoundAssumption DEF TypeOK, Edit
    <3>2. edits' # 0
      BY <3>1
    <3>3. QED BY <3>2 DEF Kept
  <2>6. ASSUME NEW p \in Trails,
               Start(p) \/ Crash(p) \/ \E body \in Bodies : AppendRecord(p, body)
        PROVE  UNCHANGED <<file, returned, edits>>
    BY <2>6 DEF Start, Crash, AppendRecord
  <2>7. QED BY <2>2, <2>3, <2>4, <2>5, <2>6 DEF Next, vars
<1>3. Kept => NoSilentLoss
  BY DEF Kept, NoSilentLoss, Loadable, Range
<1>4. QED BY <1>1, <1>2, <1>3, TypeCorrect, PTL DEF Spec

-----------------------------------------------------------------------------
(* Induction over the natural numbers, for sets instead of predicates *)

Before == {pair \in Nat \X Nat : pair[1] < pair[2]}

LEMMA Inductive ==
    ASSUME NEW S \in SUBSET Nat, 0 \in S, \A n \in S : n + 1 \in S
    PROVE  S = Nat
<1> SUFFICES ASSUME Nat \ S # {} PROVE FALSE
  OBVIOUS
<1>1. IsWellFoundedOn(Before, Nat)
  BY NatLessThanWellFounded DEF OpToRel, Before
<1>2. PICK n \in Nat \ S : \A m \in Nat \ S : <<m, n>> \notin Before
  BY <1>1, WFMin
<1>3. n - 1 \in Nat /\ n - 1 < n /\ (n - 1) + 1 = n
  BY <1>2
<1>4. n - 1 \in S
  BY <1>2, <1>3 DEF Before
<1>5. QED BY <1>2, <1>3, <1>4

-----------------------------------------------------------------------------
(* What an anchored hash pins *)

\* The chain without its last record.
Shorter(chain) == SubSeq(chain, 1, Len(chain) - 1)

LEMMA ShorterVerifies ==
    ASSUME NEW S, NEW chain \in Seq(S), chain # <<>>, verify(chain)
    PROVE  /\ Shorter(chain) \in Seq(S)
           /\ Len(Shorter(chain)) = Len(chain) - 1
           /\ verify(Shorter(chain))
           /\ chain = Append(Shorter(chain), Last(chain))
           /\ Last(chain) \in S /\ Intact(Last(chain))
           /\ Last(chain).prev_hash = LastHash(Shorter(chain))
<1> DEFINE n == Len(chain)
           short == Shorter(chain)
<1>1. /\ n \in Nat /\ n >= 1
      /\ DOMAIN chain = 1..n
      /\ \A i \in 1..n : chain[i] \in S
  BY LenProperties, EmptySeq, ElementOfSeq
<1>2. /\ short \in Seq(S) /\ Len(short) = n - 1
      /\ \A i \in 1..(n - 1) : short[i] = chain[i]
  <2>1. \A i \in 1..(n - 1) : chain[i] \in S
    BY <1>1
  <2>2. 1 \in Int /\ n - 1 \in Int
    BY <1>1
  <2>3. /\ SubSeq(chain, 1, n - 1) \in Seq(S)
        /\ Len(SubSeq(chain, 1, n - 1)) = IF 1 <= n - 1 THEN (n - 1) - 1 + 1 ELSE 0
        /\ \A i \in 1..((n - 1) - 1 + 1) : SubSeq(chain, 1, n - 1)[i] = chain[1 + i - 1]
    BY ONLY <2>1, <2>2, SubSeqProperties
  <2>4. QED BY <1>1, <2>3 DEF Shorter
<1>3. DOMAIN short = 1..(n - 1)
  BY <1>1, <1>2, LenProperties
<1>4. Last(chain) = chain[n]
  BY DEF Last
<1> HIDE DEF short
<1>5. verify(short)
  <2> SUFFICES ASSUME NEW i \in 1..(n - 1)
               PROVE  /\ short[i].prev_hash = IF i = 1 THEN Genesis ELSE short[i - 1].hash
                      /\ Intact(short[i])
    BY <1>3 DEF verify
  <2>1. i \in 1..n /\ short[i] = chain[i]
    BY <1>1, <1>2
  <2>2. i # 1 => short[i - 1] = chain[i - 1]
    BY <1>1, <1>2
  <2>3. QED BY <1>1, <2>1, <2>2 DEF verify
<1>6. chain = Append(short, chain[n])
  <2>1. chain[n] \in S
    BY <1>1
  <2>2. /\ Append(short, chain[n]) \in Seq(S)
        /\ Len(Append(short, chain[n])) = n
        /\ \A i \in 1..(n - 1) : Append(short, chain[n])[i] = chain[i]
        /\ Append(short, chain[n])[n] = chain[n]
    <3>1. Len(short) + 1 = n
      BY <1>1, <1>2
    <3>2. /\ Append(short, chain[n]) \in Seq(S)
          /\ Len(Append(short, chain[n])) = Len(short) + 1
          /\ \A i \in 1..Len(short) : Append(short, chain[n])[i] = short[i]
          /\ Append(short, chain[n])[Len(short) + 1] = chain[n]
      BY <1>2, <2>1, AppendProperties
    <3>3. QED BY <1>2, <3>1, <3>2
  <2>3. \A i \in 1..n : Append(short, chain[n])[i] = chain[i]
    BY <1>1, <2>2
  <2>4. QED BY <2>2, <2>3, SeqEqual
<1>7. n \in 1..n /\ Intact(chain[n])
  BY <1>1 DEF verify
<1>8. chain[n].prev_hash = LastHash(short)
  <2>1. chain[n].prev_hash = IF n = 1 THEN Genesis ELSE chain[n - 1].hash
    BY <1>1, <1>7 DEF verify
  <2>2. CASE n = 1
    <3>1. short = <<>>
      BY <1>2, <2>2, EmptySeq
    <3>2. QED BY <2>1, <2>2, <3>1 DEF LastHash
  <2>3. CASE n # 1
    <3>1. short # <<>> /\ Last(short) = chain[n - 1]
      BY <1>1, <1>2, <2>3, EmptySeq DEF Last
    <3>2. QED BY <2>1, <2>3, <3>1 DEF LastHash
  <2>4. QED BY <2>2, <2>3
<1>9. QED BY <1>1, <1>2, <1>4, <1>5, <1>6, <1>7, <1>8 DEF short

\* A hash determines the record it is the hash of.
LEMMA HashDetermines ==
    ASSUME NEW S, S \subseteq Records, NEW a \in S, NEW b \in S,
           Intact(a), Intact(b), a.hash = b.hash
    PROVE  a = b
<1>1. /\ a.hash = <<a.seq, a.ts, a.body, a.prev_hash>>
      /\ b.hash = <<b.seq, b.ts, b.body, b.prev_hash>>
  BY DEF Intact, compute_hash
<1>2. a.seq = b.seq /\ a.ts = b.ts /\ a.body = b.body /\ a.prev_hash = b.prev_hash
  <2>1. <<a.seq, a.ts, a.body, a.prev_hash>> = <<b.seq, b.ts, b.body, b.prev_hash>>
    BY <1>1
  <2>2. QED BY <2>1
<1>3. a \in Records /\ b \in Records
  OBVIOUS
<1>4. QED BY <1>2, <1>3 DEF Records

\* Only the empty chain ends with the genesis hash.
LEMMA NoRecordHasGenesis ==
    ASSUME NEW record, Intact(record)
    PROVE  record.hash # Genesis
<1>1. record.hash = <<record.seq, record.ts, record.body, record.prev_hash>>
  BY DEF Intact, compute_hash
<1>2. <<record.seq, record.ts, record.body, record.prev_hash>> # <<>>
  OBVIOUS
<1>3. QED BY <1>1, <1>2 DEF Genesis

\* Two chains that verify and end with the same hash are the same.
LEMMA SameEndSameChain ==
    ASSUME NEW S, S \subseteq Records
    PROVE  \A a, b \in Seq(S) :
               verify(a) /\ verify(b) /\ LastHash(a) = LastHash(b) => a = b
<1> DEFINE Pinned(n) == \A a, b \in Seq(S) :
                            /\ Len(a) = n
                            /\ verify(a) /\ verify(b) /\ LastHash(a) = LastHash(b)
                            => a = b
           N == {n \in Nat : Pinned(n)}
<1>1. ASSUME NEW chain \in Seq(S), verify(chain), LastHash(chain) = Genesis
      PROVE  chain = <<>>
  <2> SUFFICES ASSUME chain # <<>> PROVE FALSE
    OBVIOUS
  <2>1. Intact(Last(chain))
    BY <1>1, ShorterVerifies
  <2>2. QED BY <1>1, <2>1, NoRecordHasGenesis DEF LastHash
<1>2. Pinned(0)
  <2> SUFFICES ASSUME NEW a \in Seq(S), NEW b \in Seq(S), Len(a) = 0,
                      verify(b), LastHash(a) = LastHash(b)
               PROVE  a = b
    OBVIOUS
  <2>1. a = <<>>
    BY EmptySeq
  <2>2. LastHash(b) = Genesis
    BY <2>1 DEF LastHash
  <2>3. QED BY <1>1, <2>1, <2>2
<1>3. ASSUME NEW n \in Nat, Pinned(n) PROVE Pinned(n + 1)
  <2> SUFFICES ASSUME NEW a \in Seq(S), NEW b \in Seq(S), Len(a) = n + 1,
                      verify(a), verify(b), LastHash(a) = LastHash(b)
               PROVE  a = b
    OBVIOUS
  <2>1. a # <<>>
    BY EmptySeq
  <2>2. /\ Shorter(a) \in Seq(S) /\ Len(Shorter(a)) = (n + 1) - 1
        /\ verify(Shorter(a))
        /\ a = Append(Shorter(a), Last(a))
        /\ Last(a) \in S /\ Intact(Last(a))
        /\ Last(a).prev_hash = LastHash(Shorter(a))
    BY <2>1, ShorterVerifies
  <2>3. b # <<>>
    <3>1. LastHash(a) # Genesis
      BY <2>1, <2>2, NoRecordHasGenesis DEF LastHash
    <3>2. QED BY <3>1 DEF LastHash
  <2>4. /\ Shorter(b) \in Seq(S)
        /\ verify(Shorter(b))
        /\ b = Append(Shorter(b), Last(b))
        /\ Last(b) \in S /\ Intact(Last(b))
        /\ Last(b).prev_hash = LastHash(Shorter(b))
    BY <2>3, ShorterVerifies
  <2>5. Last(a).hash = Last(b).hash
    BY <2>1, <2>3 DEF LastHash
  <2>6. Last(a) = Last(b)
    BY <2>2, <2>4, <2>5, HashDetermines
  <2>7. Len(Shorter(a)) = n
    BY <2>2
  <2>8. Shorter(a) = Shorter(b)
    BY <1>3, <2>2, <2>4, <2>6, <2>7
  <2>9. QED BY <2>2, <2>4, <2>6, <2>8
<1> HIDE DEF Pinned
<1>4. N = Nat
  <2>1. N \in SUBSET Nat /\ 0 \in N /\ \A n \in N : n + 1 \in N
    BY <1>2, <1>3
  <2>2. QED BY <2>1, Inductive
<1>5. ASSUME NEW a \in Seq(S), NEW b \in Seq(S),
             verify(a), verify(b), LastHash(a) = LastHash(b)
      PROVE  a = b
  <2>1. Len(a) \in Nat
    BY LenProperties
  <2>2. Pinned(Len(a))
    BY <1>4, <2>1
  <2>3. QED BY <1>5, <2>2 DEF Pinned
<1>6. QED BY <1>5

\* A chain of variants that verifies is a chain of records that append made.
LEMMA VerifiedAreMade ==
    ASSUME TypeOK, NEW chain \in Seq(Variants), verify(chain)
    PROVE  chain \in Seq(Made)
<1>1. /\ Len(chain) \in Nat
      /\ DOMAIN chain = 1..Len(chain)
      /\ chain \in [1..Len(chain) -> Variants]
  BY LenProperties
<1>2. \A i \in 1..Len(chain) : chain[i] \in Made
  BY <1>1, IntactVariantsAreMade DEF verify
<1>3. chain \in [1..Len(chain) -> Made]
  BY <1>1, <1>2
<1>4. QED BY <1>1, <1>3

\* Whatever was done to the file: a chain that verifies and ends with the hash
\* that an append was anchored by is the chain of that append, however long.
THEOREM AnchorsPin == Spec => []AnchorsDetectTruncation
<1>1. TypeOK => AnchorsDetectTruncation
  <2> SUFFICES ASSUME TypeOK, NEW p \in Trails, NEW chain \in appended,
                      verify(memory[p]), verify(chain),
                      LastHash(memory[p]) = LastHash(chain)
               PROVE  memory[p] = chain
    BY DEF AnchorsDetectTruncation
  <2>1. memory[p] \in Seq(Variants) /\ chain \in Seq(Variants)
    BY DEF TypeOK
  <2>2. memory[p] \in Seq(Made) /\ chain \in Seq(Made)
    BY <2>1, VerifiedAreMade
  <2>3. Made \subseteq Records
    BY DEF TypeOK
  <2>4. QED BY <2>2, <2>3, SameEndSameChain
<1>2. QED BY <1>1, TypeCorrect, PTL

-----------------------------------------------------------------------------
(* What crashes alone can lose *)

\* JSON gives every body of the chain back.
Plain(chain) == \A i \in DOMAIN chain : ReadBack[chain[i].body] = chain[i].body

\* At most one process runs, nobody else has touched the file, and the file is
\* the chain of the process that runs, but for the record it is writing.
Quiet ==
    /\ \A p, q \in running : p = q
    /\ edits = 0
    /\ file.terminated
    /\ Loadable
    /\ Survives(file.lines)
    /\ Plain(file.lines)
    /\ \A p \in Trails : Busy(p) => Running(p)
    /\ \A p \in running :
           /\ Survives(memory[p])
           /\ Plain(memory[p])
           /\ memory[p] = IF Busy(p) THEN Append(file.lines, writing[p])
                          ELSE file.lines

QuietInv == IsFiniteSet(running) /\ (disturbed \/ Quiet)

\* A line that JSON gives back is the record that was written.
LEMMA PlainIsRead ==
    ASSUME TypeOK, Loadable, Plain(file.lines)
    PROVE  Loaded = file.lines
<1>1. /\ Len(file.lines) \in Nat
      /\ DOMAIN file.lines = 1..Len(file.lines)
      /\ file.lines \in Seq(Variants \cup {Torn})
      /\ \A i \in 1..Len(file.lines) : file.lines[i] \in Variants \cup {Torn}
  BY LenProperties, ElementOfSeq DEF TypeOK
<1>2. ASSUME NEW i \in DOMAIN file.lines
      PROVE  [file.lines[i] EXCEPT !.body = ReadBack[file.lines[i].body]] = file.lines[i]
  <2>1. file.lines[i] \in Variants
    BY <1>1, <1>2 DEF Loadable
  <2>2. PICK made \in Made, b \in Bodies : file.lines[i] = [made EXCEPT !.body = b]
    BY <2>1 DEF Variants
  <2>3. made \in Records
    BY DEF TypeOK
  <2>4. [file.lines[i] EXCEPT !.body = file.lines[i].body] = file.lines[i]
    BY <2>2, <2>3 DEF Records
  <2>5. QED BY <1>2, <2>4 DEF Plain
<1>3. file.lines = [i \in DOMAIN file.lines |-> file.lines[i]]
  BY <1>1
<1>4. QED BY <1>2, <1>3 DEF Loaded

LEMMA PlainAppend ==
    ASSUME NEW S, NEW chain \in Seq(S), NEW record \in S,
           Plain(chain), ReadBack[record.body] = record.body
    PROVE  Plain(Append(chain, record))
<1> DEFINE longer == Append(chain, record)
<1>1. /\ Len(chain) \in Nat
      /\ DOMAIN chain = 1..Len(chain)
      /\ DOMAIN longer = 1..(Len(chain) + 1)
      /\ \A i \in 1..Len(chain) : longer[i] = chain[i]
      /\ longer[Len(chain) + 1] = record
  BY LenProperties, AppendProperties
<1> HIDE DEF longer
<1>2. Plain(longer)
  BY <1>1 DEF Plain
<1>3. QED BY <1>2 DEF longer

\* A record chained to the last one keeps a chain that survives so.
LEMMA SurvivesAppend ==
    ASSUME NEW S, NEW chain \in Seq(S), Survives(chain), NEW record \in S,
           record.seq = Len(chain), record.prev_hash = LastHash(chain), Intact(record)
    PROVE  Survives(Append(chain, record))
<1> DEFINE n == Len(chain)
           longer == Append(chain, record)
<1>1. /\ n \in Nat
      /\ DOMAIN chain = 1..n
      /\ DOMAIN longer = 1..(n + 1)
      /\ \A i \in 1..n : longer[i] = chain[i]
      /\ longer[n + 1] = record
  BY LenProperties, AppendProperties
<1> HIDE DEF longer
<1>2. ASSUME NEW i \in 1..(n + 1)
      PROVE  /\ longer[i].prev_hash = IF i = 1 THEN Genesis ELSE longer[i - 1].hash
             /\ Intact(longer[i])
             /\ longer[i].seq = i - 1
  <2>1. CASE i \in 1..n
    <3>1. i # 1 => longer[i - 1] = chain[i - 1]
      BY <1>1, <2>1
    <3>2. QED BY <1>1, <2>1, <3>1 DEF Survives, verify
  <2>2. CASE i = n + 1
    <3>1. longer[i] = record /\ i - 1 = n
      BY <1>1, <2>2
    <3>2. LastHash(chain) = IF i = 1 THEN Genesis ELSE longer[i - 1].hash
      <4>1. CASE n = 0
        <5>1. chain = <<>>
          BY <4>1, EmptySeq
        <5>2. QED BY <2>2, <4>1, <5>1 DEF LastHash
      <4>2. CASE n # 0
        <5>1. chain # <<>> /\ Last(chain) = chain[n]
          BY <4>2, EmptySeq DEF Last
        <5>2. longer[i - 1] = chain[n] /\ i # 1
          BY <1>1, <2>2, <4>2
        <5>3. QED BY <5>1, <5>2 DEF LastHash
      <4>3. QED BY <4>1, <4>2
    <3>3. QED BY <3>1, <3>2
  <2>3. QED BY <1>1, <2>1, <2>2
<1>3. Survives(longer)
  BY <1>1, <1>2 DEF Survives, verify
<1>4. QED BY <1>3 DEF longer

LEMMA AtMostOne ==
    ASSUME NEW S, IsFiniteSet(S), ~(Cardinality(S) > 1)
    PROVE  \A a, b \in S : a = b
<1> SUFFICES ASSUME NEW a \in S, NEW b \in S, a # b PROVE FALSE
  OBVIOUS
<1>1. /\ IsFiniteSet({a}) /\ Cardinality({a}) = 1
      /\ Cardinality({a, b}) = Cardinality({a}) + 1
  <2>1. IsFiniteSet({a}) /\ Cardinality({a}) = 1 /\ b \notin {a}
    BY FS_Singleton
  <2>2. Cardinality({a} \cup {b}) = Cardinality({a}) + 1
    BY <2>1, FS_AddElement
  <2>3. {a} \cup {b} = {a, b}
    OBVIOUS
  <2>4. QED BY <2>1, <2>2, <2>3
<1>2. Cardinality({a, b}) <= Cardinality(S)
  BY FS_Subset
<1>3. Cardinality(S) \in Nat
  BY FS_CardinalityType
<1>4. QED BY <1>1, <1>2, <1>3

LEMMA QuietStep == TypeOK /\ TypeOK' /\ QuietInv /\ MCNext => QuietInv'
<1> SUFFICES ASSUME TypeOK, TypeOK', QuietInv, MCNext PROVE QuietInv'
  OBVIOUS
<1>1. IsFiniteSet(running')
  <2>1. ASSUME NEW p \in Trails
        PROVE  IsFiniteSet(running \cup {p}) /\ IsFiniteSet(running \ {p})
    BY FS_AddElement, FS_Subset DEF QuietInv
  <2>2. QED
    BY <2>1 DEF MCNext, Next, QuietInv, Start, AppendRecord, Write, WriteFails,
                Crash, Edit
<1> SUFFICES ASSUME ~disturbed' PROVE Quiet'
  BY <1>1 DEF QuietInv
<1>2. /\ Quiet
      /\ \A p \in Trails : ~WriteFails(p)
      /\ edits' = 0
      /\ ~(Cardinality(running') > 1)
      /\ \A p \in Trails, body \in Bodies :
             AppendRecord(p, body) => ReadBack[body] = body
  <2>1. edits' \in Nat /\ ~(edits' > 0)
    BY BoundAssumption DEF TypeOK, MCNext
  <2>2. QED BY <2>1 DEF QuietInv, MCNext
<1>3. \A p, q \in running' : p = q
  BY <1>1, <1>2, AtMostOne
<1>4. file.lines \in Seq(Variants \cup {Torn})
  BY DEF TypeOK
<1>5. ASSUME NEW p \in Trails, Start(p) PROVE Quiet'
  <2>1. /\ running' = running \cup {p}
        /\ memory' = [memory EXCEPT ![p] = file.lines]
        /\ UNCHANGED <<writing, file, edits>>
        /\ p \notin running
    BY <1>2, <1>5, PlainIsRead DEF Start, Running, Quiet
  <2>2. running' = {p} /\ memory'[p] = file.lines
    BY <1>3, <2>1 DEF TypeOK
  <2>3. ~Busy(p)
    BY <1>2, <2>1 DEF Quiet, Running
  <2>4. (\A q \in Trails : Busy(q) => Running(q))'
    BY <1>2, <2>1 DEF Quiet, Busy, Running
  <2>5. QED BY <1>2, <1>3, <2>1, <2>2, <2>3, <2>4
            DEF Quiet, Busy, Loadable, Survives, Plain, verify, Intact
<1>6. ASSUME NEW p \in Trails, NEW body \in Bodies, AppendRecord(p, body)
      PROVE  Quiet'
  <2> DEFINE record == [seq |-> next_seq(memory[p]), ts |-> utcnow, body |-> body,
                        prev_hash |-> LastHash(memory[p]),
                        hash |-> compute_hash(next_seq(memory[p]), utcnow, body,
                                              LastHash(memory[p]))]
  <2>1. /\ p \in running /\ ~Busy(p)
        /\ memory' = [memory EXCEPT ![p] = Append(memory[p], record)]
        /\ writing' = [writing EXCEPT ![p] = record]
        /\ UNCHANGED <<running, file, edits>>
    BY <1>6 DEF AppendRecord, Extended, Running
  <2>2. /\ Intact(record)
        /\ record.seq = Len(memory[p]) /\ record.prev_hash = LastHash(memory[p])
    BY DEF Intact, next_seq
  <2>3. record # NoRecord
    <3>1. DOMAIN record = {"seq", "ts", "body", "prev_hash", "hash"}
      OBVIOUS
    <3>2. DOMAIN NoRecord = {"none"}
      BY DEF NoRecord
    <3>3. QED BY <3>1, <3>2
  <2> HIDE DEF record
  <2>4. memory[p] = file.lines /\ Survives(memory[p])
    BY <1>2, <2>1 DEF Quiet
  <2>5. Survives(Append(memory[p], record))
    <3>1. memory[p] \in Seq(Variants \cup {record}) /\ record \in Variants \cup {record}
      BY SeqMonotonic DEF TypeOK
    <3>2. QED BY <2>2, <2>4, <3>1, SurvivesAppend
  <2>6. /\ memory'[p] = Append(file.lines, record) /\ writing'[p] = record
        /\ \A q \in Trails : q # p => writing'[q] = writing[q]
    BY <2>1, <2>4 DEF TypeOK
  <2>7. running' = {p} /\ Busy(p)'
    BY <1>3, <2>1, <2>3, <2>6 DEF Busy
  <2>8. (\A q \in Trails : Busy(q) => Running(q))'
    BY <1>2, <2>1, <2>6 DEF Quiet, Busy, Running
  <2>9. Survives(memory[p])' /\ Survives(file.lines)' /\ Loadable' /\ Plain(file.lines)'
    BY <1>2, <2>1, <2>4, <2>5, <2>6 DEF Quiet, Survives, Plain, verify, Intact, Loadable
  <2>10. Plain(memory[p])'
    <3>1. record.body = body /\ ReadBack[body] = body
      BY <1>2, <1>6 DEF record
    <3>2. memory[p] \in Seq(Variants \cup {record}) /\ record \in Variants \cup {record}
      BY SeqMonotonic DEF TypeOK
    <3>3. Plain(memory[p])
      BY <1>2, <2>1 DEF Quiet
    <3>4. memory'[p] = Append(memory[p], record)
      BY <2>4, <2>6
    <3>5. QED BY <3>1, <3>2, <3>3, <3>4, PlainAppend DEF Plain
  <2>11. QED BY <1>2, <1>3, <2>1, <2>6, <2>7, <2>8, <2>9, <2>10 DEF Quiet
<1>7. ASSUME NEW p \in Trails, Write(p) PROVE Quiet'
  <2>1. /\ Busy(p) /\ p \in running
        /\ file' = [lines |-> WithLine(writing[p]), terminated |-> TRUE]
        /\ writing' = [writing EXCEPT ![p] = NoRecord]
        /\ UNCHANGED <<running, memory, edits>>
    BY <1>2, <1>7 DEF Write, Quiet, Running
  <2>2. file'.lines = memory[p] /\ file'.terminated
    BY <1>2, <2>1 DEF Quiet, WithLine
  <2>3. running' = {p} /\ ~Busy(p)' /\ \A q \in Trails : q # p => writing'[q] = writing[q]
    BY <1>3, <2>1 DEF TypeOK, Busy
  <2>4. /\ Survives(memory[p])' /\ Survives(file.lines)'
        /\ Plain(memory[p])' /\ Plain(file.lines)'
    BY <1>2, <2>1, <2>2 DEF Quiet, Survives, Plain, verify, Intact
  <2>5. Loadable'
    <3>1. ASSUME NEW i \in DOMAIN memory[p] PROVE memory[p][i] # Torn
      <4>1. memory[p][i] \in Variants
        BY LenProperties, ElementOfSeq DEF TypeOK
      <4>2. PICK made \in Made, b \in Bodies : memory[p][i] = [made EXCEPT !.body = b]
        BY <4>1 DEF Variants
      <4>3. made \in Records
        BY DEF TypeOK
      <4>4. "broken" \notin DOMAIN memory[p][i]
        BY <4>2, <4>3 DEF Records
      <4>5. "broken" \in DOMAIN Torn
        BY DEF Torn
      <4>6. QED BY <4>4, <4>5
    <3>2. QED BY <2>2, <3>1 DEF Loadable
  <2>6. (\A q \in Trails : Busy(q) => Running(q))'
    BY <1>2, <2>1, <2>3 DEF Quiet, Busy, Running
  <2>7. QED BY <1>2, <1>3, <2>1, <2>2, <2>3, <2>4, <2>5, <2>6 DEF Quiet
<1>8. ASSUME NEW p \in Trails, Crash(p) PROVE Quiet'
  <2>1. /\ p \in running
        /\ running' = running \ {p}
        /\ writing' = [writing EXCEPT ![p] = NoRecord]
        /\ UNCHANGED <<file, edits>>
    BY <1>8 DEF Crash, Running
  <2>2. running' = {}
    BY <1>2, <2>1 DEF Quiet
  <2>3. ASSUME NEW q \in Trails PROVE ~Busy(q)'
    <3>1. q # p => ~Busy(q)
      BY <1>2, <2>1 DEF Quiet, Running
    <3>2. QED BY <2>1, <3>1 DEF TypeOK, Busy
  <2>4. QED BY <1>2, <2>1, <2>2, <2>3
            DEF Quiet, Busy, Loadable, Survives, Plain, verify, Intact
<1>9. ~Edit
  <2>1. edits = 0
    BY <1>2 DEF Quiet
  <2>2. QED BY <1>2, <2>1 DEF Edit
<1>10. QED BY <1>2, <1>5, <1>6, <1>7, <1>8, <1>9 DEF MCNext, Next

\* Crashes and restarts alone, whenever they happen and however many processes
\* take the file over, never harm the chain, and lose at most the record whose
\* append had not returned.
THEOREM CrashesLoseOneRecord == MCSpec => []OneRecordAtRisk
<1>1. MCSpec => Spec
  <2>1. MCInit => Init
    BY DEF MCInit
  <2>2. [MCNext]_<<vars, disturbed>> => [Next]_vars
    BY DEF MCNext
  <2>3. QED BY <2>1, <2>2, PTL DEF MCSpec, Spec
<1>2. MCInit => QuietInv
  <2> SUFFICES ASSUME MCInit PROVE QuietInv
    OBVIOUS
  <2>1. running = {} /\ file.lines = <<>> /\ file.terminated /\ edits = 0
        /\ writing = [p \in Trails |-> NoRecord]
    BY DEF MCInit, Init
  <2>2. DOMAIN file.lines = {}
    BY <2>1
  <2>3. QED BY <2>1, <2>2, FS_EmptySet DEF QuietInv, Quiet, Busy, Loadable, Survives, Plain, verify
<1>3. TypeOK /\ TypeOK' /\ QuietInv /\ [MCNext]_<<vars, disturbed>> => QuietInv'
  <2>1. TypeOK /\ TypeOK' /\ QuietInv /\ UNCHANGED <<vars, disturbed>> => QuietInv'
    BY DEF QuietInv, Quiet, vars, Busy, Running, Loadable, Survives, Plain, verify, Intact
  <2>2. QED BY <2>1, QuietStep
<1>4. TypeOK /\ QuietInv => OneRecordAtRisk
  <2> SUFFICES ASSUME TypeOK, Quiet PROVE ChainSurvives /\ MemoryIsOnFile
    BY DEF QuietInv, OneRecordAtRisk
  <2>1. QED BY PlainIsRead DEF Quiet, ChainSurvives, MemoryIsOnFile, Running
<1>5. QED BY <1>1, <1>2, <1>3, <1>4, TypeCorrect, PTL DEF MCSpec

=============================================================================
