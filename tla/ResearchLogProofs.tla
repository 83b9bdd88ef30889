------------------------- MODULE ResearchLogProofs -------------------------
(***************************************************************************)
(* Theorems about ResearchLog, for any number of writers, tags, contents   *)
(* and torn writes.                                                        *)
(***************************************************************************)
EXTENDS ResearchLog, WellFoundedInduction, TLAPS

Entries == [tag : Tag \cup {NoTag}, content : Content, timestamp : Writer]
Hashes == Seq(Entries)
Line == {Legacy, Junk} \cup [kind : {"chained"}, prev : Hashes, entry : Entries, hash : Hashes]

\* The types, with those of the hashes.
Typed ==
    /\ TypeOK
    /\ lines \in Seq(Line)
    /\ prev \in [Writer -> Hashes]
    /\ expected \in [Writer -> Hashes]

USE TagAssumption, GuardAssumption DEF Goto, Static, Hash, Genesis

-----------------------------------------------------------------------------
(***************************************************************************)
(* The file.                                                               *)
(***************************************************************************)

\* What lines of a kind are.
LEMMA LineFacts ==
    ASSUME lines \in Seq(Line)
    PROVE  /\ Len(lines) \in Nat
           /\ \A i \in 1..Len(lines) : lines[i] \in Line
           /\ \A k \in {"chained", "legacy", "junk"} : Lines(k) \subseteq 1..Len(lines)
           /\ \A i \in Lines("chained") : lines[i].hash \in Hashes /\ lines[i].entry \in Entries
<1>1. Len(lines) \in Nat /\ DOMAIN lines = 1..Len(lines) /\ \A i \in 1..Len(lines) : lines[i] \in Line
  OBVIOUS
<1>2. \A l \in Line : l.kind = "chained" => l.hash \in Hashes /\ l.entry \in Entries
  BY DEF Line, Legacy, Junk
<1>3. QED
  BY <1>1, <1>2 DEF Lines

\* A set of positions has a last one: the one nearest to the end.
LEMMA LatestPosition ==
    ASSUME NEW n \in Nat, NEW S \in SUBSET (1..n), S # {}
    PROVE  \E i \in S : \A j \in S : j <= i
<1> DEFINE T == {n - i : i \in S}
<1>1. \A i \in S : i \in Int /\ n - i \in Nat
  OBVIOUS
<1>2. T \in SUBSET Nat /\ T # {}
  BY <1>1
<1>3. PICK x \in T : \A y \in T : ~(<<y, x>> \in OpToRel(<, Nat))
  <2> HIDE DEF T
  <2>1. QED
    BY <1>2, NatLessThanWellFounded, WFMin, Zenon
<1>4. PICK i \in S : x = n - i
  OBVIOUS
<1>5. \A j \in S : ~(n - j < n - i)
  BY <1>2, <1>3, <1>4 DEF OpToRel
<1>6. \A j \in S : j <= i
  BY <1>1, <1>5
<1>7. QED
  BY <1>6

\* _last_hash returns a hash.
LEMMA LastHashType == lines \in Seq(Line) => LastHash \in Hashes
<1> SUFFICES ASSUME lines \in Seq(Line) PROVE LastHash \in Hashes
  OBVIOUS
<1>1. CASE Lines("chained") = {}
  BY <1>1 DEF LastHash, Hashes
<1>2. CASE Lines("chained") # {}
  <2>1. \E i \in Lines("chained") : \A j \in Lines("chained") : j <= i
    BY <1>2, LineFacts, LatestPosition
  <2>2. (CHOOSE i \in Lines("chained") : \A j \in Lines("chained") : j <= i) \in Lines("chained")
    BY <2>1
  <2>3. QED
    BY <1>2, <2>2, LineFacts DEF LastHash
<1>3. QED
  BY <1>1, <1>2

\* The record a writer is about to append.
LEMMA RecordType ==
    ASSUME Typed, NEW w \in Writer
    PROVE  /\ Entry(w) \in Entries
           /\ Chained(prev[w], Entry(w)) \in Line
           /\ Chained(prev[w], Entry(w)).kind = "chained"
           /\ Chained(prev[w], Entry(w)).prev = prev[w]
           /\ Chained(prev[w], Entry(w)).entry = Entry(w)
           /\ Chained(prev[w], Entry(w)).hash = Hash(prev[w], Entry(w))
<1>1. Entry(w) \in Entries
  BY DEF Entry, Entries, Typed, TypeOK
<1>2. Append(prev[w], Entry(w)) \in Hashes
  BY <1>1 DEF Hashes, Typed
<1>3. QED
  BY <1>1, <1>2 DEF Chained, Line, Typed

\* What adding a line does to the others.
LEMMA AddedLines ==
    ASSUME Typed, NEW line \in Line
    PROVE  /\ Added(line) \in Seq(Line)
           /\ unended => /\ Len(lines) > 0
                         /\ Len(Added(line)) = Len(lines)
                         /\ Added(line)[Len(lines)] = Junk
                         /\ \A i \in 1..Len(lines) - 1 : Added(line)[i] = lines[i]
           /\ ~unended => /\ Len(Added(line)) = Len(lines) + 1
                          /\ Added(line)[Len(lines) + 1] = line
                          /\ \A i \in 1..Len(lines) : Added(line)[i] = lines[i]
<1>1. lines \in Seq(Line) /\ (unended => lines # <<>>)
  BY DEF Typed, TypeOK
<1>2. CASE unended
  <2>1. Len(lines) \in 1..Len(lines) /\ Junk \in Line
    BY <1>1, <1>2 DEF Line
  <2>2. QED
    BY <1>1, <1>2, <2>1 DEF Added
<1>3. CASE ~unended
  BY <1>1, <1>3 DEF Added
<1>4. QED
  BY <1>2, <1>3

\* So every line is one there was, or the new one, or junk.
LEMMA AddedEach ==
    ASSUME Typed, NEW line \in Line
    PROVE  \A i \in 1..Len(Added(line)) :
              (i \in 1..Len(lines) /\ Added(line)[i] = lines[i]) \/ Added(line)[i] \in {line, Junk}
<1>1. Len(lines) \in Nat
  BY LineFacts DEF Typed
<1>2. TAKE i \in 1..Len(Added(line))
<1>3. CASE unended
  <2>1. i \in 1..Len(lines) - 1 \/ i = Len(lines)
    BY <1>1, <1>3, AddedLines
  <2>2. QED
    BY <1>1, <1>3, <2>1, AddedLines
<1>4. CASE ~unended
  <2>1. i \in 1..Len(lines) \/ i = Len(lines) + 1
    BY <1>1, <1>4, AddedLines
  <2>2. QED
    BY <1>1, <1>4, <2>1, AddedLines
<1>5. QED
  BY <1>3, <1>4

\* The record of w is the line that is added, or the line is junk.
Write(w, line) ==
    /\ pc[w] = "checked_tip"
    /\ line \in {Junk, Chained(prev[w], Entry(w))}
    /\ lines' = Added(line) /\ exists' = TRUE
    /\ UNCHANGED <<expected, prev, serial, event>>
    /\ \/ /\ line # Junk
          /\ pc' = [pc EXCEPT ![w] = "appended"]
          /\ unended' = FALSE /\ crashes' = crashes
       \/ /\ pc' = [pc EXCEPT ![w] = "crashed"]
          /\ unended' = TRUE /\ crashes' = crashes + 1

\* The lines are left alone, by calls that go on to another step than "appended".  At most
\* a file without lines is created.
Quiet ==
    /\ exists' = exists \/ exists' = TRUE
    /\ UNCHANGED <<lines, unended, crashes, serial, event>>
    /\ \A w \in Writer : pc'[w] # pc[w] => pc[w] \notin Ended /\ pc'[w] # "appended"
    /\ \A w \in Writer : prev'[w] # prev[w] => pc[w] = "checked_tag"

\* A step adds a line, or leaves the lines alone.
LEMMA StepWrites ==
    ASSUME Typed, [Next]_vars
    PROVE  (\E w \in Writer, line \in Line : Write(w, line)) \/ Quiet
<1>1. ASSUME NEW w \in Writer, AppendRecord(w)
      PROVE  \E line \in Line : Write(w, line)
  <2>1. Chained(prev[w], Entry(w)) # Junk
    BY RecordType DEF Junk, Chained
  <2>2. Write(w, Chained(prev[w], Entry(w)))
    BY <1>1, <2>1 DEF AppendRecord, Write
  <2>3. QED
    BY <2>2, RecordType
<1>2. ASSUME NEW w \in Writer, TornAppend(w)
      PROVE  \E line \in Line : Write(w, line)
  <2>1. PICK line \in {Junk, Chained(prev[w], Entry(w))} : lines' = Added(line)
    BY <1>2 DEF TornAppend
  <2>2. Write(w, line)
    BY <1>2, <2>1 DEF TornAppend, Write
  <2>3. line \in Line
    BY <2>1, RecordType DEF Line
  <2>4. QED
    BY <2>2, <2>3
<1>3. ASSUME NEW w \in Writer, Begin(w) \/ CheckTag(w) \/ CheckTip(w) \/ Killed(w)
      PROVE  Quiet
  <2>1. /\ UNCHANGED <<lines, unended, crashes, serial, event>>
        /\ \A v \in Writer : v # w => pc'[v] = pc[v] /\ prev'[v] = prev[v]
    BY <1>3 DEF Begin, CheckTag, CheckTip, Killed, Typed, TypeOK
  <2>2. pc[w] \notin Ended /\ pc'[w] # "appended"
    BY <1>3 DEF Begin, CheckTag, CheckTip, Killed, Alive, Ended, Typed, TypeOK
  <2>3. prev'[w] # prev[w] => pc[w] = "checked_tag"
    BY <1>3 DEF Begin, CheckTag, CheckTip, Killed
  <2>4. exists' = exists \/ exists' = TRUE
    BY <1>3 DEF Begin, CheckTag, CheckTip, Killed
  <2>5. QED
    BY <2>1, <2>2, <2>3, <2>4 DEF Quiet
<1>4. CASE UNCHANGED vars
  BY <1>4 DEF Quiet, vars
<1>5. QED
  BY <1>1, <1>2, <1>3, <1>4 DEF Next

-----------------------------------------------------------------------------
(***************************************************************************)
(* Types.                                                                  *)
(***************************************************************************)

\* The part of it that speaks of the file.
FileTyped ==
    /\ exists \in BOOLEAN
    /\ ~exists => lines = <<>>
    /\ lines \in Seq(Line)
    /\ unended => lines # <<>>
    /\ \A i \in DOMAIN lines :
        \/ lines[i] \in {Legacy, Junk}
        \/ \E w \in Writer : lines[i] = Chained(lines[i].prev, Entry(w))

LEMMA InitTyped == Init => Typed
<1> SUFFICES ASSUME Init PROVE Typed
  OBVIOUS
<1>1. lines \in Seq(Line) /\ \A i \in DOMAIN lines : lines[i] = Legacy
  <2>1. Legacy \in Line /\ lines \in {<<>>, <<Legacy>>}
    BY DEF Init, Line
  <2>2. CASE lines = <<>>
    BY <2>2
  <2>3. CASE lines = <<Legacy>>
    BY <2>1, <2>3
  <2>4. QED
    BY <2>1, <2>2, <2>3
<1>2. Genesis \in Hashes
  BY DEF Hashes
<1>3. TypeOK
  <2>1. exists \in BOOLEAN /\ (~exists => lines = <<>>)
    BY DEF Init
  <2>2. QED
    BY <1>1, <2>1 DEF Init, TypeOK
<1>4. QED
  BY <1>1, <1>2, <1>3 DEF Init, Typed

LEMMA StepTyped == Typed /\ [Next]_vars => Typed'
<1> SUFFICES ASSUME Typed, [Next]_vars PROVE Typed'
  OBVIOUS
<1>1. /\ serial' \in BOOLEAN /\ event' = event
      /\ pc' \in [Writer -> {"idle", "tip_read", "checked_tag", "checked_tip"} \cup Ended]
  BY DEF Typed, TypeOK, Next, Begin, CheckTag, CheckTip, AppendRecord, TornAppend, Killed, vars, Ended
<1>2. expected' \in [Writer -> Hashes] /\ prev' \in [Writer -> Hashes]
  <2>1. LastHash \in Hashes
    BY LastHashType DEF Typed
  <2>2. QED
    BY <2>1 DEF Typed, Next, Begin, CheckTag, CheckTip, AppendRecord, TornAppend, Killed, vars
<1>3. crashes' \in 0..MaxCrash
  BY DEF Typed, TypeOK, Next, Begin, CheckTag, CheckTip, AppendRecord, TornAppend, Killed, vars
<1>4. FileTyped'
  <2>1. CASE Quiet
    <3>1. exists' \in BOOLEAN /\ (~exists' => lines' = <<>>)
      <4>1. exists \in BOOLEAN /\ (~exists => lines = <<>>)
        BY DEF Typed, TypeOK
      <4>2. (exists' = exists \/ exists' = TRUE) /\ lines' = lines
        BY <2>1 DEF Quiet
      <4>3. QED
        BY <4>1, <4>2
    <3>2. QED
      BY <1>1, <2>1, <3>1 DEF Typed, TypeOK, FileTyped, Entry, Quiet
  <2>2. ASSUME NEW w \in Writer, NEW line \in Line, Write(w, line)
        PROVE  FileTyped'
    <3>1. line = Junk \/ line = Chained(line.prev, Entry(w))
      BY <2>2, RecordType DEF Write
    <3>2. lines' \in Seq(Line) /\ Len(lines') \in Nat /\ DOMAIN lines' = 1..Len(lines')
      BY <2>2, AddedLines DEF Write
    <3>3. Len(lines') > 0 /\ lines' # <<>>
      BY <2>2, AddedLines, LineFacts DEF Write, Typed
    <3>4. \A i \in 1..Len(lines') : (i \in 1..Len(lines) /\ lines'[i] = lines[i]) \/ lines'[i] \in {line, Junk}
      BY <2>2, AddedEach DEF Write
    <3>5. \A i \in 1..Len(lines) :
            \/ lines[i] \in {Legacy, Junk}
            \/ \E v \in Writer : lines[i] = Chained(lines[i].prev, Entry(v))
      BY LineFacts DEF Typed, TypeOK
    <3>6. \A v \in Writer : Entry(v)' = Entry(v)
      BY <1>1 DEF Entry
    <3>7. exists' \in BOOLEAN /\ (~exists' => lines' = <<>>)
      BY <2>2 DEF Write
    <3>8. QED
      BY <3>1, <3>2, <3>3, <3>4, <3>5, <3>6, <3>7 DEF FileTyped
  <2>3. QED
    BY <2>1, <2>2, StepWrites
<1>5. TypeOK'
  BY <1>1, <1>3, <1>4 DEF TypeOK, Typed, FileTyped
<1>6. QED
  BY <1>2, <1>4, <1>5 DEF Typed, FileTyped

\* The log stays within its types, which include that every chained line is the record
\* of some call of append_event.
THEOREM LogTypes == Spec => []TypeOK
<1>1. Typed => TypeOK
  BY DEF Typed
<1>2. QED
  BY <1>1, InitTyped, StepTyped, PTL DEF Spec

-----------------------------------------------------------------------------
(***************************************************************************)
(* What a writer adds.                                                     *)
(***************************************************************************)

\* The chained lines after a step that adds one, and that junk stays.
LEMMA WrittenLines ==
    ASSUME Typed, NEW w \in Writer, NEW line \in Line, Write(w, line)
    PROVE  /\ \A i \in Lines("chained")' :
                \/ i \in Lines("chained") /\ lines'[i] = lines[i]
                \/ ~unended /\ i = Len(lines) + 1 /\ line # Junk /\ lines'[i] = line
           /\ Lines("junk") # {} => Lines("junk")' # {}
           /\ ~unended => Lines("chained") \subseteq Lines("chained")'
           /\ unended \/ line = Junk => Lines("junk")' # {}
           /\ ~unended /\ line # Junk => Len(lines) + 1 \in Lines("chained")' /\ Len(lines') = Len(lines) + 1
                                         /\ Lines("junk")' \subseteq Lines("junk")
                                         /\ Lines("legacy")' \subseteq Lines("legacy")
           /\ ~unended => \A i \in 1..Len(lines) : lines'[i] = lines[i]
<1>1. /\ Len(lines) \in Nat /\ DOMAIN lines = 1..Len(lines)
      /\ Len(lines') \in Nat /\ DOMAIN lines' = 1..Len(lines')
      /\ lines' = Added(line)
  BY AddedLines, LineFacts DEF Write, Typed
<1>2. Junk.kind = "junk" /\ (line # Junk => line.kind = "chained")
  BY RecordType DEF Junk, Write
<1>3. CASE unended
  <2>1. /\ Len(lines') = Len(lines) /\ Len(lines) > 0 /\ lines'[Len(lines)] = Junk
        /\ \A i \in 1..Len(lines) - 1 : lines'[i] = lines[i]
    BY <1>1, <1>3, AddedLines
  <2>2. Len(lines) \in Lines("junk")'
    BY <1>1, <1>2, <2>1 DEF Lines
  <2>3. \A i \in Lines("chained")' : i \in Lines("chained") /\ lines'[i] = lines[i]
    <3>1. TAKE i \in Lines("chained")'
    <3>2. i \in 1..Len(lines) /\ lines'[i].kind = "chained"
      BY <1>1, <2>1 DEF Lines
    <3>3. i # Len(lines)
      BY <1>2, <2>1, <3>2
    <3>4. i \in 1..Len(lines) - 1
      <4>1. \A n \in Nat : \A k \in 1..n : k # n => k \in 1..n - 1
        OBVIOUS
      <4>2. QED
        BY <1>1, <3>2, <3>3, <4>1
    <3>5. QED
      BY <1>1, <2>1, <3>2, <3>4 DEF Lines
  <2>4. QED
    BY <1>3, <2>2, <2>3
<1>4. CASE ~unended
  <2>1. /\ Len(lines') = Len(lines) + 1 /\ lines'[Len(lines) + 1] = line
        /\ \A i \in 1..Len(lines) : lines'[i] = lines[i]
    BY <1>1, <1>4, AddedLines
  <2>2. \A k \in {"chained", "legacy", "junk"} : Lines(k) \subseteq Lines(k)'
    <3>1. \A i \in 1..Len(lines) : i \in 1..Len(lines')
      BY <1>1, <2>1
    <3>2. QED
      BY <1>1, <2>1, <3>1 DEF Lines
  <2>3. \A k \in {"chained", "legacy", "junk"} : \A i \in Lines(k)' :
            \/ i \in Lines(k) /\ lines'[i] = lines[i]
            \/ i = Len(lines) + 1 /\ lines'[i] = line /\ line.kind = k
    <3>1. \A i \in 1..Len(lines') : i \in 1..Len(lines) \/ i = Len(lines) + 1
      BY <1>1, <2>1
    <3>2. QED
      BY <1>1, <2>1, <3>1 DEF Lines
  <2>4. Len(lines) + 1 \in 1..Len(lines')
    BY <1>1, <2>1
  <2>5. line.kind = "chained" => Len(lines) + 1 \in Lines("chained")'
    BY <1>1, <2>1, <2>4 DEF Lines
  <2>6. line.kind = "junk" => Len(lines) + 1 \in Lines("junk")'
    BY <1>1, <2>1, <2>4 DEF Lines
  <2>7. QED
    BY <1>2, <1>4, <2>1, <2>2, <2>3, <2>5, <2>6
<1>5. QED
  BY <1>3, <1>4

-----------------------------------------------------------------------------
(***************************************************************************)
(* Nothing acknowledged is lost, whichever writers race.                   *)
(***************************************************************************)

\* A chained line is the record of a call that has written; a call has at most one; and
\* one that returned "appended" has one, or something in the log is unreadable.
AckedInv ==
    /\ \A i \in Lines("chained"), w \in Writer : lines[i].entry.timestamp = w =>
          pc[w] \in {"appended", "crashed"} /\ lines[i] = Chained(prev[w], Entry(w))
    /\ \A i, j \in Lines("chained") : lines[i].entry.timestamp = lines[j].entry.timestamp => i = j
    /\ \A w \in Writer : pc[w] = "appended" =>
          Lines("junk") # {} \/ \E i \in Lines("chained") : lines[i] = Chained(prev[w], Entry(w))

LEMMA InitAcked == Init => AckedInv
<1> SUFFICES ASSUME Init PROVE AckedInv
  OBVIOUS
<1>1. Lines("chained") = {}
  BY DEF Init, Lines, Legacy
<1>2. \A w \in Writer : pc[w] = "idle"
  BY DEF Init
<1>3. QED
  BY <1>1, <1>2 DEF AckedInv

LEMMA StepAcked == Typed /\ AckedInv /\ [Next]_vars => AckedInv'
<1> SUFFICES ASSUME Typed, AckedInv, [Next]_vars PROVE AckedInv'
  OBVIOUS
<1>1. CASE Quiet
  <2>1. \A w \in Writer : pc[w] \in {"appended", "crashed"} =>
          pc'[w] = pc[w] /\ Chained(prev[w], Entry(w))' = Chained(prev[w], Entry(w))
    BY <1>1 DEF Quiet, Ended, Entry, Chained
  <2>2. \A w \in Writer : pc'[w] = "appended" => pc[w] = "appended"
    BY <1>1 DEF Quiet
  <2>3. Lines("chained")' = Lines("chained") /\ Lines("junk")' = Lines("junk") /\ lines' = lines
    BY <1>1 DEF Quiet, Lines
  <2>4. QED
    BY <2>1, <2>2, <2>3 DEF AckedInv
<1>2. ASSUME NEW w \in Writer, NEW line \in Line, Write(w, line)
      PROVE  AckedInv'
  <2>1. /\ \A v \in Writer : v # w => pc'[v] = pc[v]
        /\ pc[w] = "checked_tip" /\ pc'[w] \in {"appended", "crashed"}
        /\ line = Junk => pc'[w] = "crashed"
    BY <1>2 DEF Write, Typed, TypeOK
  <2>2. \A v \in Writer : Chained(prev[v], Entry(v))' = Chained(prev[v], Entry(v))
    BY <1>2 DEF Write, Entry, Chained
  <2>3. \A i \in Lines("chained") : lines[i].entry.timestamp # w
    BY <2>1 DEF AckedInv
  <2>4. line # Junk => line = Chained(prev[w], Entry(w)) /\ line.entry.timestamp = w
    BY <1>2, RecordType DEF Write, Entry
  <2>5. \A i \in Lines("chained"), v \in Writer : lines[i].entry.timestamp = v =>
          pc'[v] \in {"appended", "crashed"} /\ lines[i] = Chained(prev[v], Entry(v))'
    BY <2>1, <2>2, <2>3 DEF AckedInv
  <2>6. \A i \in Lines("chained")', v \in Writer : lines'[i].entry.timestamp = v =>
          pc'[v] \in {"appended", "crashed"} /\ lines'[i] = Chained(prev[v], Entry(v))'
    BY <1>2, <2>1, <2>2, <2>4, <2>5, WrittenLines
  <2>7. \A i, j \in Lines("chained")' :
          lines'[i].entry.timestamp = lines'[j].entry.timestamp => i = j
    BY <1>2, <2>3, <2>4, WrittenLines DEF AckedInv
  <2>8. \A v \in Writer : pc'[v] = "appended" =>
          Lines("junk")' # {} \/ \E i \in Lines("chained")' : lines'[i] = Chained(prev[v], Entry(v))'
    <3>1. SUFFICES ASSUME NEW v \in Writer, pc'[v] = "appended", Lines("junk")' = {}
                   PROVE  \E i \in Lines("chained")' : lines'[i] = Chained(prev[v], Entry(v))'
      OBVIOUS
    <3>2. ~unended /\ line # Junk /\ Lines("junk") = {}
      BY <1>2, <3>1, WrittenLines
    <3>3. CASE v = w
      <4>1. Len(lines) + 1 \in Lines("chained")' /\ lines'[Len(lines) + 1] = line
        BY <1>2, <3>2, WrittenLines, AddedLines DEF Write
      <4>2. QED
        BY <2>2, <2>4, <3>2, <3>3, <4>1
    <3>4. CASE v # w
      <4>1. PICK i \in Lines("chained") : lines[i] = Chained(prev[v], Entry(v))
        BY <2>1, <3>1, <3>2, <3>4 DEF AckedInv
      <4>2. i \in Lines("chained")' /\ lines'[i] = lines[i]
        BY <1>2, <3>2, WrittenLines, LineFacts DEF Typed
      <4>3. QED
        BY <2>2, <4>1, <4>2
    <3>5. QED
      BY <3>3, <3>4
  <2>9. QED
    BY <2>6, <2>7, <2>8 DEF AckedInv
<1>3. QED
  BY <1>1, <1>2, StepWrites

\* However many writers race and whatever is torn: a log the verifier accepts holds every
\* record that was acknowledged, exactly once.
THEOREM NothingAckedIsLost == Spec => []VerifiedHoldsAcked
<1>1. Typed /\ AckedInv => VerifiedHoldsAcked
  <2>1. SUFFICES ASSUME Typed, AckedInv, Verified, NEW w \in Writer, pc[w] = "appended"
                 PROVE  \E i \in DOMAIN lines : \A j \in DOMAIN lines :
                            (lines[j] = Chained(prev[w], Entry(w))) <=> (j = i)
    BY DEF VerifiedHoldsAcked
  <2>2. PICK i \in Lines("chained") : lines[i] = Chained(prev[w], Entry(w))
    BY <2>1 DEF AckedInv, Verified
  <2>3. ASSUME NEW j \in DOMAIN lines, lines[j] = Chained(prev[w], Entry(w))
        PROVE  j = i
    <3>1. j \in Lines("chained")
      BY <2>1, <2>3, RecordType DEF Lines
    <3>2. QED
      BY <2>1, <2>2, <2>3, <3>1 DEF AckedInv
  <2>4. i \in DOMAIN lines
    BY <2>2 DEF Lines
  <2>5. QED
    BY <2>2, <2>3, <2>4
<1>2. Typed /\ AckedInv /\ [Next]_vars => (Typed /\ AckedInv)'
  BY StepTyped, StepAcked
<1>3. QED
  BY <1>1, <1>2, InitTyped, InitAcked, PTL DEF Spec

-----------------------------------------------------------------------------
(***************************************************************************)
(* One writer at a time.                                                   *)
(***************************************************************************)

\* At most one call is between its start and its end.  Since it looked, nobody else can
\* have recorded its tag, or left an unreadable line.
SerialInv ==
    serial =>
        /\ \A v, w \in Writer : Alive(v) /\ Alive(w) => v = w
        /\ \A i, j \in Lines("chained") :
              lines[i].entry.tag = lines[j].entry.tag /\ lines[i].entry.tag # NoTag => i = j
        /\ \A w \in Writer : pc[w] \in {"checked_tag", "checked_tip"} =>
              event[w].tag = NoTag \/ Carrying(event[w].tag) = {}
        /\ \A w \in Writer : pc[w] = "checked_tip" => Lines("junk") = {}

\* Without torn writes the file ends in its last chained line, to whose hash the call
\* that is about to write links its record.
ChainInv ==
    serial /\ crashes = 0 =>
        /\ Lines("junk") = {} /\ Linked /\ ~unended
        /\ Lines("chained") # {} => Len(lines) \in Lines("chained")
        /\ \A w \in Writer : pc[w] = "checked_tip" => prev[w] = LastHash

LEMMA InitSerial == Init => SerialInv /\ ChainInv
<1> SUFFICES ASSUME Init PROVE SerialInv /\ ChainInv
  OBVIOUS
<1>1. Lines("chained") = {} /\ Lines("junk") = {}
  BY DEF Init, Lines, Legacy
<1>2. \A w \in Writer : pc[w] = "idle" /\ ~Alive(w)
  BY DEF Init, Alive
<1>3. QED
  BY <1>1, <1>2 DEF Init, SerialInv, ChainInv, Linked

\* With one writer at a time, a call that is alive stays the only one.
LEMMA StepAlone ==
    ASSUME Typed, [Next]_vars, serial, \A v, w \in Writer : Alive(v) /\ Alive(w) => v = w
    PROVE  \A v, w \in Writer : Alive(v)' /\ Alive(w)' => v = w
<1>1. ASSUME NEW u \in Writer, Begin(u)
      PROVE  \A v, w \in Writer : Alive(v)' /\ Alive(w)' => v = w
  <2>1. \A v \in Writer : v # u => ~Alive(v)'
    BY <1>1 DEF Begin, Alive, Typed, TypeOK
  <2>2. QED
    BY <2>1
<1>2. ASSUME NEW u \in Writer, CheckTag(u) \/ CheckTip(u) \/ AppendRecord(u) \/ TornAppend(u) \/ Killed(u)
      PROVE  \A v, w \in Writer : Alive(v)' /\ Alive(w)' => v = w
  <2>1. Alive(u) /\ \A v \in Writer : v # u => pc'[v] = pc[v]
    BY <1>2 DEF CheckTag, CheckTip, AppendRecord, TornAppend, Killed, Alive, Ended, Typed, TypeOK
  <2>2. QED
    BY <2>1 DEF Alive
<1>3. CASE UNCHANGED vars
  BY <1>3 DEF vars, Alive
<1>4. QED
  BY <1>1, <1>2, <1>3 DEF Next

LEMMA StepSerial == Typed /\ SerialInv /\ [Next]_vars => SerialInv'
<1> SUFFICES ASSUME Typed, SerialInv, [Next]_vars, serial' PROVE SerialInv'
  BY DEF SerialInv
<1>1. serial
  BY DEF Next, Begin, CheckTag, CheckTip, AppendRecord, TornAppend, Killed, vars
<1>2. \A v, w \in Writer : Alive(v)' /\ Alive(w)' => v = w
  BY <1>1, StepAlone DEF SerialInv
<1>3. ASSUME NEW w \in Writer, NEW line \in Line, Write(w, line)
      PROVE  SerialInv'
  <2>1. Alive(w) /\ pc[w] = "checked_tip" /\ pc'[w] \in {"appended", "crashed"}
    BY <1>3 DEF Write, Alive, Ended, Typed, TypeOK
  <2>2. \A v \in Writer : pc'[v] \notin {"checked_tag", "checked_tip"}
    BY <1>1, <1>3, <2>1 DEF SerialInv, Write, Alive, Ended, Typed, TypeOK
  <2>3. line # Junk => line.entry.tag = event[w].tag
    BY <1>3, RecordType DEF Write, Entry
  <2>4. event[w].tag # NoTag => \A i \in Lines("chained") : lines[i].entry.tag # event[w].tag
    BY <1>1, <2>1 DEF SerialInv, Carrying
  <2>5. \A i, j \in Lines("chained")' :
          lines'[i].entry.tag = lines'[j].entry.tag /\ lines'[i].entry.tag # NoTag => i = j
    BY <1>1, <1>3, <2>3, <2>4, WrittenLines DEF SerialInv
  <2>6. QED
    BY <1>2, <2>2, <2>5 DEF SerialInv
<1>4. CASE Quiet
  <2>1. /\ lines' = lines /\ event' = event
        /\ Lines("chained")' = Lines("chained") /\ Lines("junk")' = Lines("junk")
        /\ \A w \in Writer : Carrying(event[w].tag)' = Carrying(event[w].tag)
    BY <1>4 DEF Quiet, Lines, Carrying
  <2>2. \A w \in Writer : pc'[w] \in {"checked_tag", "checked_tip"} =>
          event[w].tag = NoTag \/ Carrying(event[w].tag) = {}
    <3>1. SUFFICES ASSUME NEW w \in Writer, pc'[w] \in {"checked_tag", "checked_tip"}
                   PROVE  event[w].tag = NoTag \/ Carrying(event[w].tag) = {}
      OBVIOUS
    <3>2. CASE pc[w] \in {"checked_tag", "checked_tip"}
      BY <1>1, <3>2 DEF SerialInv
    <3>3. CASE pc[w] \notin {"checked_tag", "checked_tip"}
      <4>1. CheckTag(w)
        BY <3>1, <3>3 DEF Next, Begin, CheckTag, CheckTip, AppendRecord, TornAppend, Killed, vars, Typed, TypeOK
      <4>2. pc'[w] \in {"checked_tag", "checked_tip"} => event[w].tag = NoTag \/ Carrying(event[w].tag) = {}
        BY <4>1 DEF CheckTag, Typed, TypeOK
      <4>3. QED
        BY <3>1, <4>2
    <3>4. QED
      BY <3>2, <3>3
  <2>3. \A w \in Writer : pc'[w] = "checked_tip" => Lines("junk") = {}
    BY <1>1 DEF SerialInv, Next, Begin, CheckTag, CheckTip, AppendRecord, TornAppend, Killed, vars, Typed, TypeOK
  <2>4. QED
    BY <1>1, <1>2, <2>1, <2>2, <2>3 DEF SerialInv
<1>5. QED
  BY <1>3, <1>4, StepWrites

\* With one writer at a time an iteration tag is recorded at most once, however often the
\* iteration is retried and whatever a torn write left behind.
THEOREM TagsOnce == Spec => []SerialTagsOnce
<1>1. SerialInv => SerialTagsOnce
  BY DEF SerialInv, SerialTagsOnce
<1>2. Typed /\ SerialInv /\ [Next]_vars => (Typed /\ SerialInv)'
  BY StepTyped, StepSerial
<1>3. QED
  BY <1>1, <1>2, InitTyped, InitSerial, PTL DEF Spec

\* With one writer at a time nothing is added to a file with an unreadable line.
THEOREM JunkStops == Spec => JunkStopsAppends
<1>1. Typed /\ SerialInv /\ [Next]_vars => [serial /\ Lines("junk") # {} => UNCHANGED lines]_vars
  <2>1. SUFFICES ASSUME Typed, SerialInv, [Next]_vars, serial, Lines("junk") # {}
                 PROVE  UNCHANGED lines
    OBVIOUS
  <2>2. ASSUME NEW w \in Writer, NEW line \in Line, Write(w, line)
        PROVE  FALSE
    BY <2>1, <2>2 DEF Write, SerialInv
  <2>3. QED
    BY <2>1, <2>2, StepWrites DEF Quiet
<1>2. Typed /\ SerialInv /\ [Next]_vars => (Typed /\ SerialInv)'
  BY StepTyped, StepSerial
<1>3. QED
  BY <1>1, <1>2, InitTyped, InitSerial, PTL DEF Spec, JunkStopsAppends

\* When the file ends in a chained line, _last_hash returns the hash of that line.
LEMMA LastHashAtEnd ==
    ASSUME lines \in Seq(Line), Len(lines) \in Lines("chained")
    PROVE  LastHash = lines[Len(lines)].hash
<1>1. Lines("chained") \subseteq 1..Len(lines) /\ Len(lines) \in Nat
  BY LineFacts
<1>2. \A j \in Lines("chained") : j <= Len(lines)
  BY <1>1
<1>3. \A i \in Lines("chained") : (\A j \in Lines("chained") : j <= i) => i = Len(lines)
  <2>1. TAKE i \in Lines("chained")
  <2>2. i \in 1..Len(lines) /\ Len(lines) \in Lines("chained")
    BY <1>1
  <2>3. Len(lines) <= i => i = Len(lines)
    BY <1>1, <2>2
  <2>4. QED
    BY <2>2, <2>3
<1>4. (CHOOSE i \in Lines("chained") : \A j \in Lines("chained") : j <= i) = Len(lines)
  BY <1>2, <1>3
<1>5. QED
  BY <1>4 DEF LastHash

\* Linking to the last line keeps the log one that the verifier accepts, now that there is one.
LEMMA WriteVerified ==
    ASSUME Typed, serial, crashes = 0, ChainInv,
           NEW w \in Writer, NEW line \in Line, Write(w, line), line # Junk
    PROVE  Verified' /\ Lines("junk")' = {} /\ Linked'
<1> DEFINE n == Len(lines)
           C == Lines("chained")
<1>1. /\ ~unended /\ prev[w] = LastHash /\ Lines("junk") = {}
      /\ \A i \in C, j \in Lines("legacy") : j < i
      /\ \A i \in C : /\ lines[i].prev = IF i - 1 \in C THEN lines[i - 1].hash ELSE Genesis
                      /\ lines[i].hash = Hash(lines[i].prev, lines[i].entry)
      /\ C # {} => n \in C
  BY DEF ChainInv, Linked, Write
<1>2. /\ n \in Nat /\ C \subseteq 1..n /\ Lines("legacy") \subseteq 1..n
      /\ C \subseteq C' /\ n + 1 \in C' /\ Lines("junk")' = {}
      /\ Lines("legacy")' \subseteq Lines("legacy")
      /\ \A i \in C' : i \in C \/ i = n + 1
      /\ \A i \in 1..n : lines'[i] = lines[i]
      /\ lines'[n + 1] = line
  BY <1>1, WrittenLines, LineFacts DEF Typed
<1>3. line.prev = prev[w] /\ line.hash = Hash(line.prev, line.entry)
  BY RecordType DEF Write
<1>4. prev[w] = IF n \in C THEN lines[n].hash ELSE Genesis
  BY <1>1, LastHashAtEnd DEF LastHash, Typed
<1>5. \A i \in C : (i - 1 \in C' <=> i - 1 \in C) /\ (i - 1 \in C => lines'[i - 1] = lines[i - 1])
  <2>1. TAKE i \in C
  <2>2. i \in 1..n
    BY <1>2
  <2>3. i - 1 # n + 1
    BY <1>2, <2>2
  <2>4. QED
    BY <1>2, <2>3
<1>6. (n + 1) - 1 = n /\ (n \in C' <=> n \in C) /\ (n \in C => lines'[n] = lines[n])
  <2>1. n # n + 1 /\ (n + 1) - 1 = n
    BY <1>2
  <2>2. QED
    BY <1>2, <2>1
<1>7. \A i \in C', j \in Lines("legacy")' : j < i
  BY <1>1, <1>2
<1>8. \A i \in C' :
        /\ lines'[i].prev = IF i - 1 \in C' THEN lines'[i - 1].hash ELSE Genesis
        /\ lines'[i].hash = Hash(lines'[i].prev, lines'[i].entry)
  <2>1. TAKE i \in C'
  <2>2. CASE i \in C
    BY <1>1, <1>2, <1>5, <2>2
  <2>3. CASE i = n + 1
    BY <1>2, <1>3, <1>4, <1>6, <2>3
  <2>4. QED
    BY <1>2, <2>2, <2>3
<1>9. QED
  BY <1>2, <1>7, <1>8 DEF Verified, Linked, Write

LEMMA StepChain == Typed /\ SerialInv /\ ChainInv /\ [Next]_vars => ChainInv'
<1> SUFFICES ASSUME Typed, SerialInv, ChainInv, [Next]_vars, serial', crashes' = 0 PROVE ChainInv'
  BY DEF ChainInv
<1>1. ASSUME NEW w \in Writer, NEW line \in Line, Write(w, line)
      PROVE  ChainInv'
  <2>1. serial /\ crashes = 0 /\ line # Junk /\ ~unended'
    BY <1>1 DEF Write, Typed, TypeOK
  <2>2. Lines("junk")' = {} /\ Linked'
    BY <1>1, <2>1, WriteVerified
  <2>3. ~unended
    BY <2>1 DEF ChainInv
  <2>4. Len(lines') \in Lines("chained")'
    BY <1>1, <2>1, <2>3, WrittenLines
  <2>5. \A v \in Writer : pc'[v] # "checked_tip"
    BY <1>1, <2>1 DEF SerialInv, Write, Alive, Ended, Typed, TypeOK
  <2>6. QED
    BY <2>1, <2>2, <2>4, <2>5 DEF ChainInv
<1>2. CASE Quiet
  <2>1. /\ serial /\ crashes = 0 /\ unended' = unended /\ lines' = lines
        /\ Lines("chained")' = Lines("chained") /\ LastHash' = LastHash
        /\ Lines("junk")' = Lines("junk") /\ Linked' = Linked
    BY <1>2 DEF Quiet, Lines, LastHash, Linked
  <2>2. \A w \in Writer : pc'[w] = "checked_tip" => prev'[w] = LastHash
    <3>1. SUFFICES ASSUME NEW w \in Writer, pc'[w] = "checked_tip" PROVE prev'[w] = LastHash
      OBVIOUS
    <3>2. CASE pc[w] = "checked_tip"
      BY <1>2, <2>1, <3>2 DEF Quiet, ChainInv
    <3>3. CASE pc[w] # "checked_tip"
      <4>1. CheckTip(w)
        BY <3>1, <3>3 DEF Next, Begin, CheckTag, CheckTip, AppendRecord, TornAppend, Killed, vars, Typed, TypeOK
      <4>2. QED
        BY <3>1, <4>1 DEF CheckTip, Typed, TypeOK
    <3>4. QED
      BY <3>2, <3>3
  <2>3. QED
    BY <2>1, <2>2 DEF ChainInv
<1>3. QED
  BY <1>1, <1>2, StepWrites

\* With one writer at a time and no torn write the verifier always accepts the log.
THEOREM ChainVerifies == Spec => []SerialChainIntact
<1>1. ChainInv => SerialChainIntact
  BY DEF ChainInv, SerialChainIntact, Verified
<1>2. Typed /\ SerialInv /\ ChainInv /\ [Next]_vars => (Typed /\ SerialInv /\ ChainInv)'
  BY StepTyped, StepSerial, StepChain
<1>3. QED
  BY <1>1, <1>2, InitTyped, InitSerial, PTL DEF Spec
=============================================================================
