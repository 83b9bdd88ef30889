---------------------------- MODULE EvidenceProofs ---------------------------
(***************************************************************************)
(* Theorems about Evidence, for any universe, factors, thresholds, markets *)
(* and calls.                                                              *)
(***************************************************************************)
EXTENDS Evidence, FiniteSetTheorems, WellFoundedInduction, TLAPS

-----------------------------------------------------------------------------
(***************************************************************************)
(* Programs.                                                               *)
(***************************************************************************)

\* The files a call may write.
Targets(a) ==
    CASE a.script = "screen_factor" -> {<<"gate_results", a.factor>>, <<"screening_metrics", a.factor>>}
      [] a.script = "rescreen_v2"   -> {<<"gate_results_v2", f>> : f \in ActiveSet}
      [] a.script = "workstream_a"  -> {<<"workstream_a", a.factor>>}
      [] a.script = "workstream_d"  -> {<<"workstream_d", "">>}
      [] a.script = "ensemble_g0"   -> {<<"ensemble_g0", "">>}
      [] a.script = "phase3"        -> {<<"phase3", "">>}
      [] a.script = "romano_wolf"   -> {<<"romano_wolf", "">>}
      [] a.script = "bootstrap"     -> {<<"bootstrap", "">>}
      [] a.script = "robustness"    ->
            {<<"v3", i>> : i \in 1..4} \cup {<<"v4", f>> : f \in ActiveSet} \cup {<<"robustness", "">>}
      [] a.script = "battery"       -> BatteryFiles
      [] a.script = "high52w"       -> {<<"high52w", "">>}
      [] a.script = "tracker"       -> {Tracker}

\* The steps of a program that may write the files of T.
Source == {"closes", "filings", "spy", "gates", "frozen", "results", "notes", "text"}
StepOf(T) == {Read(x) : x \in Source} \cup {Judge, Log} \cup {Write(p) : p \in T}

NearMissFile == <<"near_miss", "">>
Judges(s) == \E i \in 1..Len(s) : s[i] = Judge

\* A program that writes only what it has judged, and judges again only after the near
\* misses; it logs nothing.
Body(s, T) ==
    /\ s \in Seq(StepOf(T))
    /\ \A i \in 1..Len(s) :
        /\ s[i][1] # "log"
        /\ s[i][1] = "write" => s[i][2] \in T /\ \E j \in 1..i : s[j] = Judge
        /\ s[i][1] = "judge" => s[i] = Judge /\ \A j \in 1..i : s[j][1] = "write" => s[j][2] = NearMissFile

\* The same, with an event logged at the end of it.
Tidy(s, T) ==
    /\ s \in Seq(StepOf(T))
    /\ \A i \in 1..Len(s) :
        /\ s[i][1] = "log" => i = Len(s)
        /\ s[i][1] = "write" => s[i][2] \in T /\ \E j \in 1..i : s[j] = Judge
        /\ s[i][1] = "judge" => s[i] = Judge /\ \A j \in 1..i : s[j][1] = "write" => s[j][2] = NearMissFile

LEMMA Joined ==
    ASSUME NEW S, NEW s \in Seq(S), NEW t \in Seq(S)
    PROVE  /\ s \o t \in Seq(S) /\ Len(s) \in Nat /\ Len(t) \in Nat /\ Len(s \o t) = Len(s) + Len(t)
           /\ \A i \in 1..Len(s) : (s \o t)[i] = s[i]
           /\ \A i \in 1..Len(s) + Len(t) : i > Len(s) => i - Len(s) \in 1..Len(t) /\ (s \o t)[i] = t[i - Len(s)]
  OBVIOUS

\* A program that has judged may go on to write.
LEMMA ThenWrites ==
    ASSUME NEW T, NEW s, Body(s, T), Judges(s),
           NEW w \in Seq(StepOf(T)), \A i \in 1..Len(w) : w[i][1] = "write" /\ w[i][2] \in T
    PROVE  Body(s \o w, T) /\ Judges(s \o w)
<1> DEFINE u == s \o w
           n == Len(s)
<1>1. s \in Seq(StepOf(T))
  BY DEF Body
<1>2. /\ u \in Seq(StepOf(T)) /\ n \in Nat /\ Len(w) \in Nat /\ Len(u) = n + Len(w)
      /\ \A i \in 1..n : u[i] = s[i]
      /\ \A i \in 1..n + Len(w) : i > n => i - n \in 1..Len(w) /\ u[i] = w[i - n]
  BY <1>1, Joined
<1>3. PICK k \in 1..n : s[k] = Judge
  BY DEF Judges
<1> HIDE DEF u
<1>4. ASSUME NEW i \in 1..Len(u), i > n
      PROVE  u[i][1] = "write" /\ u[i][2] \in T /\ k \in 1..i /\ u[k] = Judge
  BY <1>2, <1>3, <1>4, SMTT(30)
<1>5. ASSUME NEW i \in 1..Len(u), ~(i > n)
      PROVE  /\ u[i] = s[i] /\ \A j \in 1..i : u[j] = s[j] /\ j \in 1..n
             /\ i \in 1..n
  BY <1>2, <1>5
<1>6. ASSUME NEW i \in 1..Len(u)
      PROVE  /\ u[i][1] # "log"
             /\ u[i][1] = "write" => u[i][2] \in T /\ \E j \in 1..i : u[j] = Judge
             /\ u[i][1] = "judge" => u[i] = Judge /\ \A j \in 1..i : u[j][1] = "write" => u[j][2] = NearMissFile
  <2>1. CASE i > n
    BY <1>4, <2>1
  <2>2. CASE ~(i > n)
    <3>1. u[i] = s[i] /\ i \in 1..n /\ \A j \in 1..i : u[j] = s[j]
      BY <1>5, <2>2
    <3>2. QED
      BY <3>1, SMTT(30) DEF Body
  <2>3. QED
    BY <2>1, <2>2
<1>7. Body(u, T)
  BY <1>2, <1>6 DEF Body
<1>8. k \in 1..Len(u) /\ u[k] = Judge
  BY <1>2, <1>3
<1>9. QED
  BY <1>7, <1>8 DEF u, Judges

\* One more file, or all of them.
LEMMA ThenWrite ==
    ASSUME NEW T, NEW s, Body(s, T), Judges(s), NEW p \in T
    PROVE  Body(s \o <<Write(p)>>, T) /\ Judges(s \o <<Write(p)>>)
<1>1. <<Write(p)>> \in Seq(StepOf(T)) /\ \A i \in 1..Len(<<Write(p)>>) : <<Write(p)>>[i] = Write(p)
  BY DEF StepOf
<1>2. QED
  BY <1>1, ThenWrites DEF Write

LEMMA ThenWriteAll ==
    ASSUME NEW T, NEW s, Body(s, T), Judges(s), NEW paths \in Seq(T)
    PROVE  Body(s \o WriteAll(paths), T) /\ Judges(s \o WriteAll(paths))
<1>1. /\ WriteAll(paths) \in Seq(StepOf(T)) /\ Len(WriteAll(paths)) = Len(paths)
      /\ \A i \in 1..Len(paths) : WriteAll(paths)[i] = Write(paths[i]) /\ paths[i] \in T
  BY DEF WriteAll, StepOf
<1>2. QED
  BY <1>1, ThenWrites DEF Write

\* A program may judge, for the first time or when only near misses are written.
LEMMA ThenJudges ==
    ASSUME NEW T, NEW s, Body(s, T), \A i \in 1..Len(s) : s[i][1] = "write" => s[i][2] = NearMissFile
    PROVE  LET t == s \o <<Read("closes"), Read("filings"), Judge>> IN Body(t, T) /\ Judges(t)
<1> DEFINE w == <<Read("closes"), Read("filings"), Judge>>
           u == s \o w
           n == Len(s)
<1>1. s \in Seq(StepOf(T))
  BY DEF Body
<1>2. /\ w \in Seq(StepOf(T)) /\ Len(w) = 3
      /\ w[1] = Read("closes") /\ w[2] = Read("filings") /\ w[3] = Judge
  BY DEF StepOf, Source
<1> HIDE DEF w
<1>3. /\ u \in Seq(StepOf(T)) /\ n \in Nat /\ Len(u) = n + 3
      /\ \A i \in 1..n : u[i] = s[i]
      /\ \A i \in 1..n + 3 : i > n => i - n \in 1..3 /\ u[i] = w[i - n]
  <2>1. /\ u \in Seq(StepOf(T)) /\ n \in Nat /\ Len(u) = n + Len(w)
        /\ \A i \in 1..n : u[i] = s[i]
        /\ \A i \in 1..n + Len(w) : i > n => i - n \in 1..Len(w) /\ u[i] = w[i - n]
    BY <1>1, <1>2, Joined, ZenonT(60)
  <2>2. QED
    BY <1>2, <2>1
<1> HIDE DEF u
<1>4. ASSUME NEW i \in 1..Len(u), i > n
      PROVE  u[i] \in {Read("closes"), Read("filings"), Judge}
  <2>1. i - n \in 1..3 /\ u[i] = w[i - n]
    BY <1>3, <1>4
  <2>2. \A k \in 1..3 : w[k] \in {Read("closes"), Read("filings"), Judge}
    BY <1>2
  <2>3. QED
    BY <2>1, <2>2
<1>5. ASSUME NEW i \in 1..Len(u), ~(i > n)
      PROVE  u[i] = s[i] /\ i \in 1..n /\ \A j \in 1..i : u[j] = s[j] /\ j \in 1..n
  BY <1>3, <1>5
<1>6. \A j \in 1..Len(u) : u[j][1] = "write" => u[j][2] = NearMissFile
  BY <1>4, <1>5 DEF Judge, Read
<1>7. ASSUME NEW i \in 1..Len(u)
      PROVE  /\ u[i][1] # "log"
             /\ u[i][1] = "write" => u[i][2] \in T /\ \E j \in 1..i : u[j] = Judge
             /\ u[i][1] = "judge" => u[i] = Judge /\ \A j \in 1..i : u[j][1] = "write" => u[j][2] = NearMissFile
  <2>1. \A j \in 1..i : j \in 1..Len(u)
    BY <1>3
  <2>2. CASE i > n
    BY <1>4, <1>6, <2>1, <2>2 DEF Judge, Read
  <2>3. CASE ~(i > n)
    BY <1>5, <2>3 DEF Body
  <2>4. QED
    BY <2>2, <2>3
<1>8. Body(u, T)
  BY <1>3, <1>7 DEF Body
<1>9. n + 3 \in 1..Len(u) /\ u[n + 3] = Judge
  BY <1>2, <1>3
<1>10. QED
  BY <1>8, <1>9 DEF u, w, Judges

\* A program ends with its event, or without.
LEMMA ThenLog ==
    ASSUME NEW T, NEW s, Body(s, T), NEW quiet \in BOOLEAN
    PROVE  Tidy(s \o LogUnless(quiet), T)
<1> DEFINE w == LogUnless(quiet)
           u == s \o w
           n == Len(s)
<1>1. s \in Seq(StepOf(T))
  BY DEF Body
<1>2. w \in Seq(StepOf(T)) /\ Len(w) \in {0, 1} /\ (Len(w) = 1 => w[1] = Log)
  <2>1. CASE quiet
    BY <2>1 DEF LogUnless
  <2>2. CASE ~quiet
    BY <2>2 DEF StepOf, LogUnless
  <2>3. QED
    BY <2>1, <2>2
<1> HIDE DEF w
<1>3. /\ u \in Seq(StepOf(T)) /\ n \in Nat /\ Len(u) = n + Len(w)
      /\ \A i \in 1..n : u[i] = s[i]
      /\ \A i \in 1..n + Len(w) : i > n => i - n \in 1..Len(w) /\ u[i] = w[i - n]
  BY <1>1, <1>2, Joined
<1> HIDE DEF u
<1>4. ASSUME NEW i \in 1..Len(u), i > n
      PROVE  u[i] = Log /\ i = Len(u)
  BY <1>2, <1>3, <1>4
<1>5. ASSUME NEW i \in 1..Len(u), ~(i > n)
      PROVE  u[i] = s[i] /\ i \in 1..n /\ \A j \in 1..i : u[j] = s[j] /\ j \in 1..n
  BY <1>3, <1>5
<1>6. ASSUME NEW i \in 1..Len(u)
      PROVE  /\ u[i][1] = "log" => i = Len(u)
             /\ u[i][1] = "write" => u[i][2] \in T /\ \E j \in 1..i : u[j] = Judge
             /\ u[i][1] = "judge" => u[i] = Judge /\ \A j \in 1..i : u[j][1] = "write" => u[j][2] = NearMissFile
  <2>1. CASE i > n
    BY <1>4, <2>1 DEF Log
  <2>2. CASE ~(i > n)
    <3>1. u[i] = s[i] /\ i \in 1..n /\ \A j \in 1..i : u[j] = s[j]
      BY <1>5, <2>2
    <3>2. QED
      BY <3>1 DEF Body
  <2>3. QED
    BY <2>1, <2>2
<1>7. QED
  BY <1>3, <1>6 DEF Tidy, u, w

\* A program that judges once.
LEMMA JudgesOnce ==
    ASSUME NEW T, NEW s \in Seq(StepOf(T)), NEW k \in 1..Len(s), s[k] = Judge,
           \A i \in 1..Len(s) : i < k => s[i][1] = "read",
           \A i \in 1..Len(s) : i > k => s[i][1] # "judge" /\ (s[i][1] = "log" => i = Len(s))
    PROVE  /\ Tidy(s, T) /\ Judges(s)
           /\ (\A i \in 1..Len(s) : s[i][1] # "log") => Body(s, T)
<1>1. ASSUME NEW i \in 1..Len(s)
      PROVE  /\ s[i][1] = "log" => i = Len(s)
             /\ s[i][1] = "write" => s[i][2] \in T /\ \E j \in 1..i : s[j] = Judge
             /\ s[i][1] = "judge" => s[i] = Judge /\ \A j \in 1..i : s[j][1] = "write" => s[j][2] = NearMissFile
  <2>1. s[i] \in StepOf(T) /\ Len(s) \in Nat /\ i \in Nat /\ k \in Nat
    OBVIOUS
  <2>2. s[i][1] = "log" => i = Len(s)
    BY <2>1 DEF Judge
  <2>3. s[i][1] = "write" => s[i][2] \in T
    BY <2>1 DEF StepOf, Read, Judge, Log, Write
  <2>4. s[i][1] = "write" => k \in 1..i
    BY <2>1 DEF Judge
  <2>5. s[i][1] = "judge" => s[i] = Judge
    BY <2>1 DEF StepOf, Read, Log, Write
  <2>6. s[i][1] = "judge" => i = k
    BY <2>1
  <2>7. \A j \in 1..k : s[j][1] = "read" \/ s[j] = Judge
    BY <2>1
  <2>8. QED
    BY <2>2, <2>3, <2>4, <2>5, <2>6, <2>7 DEF Judge
<1>2. QED
  BY <1>1 DEF Tidy, Body, Judges

\* The programs that are short.
LEMMA ShortBodies ==
    ASSUME NEW T, NEW x \in Source, NEW y \in Source, NEW z \in Source
    PROVE  /\ Body(<<Read(x), Read(y), Judge>>, T) /\ Judges(<<Read(x), Read(y), Judge>>)
           /\ Body(<<Read(x), Read(y), Read(z), Judge>>, T) /\ Judges(<<Read(x), Read(y), Read(z), Judge>>)
           /\ \A p \in T : Body(<<Read(x), Read(y), Judge, Write(p)>>, T)
           /\ \A p \in T : Body(<<Read(x), Judge, Write(p)>>, T) /\ Judges(<<Read(x), Judge, Write(p)>>)
<1>1. Body(<<Read(x), Read(y), Judge>>, T) /\ Judges(<<Read(x), Read(y), Judge>>)
  <2> DEFINE s == <<Read(x), Read(y), Judge>>
  <2>1. s \in Seq(StepOf(T)) /\ Len(s) = 3 /\ s[1] = Read(x) /\ s[2] = Read(y) /\ s[3] = Judge
    BY DEF StepOf
  <2> HIDE DEF s
  <2>2. \A i \in 1..3 : i < 3 => s[i][1] = "read"
    BY <2>1 DEF Read
  <2>3. \A i \in 1..3 : s[i][1] # "log"
    BY <2>1 DEF Read, Judge
  <2>4. Body(s, T) /\ Judges(s)
    BY <2>1, <2>2, <2>3, JudgesOnce
  <2>5. QED
    BY <2>4 DEF s
<1>2. Body(<<Read(x), Read(y), Read(z), Judge>>, T) /\ Judges(<<Read(x), Read(y), Read(z), Judge>>)
  <2> DEFINE s == <<Read(x), Read(y), Read(z), Judge>>
  <2>1. /\ s \in Seq(StepOf(T)) /\ Len(s) = 4
        /\ s[1] = Read(x) /\ s[2] = Read(y) /\ s[3] = Read(z) /\ s[4] = Judge
    BY DEF StepOf
  <2> HIDE DEF s
  <2>2. \A i \in 1..4 : i < 4 => s[i][1] = "read"
    BY <2>1 DEF Read
  <2>3. \A i \in 1..4 : s[i][1] # "log"
    BY <2>1 DEF Read, Judge
  <2>4. Body(s, T) /\ Judges(s)
    BY <2>1, <2>2, <2>3, JudgesOnce
  <2>5. QED
    BY <2>4 DEF s
<1>3. ASSUME NEW p \in T PROVE Body(<<Read(x), Read(y), Judge, Write(p)>>, T)
  <2> DEFINE s == <<Read(x), Read(y), Judge, Write(p)>>
  <2>1. /\ s \in Seq(StepOf(T)) /\ Len(s) = 4
        /\ s[1] = Read(x) /\ s[2] = Read(y) /\ s[3] = Judge /\ s[4] = Write(p)
    BY DEF StepOf
  <2> HIDE DEF s
  <2>2. \A i \in 1..4 : (i < 3 => s[i][1] = "read") /\ (i > 3 => s[i][1] = "write")
    BY <2>1 DEF Read, Write
  <2>3. \A i \in 1..4 : s[i][1] # "log"
    BY <2>1 DEF Read, Judge, Write
  <2>4. Body(s, T)
    BY <2>1, <2>2, <2>3, JudgesOnce
  <2>5. QED
    BY <2>4 DEF s
<1>4. ASSUME NEW p \in T PROVE Body(<<Read(x), Judge, Write(p)>>, T) /\ Judges(<<Read(x), Judge, Write(p)>>)
  <2> DEFINE s == <<Read(x), Judge, Write(p)>>
  <2>1. /\ s \in Seq(StepOf(T)) /\ Len(s) = 3
        /\ s[1] = Read(x) /\ s[2] = Judge /\ s[3] = Write(p)
    BY DEF StepOf
  <2> HIDE DEF s
  <2>2. \A i \in 1..3 : (i < 2 => s[i][1] = "read") /\ (i > 2 => s[i][1] = "write")
    BY <2>1 DEF Read, Write
  <2>3. \A i \in 1..3 : s[i][1] # "log"
    BY <2>1 DEF Read, Judge, Write
  <2>4. Body(s, T) /\ Judges(s)
    BY <2>1, <2>2, <2>3, JudgesOnce
  <2>5. QED
    BY <2>4 DEF s
<1>5. QED
  BY <1>1, <1>2, <1>3, <1>4

LEMMA ShortPrograms ==
    ASSUME NEW T, NEW x \in Source, NEW y \in Source, NEW z \in Source, NEW p \in T
    PROVE  /\ Tidy(<<Read(x), Read(y), Read(z), Judge, Write(p)>>, T)
           /\ Tidy(<<Read(x), Read(y), Judge, Read(z), Write(p)>>, T)
           /\ Tidy(<<Read(x), Read(y), Judge, Write(p), Log>>, T)
<1>1. Tidy(<<Read(x), Read(y), Read(z), Judge, Write(p)>>, T)
  <2> DEFINE s == <<Read(x), Read(y), Read(z), Judge, Write(p)>>
  <2>1. /\ s \in Seq(StepOf(T)) /\ Len(s) = 5
        /\ s[1] = Read(x) /\ s[2] = Read(y) /\ s[3] = Read(z) /\ s[4] = Judge /\ s[5] = Write(p)
    BY DEF StepOf
  <2> HIDE DEF s
  <2>2. \A i \in 1..5 : (i < 4 => s[i][1] = "read") /\ (i > 4 => s[i][1] = "write")
    BY <2>1 DEF Read, Write
  <2>3. Tidy(s, T)
    BY <2>1, <2>2, JudgesOnce
  <2>4. QED
    BY <2>3 DEF s
<1>2. Tidy(<<Read(x), Read(y), Judge, Read(z), Write(p)>>, T)
  <2> DEFINE s == <<Read(x), Read(y), Judge, Read(z), Write(p)>>
  <2>1. /\ s \in Seq(StepOf(T)) /\ Len(s) = 5
        /\ s[1] = Read(x) /\ s[2] = Read(y) /\ s[3] = Judge /\ s[4] = Read(z) /\ s[5] = Write(p)
    BY DEF StepOf
  <2> HIDE DEF s
  <2>2. \A i \in 1..5 : (i < 3 => s[i][1] = "read") /\ (i > 3 => s[i][1] \in {"read", "write"})
    BY <2>1 DEF Read, Write
  <2>3. Tidy(s, T)
    BY <2>1, <2>2, JudgesOnce
  <2>4. QED
    BY <2>3 DEF s
<1>3. Tidy(<<Read(x), Read(y), Judge, Write(p), Log>>, T)
  <2> DEFINE s == <<Read(x), Read(y), Judge, Write(p), Log>>
  <2>1. /\ s \in Seq(StepOf(T)) /\ Len(s) = 5
        /\ s[1] = Read(x) /\ s[2] = Read(y) /\ s[3] = Judge /\ s[4] = Write(p) /\ s[5] = Log
    BY DEF StepOf
  <2> HIDE DEF s
  <2>2. \A i \in 1..5 : /\ i < 3 => s[i][1] = "read"
                        /\ i > 3 => s[i][1] # "judge" /\ (s[i][1] = "log" => i = 5)
    BY <2>1 DEF Read, Write, Log
  <2>3. Tidy(s, T)
    BY <2>1, <2>2, JudgesOnce, SMTT(30)
  <2>4. QED
    BY <2>3 DEF s
<1>4. QED
  BY <1>1, <1>2, <1>3

\* A program that judges, reads on and judges again.
LEMMA JudgesTwice ==
    ASSUME NEW T, NEW p \in T, NEW x \in Source, NEW y \in Source, NEW z \in Source
    PROVE  Tidy(<<Read(x), Read(y), Judge, Read(z), Judge, Write(p)>>, T)
<1> DEFINE s == <<Read(x), Read(y), Judge, Read(z), Judge, Write(p)>>
<1>1. /\ s \in Seq(StepOf(T)) /\ Len(s) = 6 /\ s[1] = Read(x) /\ s[2] = Read(y) /\ s[3] = Judge
      /\ s[4] = Read(z) /\ s[5] = Judge /\ s[6] = Write(p)
  BY DEF StepOf
<1> HIDE DEF s
<1>2. \A i \in 1..6 : i < 6 => s[i][1] \in {"read", "judge"} /\ (s[i][1] = "judge" => s[i] = Judge)
  BY <1>1 DEF Read, Judge
<1>3. s[6][1] = "write" /\ s[6][2] = p
  BY <1>1 DEF Write
<1>4. ASSUME NEW i \in 1..6
      PROVE  /\ s[i][1] = "log" => i = 6
             /\ s[i][1] = "write" => s[i][2] \in T /\ \E j \in 1..i : s[j] = Judge
             /\ s[i][1] = "judge" => s[i] = Judge /\ \A j \in 1..i : s[j][1] = "write" => s[j][2] = NearMissFile
  <2>1. CASE i = 6
    BY <1>1, <1>3, <2>1
  <2>2. CASE i # 6
    <3>1. i < 6 /\ \A j \in 1..i : j \in 1..6 /\ j < 6
      BY <2>2
    <3>2. QED
      BY <1>2, <3>1
  <2>3. QED
    BY <2>1, <2>2
<1>5. QED
  BY <1>1, <1>4 DEF Tidy, s

LEMMA ScreenTidy ==
    ASSUME NEW T, NEW f, <<"gate_results", f>> \in T, <<"screening_metrics", f>> \in T
    PROVE  Tidy(ScreenReads(f) \o ScreenWrites(f), T)
<1> DEFINE s == ScreenReads(f)
           w == ScreenWrites(f)
           u == s \o w
           n == Len(s)
<1>1. s \in Seq(StepOf(T)) /\ \A i \in 1..n : s[i][1] = "read"
  <2>1. CASE f \in Fundamental
    BY <2>1 DEF ScreenReads, StepOf, Source, Read
  <2>2. CASE f \notin Fundamental
    BY <2>2 DEF ScreenReads, StepOf, Source, Read
  <2>3. QED
    BY <2>1, <2>2
<1>2. /\ w \in Seq(StepOf(T)) /\ Len(w) = 4 /\ w[1] = Judge /\ w[4] = Log
      /\ w[2] = Write(<<"gate_results", f>>) /\ w[3] = Write(<<"screening_metrics", f>>)
  BY DEF ScreenWrites, StepOf
<1> HIDE DEF s, w
<1>3. /\ u \in Seq(StepOf(T)) /\ n \in Nat /\ Len(u) = n + Len(w)
      /\ \A i \in 1..n : u[i] = s[i]
      /\ \A i \in 1..n + Len(w) : i > n => i - n \in 1..Len(w) /\ u[i] = w[i - n]
  BY <1>1, <1>2, Joined, ZenonT(60)
<1> HIDE DEF u
<1>4. Len(u) = n + 4 /\ n + 1 \in 1..Len(u) /\ u[n + 1] = Judge
  <2>1. Len(u) = n + 4 /\ n + 1 \in 1..n + Len(w) /\ n + 1 > n /\ n + 1 - n = 1
    BY <1>2, <1>3
  <2>2. u[n + 1] = w[1]
    BY <1>3, <2>1
  <2>3. QED
    BY <1>2, <2>1, <2>2
<1>5. ASSUME NEW i \in 1..Len(u)
      PROVE  \/ u[i][1] = "read"
             \/ i = n + 1 /\ u[i] = Judge
             \/ i > n + 1 /\ u[i] \in {Write(<<"gate_results", f>>), Write(<<"screening_metrics", f>>)}
             \/ i = Len(u) /\ u[i] = Log
  <2>1. CASE i > n
    <3>1. i - n \in 1..4 /\ u[i] = w[i - n]
      BY <1>2, <1>3, <2>1
    <3>2. CASE i - n \in {1, 4}
      BY <1>2, <1>3, <1>4, <3>1, <3>2
    <3>3. CASE i - n \in {2, 3}
      BY <1>2, <1>3, <1>4, <3>1, <3>3
    <3>4. QED
      BY <3>1, <3>2, <3>3
  <2>2. CASE ~(i > n)
    BY <1>1, <1>3, <2>2, SMTT(30)
  <2>3. QED
    BY <2>1, <2>2
<1>6. ASSUME NEW i \in 1..Len(u)
      PROVE  /\ u[i][1] = "log" => i = Len(u)
             /\ u[i][1] = "write" => u[i][2] \in T /\ \E j \in 1..i : u[j] = Judge
             /\ u[i][1] = "judge" => u[i] = Judge /\ \A j \in 1..i : u[j][1] = "write" => u[j][2] = NearMissFile
  <2>1. u[i][1] = "log" => i = Len(u)
    BY <1>5 DEF Judge, Write
  <2>2. u[i][1] = "write" => u[i][2] \in T /\ i > n + 1
    BY <1>5 DEF Judge, Write, Log
  <2>3. u[i][1] = "judge" => u[i] = Judge /\ i = n + 1
    BY <1>5 DEF Judge, Write, Log
  <2>4. \A j \in 1..i : j \in 1..Len(u) /\ (i = n + 1 => ~(j > n + 1) /\ (j = Len(u) => FALSE))
    BY <1>3, <1>4
  <2>5. i = n + 1 => \A j \in 1..i : u[j][1] # "write"
    BY <1>5, <2>4 DEF Judge, Write, Log
  <2>6. i > n + 1 => n + 1 \in 1..i
    BY <1>3
  <2>7. QED
    BY <1>4, <2>1, <2>2, <2>3, <2>5, <2>6
<1>7. QED
  BY <1>3, <1>6 DEF Tidy, u, s, w

\* The files of the battery.
LEMMA BatteryNames ==
    \A p \in BatteryFiles :
        p[1] \in {"near_miss", "coverage", "correlations", "sign_flip"}
<1>1. ASSUME NEW p \in {"coverage"} \X {"matrix", "jaccard", "summary"} PROVE p[1] = "coverage"
  OBVIOUS
<1>2. ASSUME NEW p \in {"correlations"} \X {"scores", "returns", "summary"} PROVE p[1] = "correlations"
  OBVIOUS
<1>3. ASSUME NEW p \in {<<"near_miss", "">>, <<"sign_flip", "">>} PROVE p[1] \in {"near_miss", "sign_flip"}
  <2>1. <<"near_miss", "">>[1] = "near_miss" /\ <<"sign_flip", "">>[1] = "sign_flip"
    OBVIOUS
  <2>2. QED
    BY <2>1
<1>4. QED
  BY <1>1, <1>2, <1>3 DEF BatteryFiles

\* The battery judges the near misses and what it makes of the panels.
LEMMA BatteryTidy ==
    ASSUME NEW a \in Call, a.script = "battery"
    PROVE  Tidy(BatteryProgram(a.streams, a.quiet), Targets(a))
<1> DEFINE T == Targets(a)
           near == IF 1 \in a.streams THEN <<Read("results"), Judge, Write(NearMissFile)>> ELSE <<>>
           judged == near \o (IF a.streams = {1} THEN <<>> ELSE <<Read("closes"), Read("filings"), Judge>>)
           All(s, stream, paths) == s \o (IF stream \in a.streams THEN WriteAll(paths) ELSE <<>>)
           two == All(judged, 2, CoverageFiles)
           three == All(two, 3, CorrelationFiles)
           five == three \o (IF 5 \in a.streams THEN <<Write(<<"sign_flip", "">>)>> ELSE <<>>)
<1>1. /\ {NearMissFile, <<"sign_flip", "">>} \subseteq T
      /\ CoverageFiles \in Seq(T) /\ CorrelationFiles \in Seq(T)
  <2>1. T = BatteryFiles
    BY DEF Targets
  <2>2. {NearMissFile, <<"sign_flip", "">>} \subseteq BatteryFiles
    BY DEF NearMissFile, BatteryFiles
  <2>3. /\ {<<"coverage", "matrix">>, <<"coverage", "jaccard">>, <<"coverage", "summary">>} \subseteq BatteryFiles
        /\ {<<"correlations", "scores">>, <<"correlations", "returns">>, <<"correlations", "summary">>} \subseteq BatteryFiles
    BY DEF BatteryFiles
  <2>4. CoverageFiles \in Seq(BatteryFiles) /\ CorrelationFiles \in Seq(BatteryFiles)
    BY <2>3 DEF CoverageFiles, CorrelationFiles
  <2>5. QED
    BY <2>1, <2>2, <2>4
<1> HIDE DEF T
<1>2. Body(near, T) /\ \A i \in 1..Len(near) : near[i][1] = "write" => near[i][2] = NearMissFile
  <2>1. CASE 1 \in a.streams
    <3>1. near = <<Read("results"), Judge, Write(NearMissFile)>>
      BY <2>1
    <3>2. Body(near, T)
      BY <1>1, <3>1, ShortBodies DEF Source
    <3>3. Len(near) = 3 /\ near[1] = Read("results") /\ near[2] = Judge /\ near[3] = Write(NearMissFile)
      BY <3>1
    <3> HIDE DEF near
    <3>4. \A i \in 1..3 : near[i][1] = "write" => near[i][2] = NearMissFile
      BY <3>3 DEF Read, Judge, Write
    <3>5. QED
      BY <3>2, <3>3, <3>4
  <2>2. CASE 1 \notin a.streams
    BY <2>2 DEF Body
  <2>3. QED
    BY <2>1, <2>2
<1>3. 1 \in a.streams => Judges(near)
  BY <1>1, ShortBodies DEF Source
<1>4. ASSUME NEW s, Body(s, T) PROVE s \o <<>> = s
  BY <1>4 DEF Body
<1>5. Body(judged, T) /\ Judges(judged)
  <2> HIDE DEF near
  <2>1. CASE a.streams = {1}
    BY <1>2, <1>3, <1>4, <2>1
  <2>2. CASE a.streams # {1}
    BY <1>2, <2>2, ThenJudges
  <2>3. QED
    BY <2>1, <2>2
<1>6. ASSUME NEW s, Body(s, T), Judges(s), NEW stream, NEW paths \in Seq(T)
      PROVE  Body(All(s, stream, paths), T) /\ Judges(All(s, stream, paths))
  BY <1>4, <1>6, ThenWriteAll
<1>7. Body(five, T)
  <2> HIDE DEF judged, All
  <2>1. Body(two, T) /\ Judges(two)
    BY <1>1, <1>5, <1>6
  <2> HIDE DEF two
  <2>2. Body(three, T) /\ Judges(three)
    BY <1>1, <1>6, <2>1
  <2> HIDE DEF three
  <2>3. QED
    BY <1>1, <1>4, <2>2, ThenWrite
<1>8. Tidy(five \o LogUnless(a.quiet), T)
  <2> HIDE DEF five
  <2>1. a.quiet \in BOOLEAN
    BY DEF Call
  <2>2. QED
    BY <1>7, <2>1, ThenLog
<1>9. QED
  BY <1>8 DEF BatteryProgram, T, NearMissFile, All, judged, near, two, three, five

\* Every script writes only what it has judged, in files of its own, and logs at the end
\* if at all.
LEMMA ProgramTidy == \A a \in Call : Tidy(Program(a), Targets(a))
<1> SUFFICES ASSUME NEW a \in Call PROVE Tidy(Program(a), Targets(a))
  OBVIOUS
<1>1. a.script \in Script /\ a.quiet \in BOOLEAN
  BY DEF Call
<1>2. {"closes", "filings", "spy", "gates", "frozen", "results", "notes", "text"} = Source
  BY DEF Source
<1>3. CASE a.script = "screen_factor"
  BY <1>3, ScreenTidy DEF Program, Targets
<1>4. CASE a.script = "rescreen_v2"
  <2> DEFINE paths == [i \in DOMAIN Active |-> <<"gate_results_v2", Active[i]>>]
             s == <<Read("gates"), Read("closes"), Read("filings"), Judge>>
  <2>1. paths \in Seq(Targets(a))
    BY <1>4, ScriptAssumption DEF Targets, ActiveSet
  <2>2. Body(s, Targets(a)) /\ Judges(s)
    BY <1>2, ShortBodies
  <2> HIDE DEF s, paths
  <2>3. Body(s \o WriteAll(paths), Targets(a))
    BY <2>1, <2>2, ThenWriteAll
  <2>4. Tidy(s \o WriteAll(paths) \o LogUnless(a.quiet), Targets(a))
    BY <1>1, <2>3, ThenLog
  <2>5. QED
    BY <1>4, <2>4 DEF Program, RescreenProgram, s, paths
<1>5. CASE a.script = "workstream_a"
  BY <1>2, <1>5, ShortPrograms, ZenonT(60) DEF Program, WorkstreamAProgram, Targets
<1>6. CASE a.script = "workstream_d"
  BY <1>2, <1>6, JudgesTwice, ZenonT(60) DEF Program, WorkstreamDProgram, Targets
<1>7. CASE a.script = "ensemble_g0"
  BY <1>2, <1>7, ShortPrograms, ZenonT(60) DEF Program, EnsembleG0Program, Targets
<1>8. CASE a.script \in {"phase3", "romano_wolf", "bootstrap", "high52w"}
  <2>1. PICK p \in Targets(a) :
          Program(a) = <<Read("closes"), Read("filings"), Judge, Write(p)>> \o LogUnless(a.quiet)
    BY <1>8 DEF Program, Phase3Program, RomanoWolfProgram, BootstrapProgram, High52wProgram, Targets
  <2>2. Body(<<Read("closes"), Read("filings"), Judge, Write(p)>>, Targets(a))
    BY <1>2, ShortBodies, ZenonT(60)
  <2>3. QED
    BY <1>1, <2>1, <2>2, ThenLog
<1>9. CASE a.script = "robustness"
  <2> DEFINE T == Targets(a)
             knobs == [i \in 1..4 |-> <<"v3", i>>]
             left == [i \in DOMAIN Active |-> <<"v4", Active[i]>>]
             s == <<Read("closes"), Read("filings"), Judge>>
  <2>1. knobs \in Seq(T) /\ left \in Seq(T) /\ <<"robustness", "">> \in T
    <3>1. T = {<<"v3", i>> : i \in 1..4} \cup {<<"v4", f>> : f \in ActiveSet} \cup {<<"robustness", "">>}
      BY <1>9 DEF Targets
    <3>2. /\ \A i \in 1..4 : <<"v3", i>> \in T
          /\ \A f \in ActiveSet : <<"v4", f>> \in T
      BY <3>1
    <3> HIDE DEF T
    <3>3. knobs \in Seq(T)
      BY <3>2
    <3>4. left \in Seq(T)
      BY <3>2, ScriptAssumption DEF ActiveSet
    <3>5. QED
      BY <3>1, <3>3, <3>4
  <2>2. Body(s, T) /\ Judges(s)
    BY <1>2, ShortBodies
  <2> HIDE DEF T, knobs, left, s
  <2>3. Body(s \o WriteAll(knobs), T) /\ Judges(s \o WriteAll(knobs))
    BY <2>1, <2>2, ThenWriteAll
  <2>4. Body(s \o WriteAll(knobs) \o WriteAll(left), T) /\ Judges(s \o WriteAll(knobs) \o WriteAll(left))
    BY <2>1, <2>3, ThenWriteAll
  <2>5. Body(s \o WriteAll(knobs) \o WriteAll(left) \o <<Write(<<"robustness", "">>)>>, T)
    BY <2>1, <2>4, ThenWrite
  <2>6. Tidy(s \o WriteAll(knobs) \o WriteAll(left) \o <<Write(<<"robustness", "">>)>> \o LogUnless(a.quiet), T)
    BY <1>1, <2>5, ThenLog
  <2>7. QED
    BY <1>9, <2>6 DEF Program, RobustnessProgram, T, knobs, left, s
<1>10. CASE a.script = "battery"
  BY <1>10, BatteryTidy DEF Program
<1>11. CASE a.script = "tracker"
  BY <1>2, <1>11, ShortPrograms, ZenonT(60) DEF Program, TrackerProgram, Targets, Tracker
<1>12. QED
  BY <1>1, <1>3, <1>4, <1>5, <1>6, <1>7, <1>8, <1>9, <1>10, <1>11 DEF Script

-----------------------------------------------------------------------------
(***************************************************************************)
(* Verdicts.                                                               *)
(***************************************************************************)

\* An artefact for file p that passes on two returns at least.
GoodArtefact(p, x) ==
    /\ x = [verdict |-> x.verdict, periods |-> x.periods, rows |-> x.rows]
    /\ x.verdict \in {"PASS", "FAIL", "INDETERMINATE", "NONE"} /\ x.periods \in Nat
    /\ x.verdict = "PASS" /\ p[1] # "romano_wolf" => x.periods > 1

\* The rows of the tracker, one for each forecast.
IsRows(rows) == rows = [f \in Seeds |-> [outcome |-> rows[f].outcome, note |-> rows[f].note]]

\* What a call may write; the near misses have no verdict.
GoodMade(a, made) ==
    \A p \in Targets(a) :
        /\ p \in DOMAIN made /\ GoodArtefact(p, made[p])
        /\ p = NearMissFile => made[p].verdict = "NONE"
        /\ p = Tracker => IsRows(made[p].rows)

LEMMA ArtefactGood ==
    ASSUME NEW p, NEW verdict \in {"PASS", "FAIL", "INDETERMINATE", "NONE"}, NEW n \in Nat, NEW rows,
           verdict = "PASS" /\ p[1] # "romano_wolf" => n > 1
    PROVE  GoodArtefact(p, Artefact(verdict, n, rows)) /\ Artefact(verdict, n, rows).verdict = verdict
  BY DEF GoodArtefact, Artefact

LEMMA NoVerdictGood ==
    \A p, rows : \A n \in Nat :
        GoodArtefact(p, Artefact("NONE", n, rows)) /\ Artefact("NONE", n, rows).verdict = "NONE"
  BY ArtefactGood

\* Returns are counted on rebalance days.
LEMMA DaysCounted ==
    ASSUME NEW days \in SUBSET Friday
    PROVE  Cardinality(days) \in Nat /\ Cardinality(days) <= Cardinality(Friday) /\ Cardinality(Friday) \in Nat
  BY BoundAssumption, FS_Subset, FS_CardinalityType

LEMMA PeriodsCounted == \A panel, labels : Periods(panel, labels) \in Nat
  BY DaysCounted DEF Periods, LongShortDays

\* Too few returns have a permutation p of 1, which the gate does not pass.
LEMMA GatesNeedReturns ==
    ASSUME NEW panel, NEW labels, NEW existing, NEW flaws, NEW config,
           "G1" \in DOMAIN config, config["G1"] = Gate("permutation_p", "<", 50),
           EvaluateFactorGates(ScreenMetrics(panel, labels, existing, flaws), config)
    PROVE  Periods(panel, labels) > 1
<1> DEFINE metrics == ScreenMetrics(panel, labels, existing, flaws)
           p == metrics["permutation_p"]
<1>1. Passes(p, Gate("permutation_p", "<", 50))
  BY DEF EvaluateFactorGates, Gate
<1>2. p # 1000
  <2>1. ~(1000 < 50)
    OBVIOUS
  <2>2. QED
    BY <1>1, <2>1 DEF Passes, Gate
<1>3. ~(Cardinality(LongShortDays(panel, labels, Quantiles)) > 1) => p = 1000
  BY DEF ScreenMetrics
<1>4. QED
  BY <1>2, <1>3 DEF Periods

LEMMA GatesOfScreens ==
    /\ "G1" \in DOMAIN DEFAULT_GATE_CONFIG /\ DEFAULT_GATE_CONFIG["G1"] = Gate("permutation_p", "<", 50)
    /\ \A g : "G1" \in DOMAIN V2Gates(g) /\ V2Gates(g)["G1"] = Gate("permutation_p", "<", 50)
  BY DEF DEFAULT_GATE_CONFIG, V2Gates

\* So a screen passes on two returns at least, whichever gates of the two it applies.
LEMMA ScreenGood ==
    ASSUME NEW p, NEW panel, NEW labels, NEW existing, NEW flaws, NEW rows,
           NEW config \in {DEFAULT_GATE_CONFIG, V2Gates("frozen"), V2Gates("edited")}, NEW more \in BOOLEAN
    PROVE  LET passed == EvaluateFactorGates(ScreenMetrics(panel, labels, existing, flaws), config)
           IN  /\ GoodArtefact(p, Artefact(PassIf(passed /\ more), Periods(panel, labels), rows))
               /\ GoodArtefact(p, Artefact(PassIf(passed), Periods(panel, labels), rows))
<1> DEFINE passed == EvaluateFactorGates(ScreenMetrics(panel, labels, existing, flaws), config)
<1>1. passed => Periods(panel, labels) > 1
  BY GatesOfScreens, GatesNeedReturns
<1> HIDE DEF passed
<1>2. \A x \in {passed, passed /\ more} :
        PassIf(x) \in {"PASS", "FAIL"} /\ (PassIf(x) = "PASS" => passed)
  BY DEF PassIf
<1>3. /\ GoodArtefact(p, Artefact(PassIf(passed /\ more), Periods(panel, labels), rows))
      /\ GoodArtefact(p, Artefact(PassIf(passed), Periods(panel, labels), rows))
  BY <1>1, <1>2, PeriodsCounted, ArtefactGood
<1>4. QED
  BY <1>3 DEF passed

\* The smallest and the largest of some numbers.
LEMMA LeastIsElement ==
    ASSUME NEW S \in SUBSET Nat, S # {}
    PROVE  Min(S) \in S
<1>1. PICK x \in S : \A y \in S : ~(<<y, x>> \in OpToRel(<, Nat))
  BY NatLessThanWellFounded, WFMin, Zenon
<1>2. \A y \in S : ~(y < x)
  BY <1>1 DEF OpToRel
<1>3. \A y \in S : x <= y
  BY <1>2
<1>4. QED
  BY <1>3 DEF Min

LEMMA LargestIsLargest ==
    ASSUME NEW n \in Nat, NEW S \in SUBSET (0..n), S # {}
    PROVE  Max(S) \in S /\ \A y \in S : y <= Max(S)
<1> DEFINE T == {n - i : i \in S}
<1>1. \A i \in S : i \in Int /\ n - i \in Nat
  OBVIOUS
<1>2. T \in SUBSET Nat /\ T # {}
  BY <1>1
<1>3. PICK x \in T : \A y \in T : ~(<<y, x>> \in OpToRel(<, Nat))
  <2> HIDE DEF T
  <2>1. QED
    BY <1>2, NatLessThanWellFounded, WFMin, Zenon
<1>4. PICK i \in S : x = n - i
  OBVIOUS
<1>5. \A j \in S : ~(n - j < n - i)
  BY <1>2, <1>3, <1>4 DEF OpToRel
<1>6. \A j \in S : j <= i
  BY <1>1, <1>5
<1>7. Max(S) \in S /\ \A y \in S : Max(S) >= y
  BY <1>1, <1>6 DEF Max
<1>8. QED
  BY <1>1, <1>7

LEMMA ScreenMakesGood ==
    ASSUME NEW a, a.script = "screen_factor", NEW seen, NEW flaws
    PROVE  GoodMade(a, ScreenMakes(seen, a.factor, flaws))
<1> DEFINE f == a.factor
           T == {<<"gate_results", f>>, <<"screening_metrics", f>>}
           made == ScreenMakes(seen, f, flaws)
<1>1. Targets(a) = T
  BY DEF Targets
<1>2. ASSUME NEW p \in T
      PROVE  p \in DOMAIN made /\ GoodArtefact(p, made[p])
  <2>1. PICK rows :
          made[p] = Artefact(PassIf(EvaluateFactorGates(ScreenMetrics(seen.panels[f], seen.labels, NoFactors, flaws),
                                                        DEFAULT_GATE_CONFIG)),
                             Periods(seen.panels[f], seen.labels), rows)
    BY DEF ScreenMakes
  <2>2. QED
    BY <2>1, ScreenGood DEF ScreenMakes
<1>3. \A p \in T : p # NearMissFile /\ p # Tracker
  <2>1. \A p \in T : p[1] \in {"gate_results", "screening_metrics"}
    OBVIOUS
  <2> HIDE DEF T
  <2>2. NearMissFile[1] = "near_miss" /\ Tracker[1] = "tracker"
    BY DEF NearMissFile, Tracker
  <2>3. QED
    BY <2>1, <2>2
<1>4. QED
  BY <1>1, <1>2, <1>3 DEF GoodMade

LEMMA RescreenMakesGood ==
    ASSUME NEW a, a.script = "rescreen_v2", NEW seen, NEW gs \in {"frozen", "edited"}, NEW flaws
    PROVE  GoodMade(a, RescreenMakes(seen, gs, flaws))
<1> DEFINE T == {<<"gate_results_v2", f>> : f \in ActiveSet}
           made == RescreenMakes(seen, gs, flaws)
<1>1. Targets(a) = T
  BY DEF Targets
<1>2. ASSUME NEW p \in T
      PROVE  p \in DOMAIN made /\ GoodArtefact(p, made[p])
  <2> DEFINE f == p[2]
             existing == Others(ActivePanels(seen), f)
  <2>1. p \in DOMAIN made
    BY DEF RescreenMakes
  <2>2. PICK rows :
          made[p] = Artefact(PassIf(EvaluateFactorGates(ScreenMetrics(seen.panels[f], seen.labels, existing, flaws),
                                                        V2Gates(gs))),
                             Periods(seen.panels[f], seen.labels), rows)
    BY DEF RescreenMakes
  <2>3. QED
    BY <2>1, <2>2, ScreenGood, ZenonT(60)
<1>3. \A p \in T : p # NearMissFile /\ p # Tracker
  <2>1. \A p \in T : p[1] = "gate_results_v2"
    OBVIOUS
  <2> HIDE DEF T
  <2>2. NearMissFile[1] = "near_miss" /\ Tracker[1] = "tracker"
    BY DEF NearMissFile, Tracker
  <2>3. QED
    BY <2>1, <2>2
<1>4. QED
  BY <1>1, <1>2, <1>3 DEF GoodMade

LEMMA WorkstreamAMakesGood ==
    ASSUME NEW a, a.script = "workstream_a", NEW seen, NEW flaws,
           WorkstreamAMakes(seen, a.factor, flaws) # GivesUp
    PROVE  GoodMade(a, WorkstreamAMakes(seen, a.factor, flaws))
<1> DEFINE f == a.factor
           p == <<"workstream_a", f>>
           va7 == Verdict(VA7(seen.panels[f], ActivePanels(seen), seen.labels, flaws), "<", 500)
           metrics == ScreenMetrics(seen.panels[f], seen.labels, ActivePanels(seen), flaws)
           x == Artefact(PassIf(EvaluateFactorGates(metrics, V2Gates("frozen")) /\ va7 = "PASS"),
                         Periods(seen.panels[f], seen.labels), metrics)
<1>1. Targets(a) = {p}
  BY DEF Targets
<1>2. WorkstreamAMakes(seen, f, flaws) = Leaves(p, x)
  BY DEF WorkstreamAMakes
<1>3. GoodArtefact(p, x)
  BY ScreenGood, ZenonT(60)
<1>4. p # NearMissFile /\ p # Tracker
  BY DEF NearMissFile, Tracker
<1> HIDE DEF p, x
<1>5. QED
  BY <1>1, <1>2, <1>3, <1>4 DEF GoodMade, Leaves

\* An artefact alone, which is neither the near misses nor the tracker.
LEMMA OneGood ==
    ASSUME NEW a, NEW p, Targets(a) = {p}, p # NearMissFile, p # Tracker, NEW x, GoodArtefact(p, x)
    PROVE  GoodMade(a, Leaves(p, x))
  BY DEF GoodMade, Leaves

LEMMA WorkstreamDMakesGood ==
    ASSUME NEW a, a.script = "workstream_d", NEW seen, NEW spyRead, NEW flaws,
           WorkstreamDMakes(seen, spyRead, flaws) # GivesUp
    PROVE  GoodMade(a, WorkstreamDMakes(seen, spyRead, flaws))
<1> DEFINE p == <<"workstream_d", "">>
           days == LongShortDays(seen.shuffled[Active[1]], seen.labels, Quantiles)
           verdicts == WorkstreamDVerdicts(seen, days, flaws)
           x == Artefact(Worst(verdicts), Cardinality(days), verdicts)
<1>1. Targets(a) = {p} /\ p # NearMissFile /\ p # Tracker
  BY DEF Targets, NearMissFile, Tracker
<1>2. WorkstreamDMakes(seen, spyRead, flaws) = Leaves(p, x) /\ ~(Cardinality(days) < 2)
  BY DEF WorkstreamDMakes
<1>3. Cardinality(days) \in Nat
  BY DaysCounted DEF LongShortDays
<1>4. Worst(verdicts) \in {"PASS", "FAIL", "INDETERMINATE"}
  BY DEF Worst
<1>5. GoodArtefact(p, x)
  <2> HIDE DEF days, verdicts
  <2>1. Cardinality(days) > 1
    <3>1. \A c \in Nat : ~(c < 2) => c > 1
      OBVIOUS
    <3>2. QED
      BY <1>2, <1>3, <3>1
  <2>2. QED
    BY <1>3, <1>4, <2>1, ArtefactGood
<1>6. QED
  BY <1>1, <1>2, <1>5, OneGood

LEMMA EnsembleMakesGood ==
    ASSUME NEW a, a.script = "ensemble_g0", NEW seen, NEW flaws, EnsembleG0Makes(seen, flaws) # GivesUp
    PROVE  GoodMade(a, EnsembleG0Makes(seen, flaws))
<1> DEFINE p == <<"ensemble_g0", "">>
           panels == RegistryPanels(seen)
           scores == EnsembleScores(panels, Ones(DOMAIN panels), 1)
           n == Periods(scores, seen.labels)
           has == Summary(scores, seen.labels, flaws).has
           x == Artefact("NONE", n, has)
<1>1. Targets(a) = {p} /\ p # NearMissFile /\ p # Tracker
  BY DEF Targets, NearMissFile, Tracker
<1>2. EnsembleG0Makes(seen, flaws) = Leaves(p, x)
  BY DEF EnsembleG0Makes
<1>3. GoodArtefact(p, x)
  <2>1. n \in Nat
    BY PeriodsCounted
  <2> HIDE DEF n, has
  <2>2. QED
    BY <2>1, ArtefactGood
<1> HIDE DEF x
<1>4. QED
  BY <1>1, <1>2, <1>3, OneGood

LEMMA Phase3MakesGood ==
    ASSUME NEW a, a.script = "phase3", NEW seen, NEW flaws, Phase3Makes(seen, flaws) # GivesUp
    PROVE  GoodMade(a, Phase3Makes(seen, flaws))
<1> DEFINE p == <<"phase3", "">>
           panels == ShuffledPanels(seen)
           scores == V2Ensemble(panels, Coverage)
           n == Periods(scores, seen.labels)
           sharpe == Summary(scores, seen.labels, flaws).sharpe
           verdict == Verdict(sharpe, ">=", 500)
           x == Artefact(verdict, n, RhoPairs(panels, seen.labels))
<1>1. Targets(a) = {p} /\ p # NearMissFile /\ p # Tracker
  BY DEF Targets, NearMissFile, Tracker
<1>2. Phase3Makes(seen, flaws) = Leaves(p, x)
  BY DEF Phase3Makes
<1>3. n \in Nat
  BY PeriodsCounted
<1>4. ~(n > 1) => sharpe \in {0, NaN}
  <2>1. sharpe = IF n = 0 THEN NaN ELSE SharpeRatio(n, flaws)
    BY DEF Summary
  <2> HIDE DEF n, sharpe
  <2>2. QED
    BY <1>3, <2>1 DEF SharpeRatio
<1>5. \A v \in {0, NaN} : Verdict(v, ">=", 500) # "PASS"
  BY DEF Verdict, PassIf, Passes, Gate, NaN
<1>6. verdict \in {"PASS", "FAIL", "INDETERMINATE"}
  BY DEF Verdict, PassIf
<1>7. GoodArtefact(p, x)
  <2>1. verdict = "PASS" => n > 1
    <3> HIDE DEF n, sharpe
    <3>1. QED
      BY <1>4, <1>5
  <2> HIDE DEF n, verdict
  <2>2. QED
    BY <1>3, <1>6, <2>1, ArtefactGood, ZenonT(60)
<1> HIDE DEF x
<1>8. QED
  BY <1>1, <1>2, <1>7, OneGood

LEMMA RomanoWolfMakesGood ==
    ASSUME NEW a, a.script = "romano_wolf", NEW seen, NEW flaws, RomanoWolfMakes(seen, flaws) # GivesUp
    PROVE  GoodMade(a, RomanoWolfMakes(seen, flaws))
<1> DEFINE p == <<"romano_wolf", "">>
           panels == ShuffledPanels(seen)
           common == {t \in Friday : \A f \in ActiveSet : t \in LongShortDays(panels[f], seen.labels, Quantiles)}
           n == Cardinality(common)
           passed == Passes(AdjustedP(n, flaws), Gate("adjusted_p", "<", 50))
           x == Artefact(PassIf(passed), n, {})
<1>1. Targets(a) = {p} /\ p # NearMissFile /\ p # Tracker
  BY DEF Targets, NearMissFile, Tracker
<1>2. RomanoWolfMakes(seen, flaws) = Leaves(p, x)
  BY DEF RomanoWolfMakes
<1>3. n \in Nat
  BY DaysCounted
<1>4. GoodArtefact(p, x)
  <2> HIDE DEF n, passed
  <2>1. PassIf(passed) \in {"PASS", "FAIL"}
    BY DEF PassIf
  <2>2. QED
    BY <1>3, <2>1, ArtefactGood
<1>5. QED
  BY <1>1, <1>2, <1>4, OneGood

LEMMA BootstrapMakesGood ==
    ASSUME NEW a, a.script = "bootstrap", NEW seen, NEW flaws, BootstrapMakes(seen, flaws) # GivesUp
    PROVE  GoodMade(a, BootstrapMakes(seen, flaws))
<1> DEFINE p == <<"bootstrap", "">>
           n == Periods(V2Ensemble(ShuffledPanels(seen), Coverage), seen.labels)
           passed == Passes(BootstrapLower(n, flaws), Gate("ci_lower", ">=", 300))
           x == Artefact(PassIf(passed), n, {})
<1>1. Targets(a) = {p} /\ p # NearMissFile /\ p # Tracker
  BY DEF Targets, NearMissFile, Tracker
<1>2. BootstrapMakes(seen, flaws) = Leaves(p, x)
  BY DEF BootstrapMakes
<1>3. n \in Nat
  BY PeriodsCounted
<1>4. GoodArtefact(p, x)
  <2> HIDE DEF n
  <2>1. PassIf(passed) \in {"PASS", "FAIL"} /\ (PassIf(passed) = "PASS" => passed)
    BY DEF PassIf
  <2>2. passed => n > 1
    BY <1>3 DEF Passes, BootstrapLower
  <2> HIDE DEF passed
  <2>3. QED
    BY <1>3, <2>1, <2>2, ArtefactGood
<1>5. QED
  BY <1>1, <1>2, <1>4, OneGood, ZenonT(60)

\* The suite passes when no run of it lacks a Sharpe ratio, the one on the fewest returns
\* included.
LEMMA RobustnessMakesGood ==
    ASSUME NEW a, a.script = "robustness", NEW seen, NEW flaws, RobustnessMakes(seen, flaws) # GivesUp
    PROVE  GoodMade(a, RobustnessMakes(seen, flaws))
<1> DEFINE count3(i) == Cardinality(V3Days(seen, i))
           count4(f) == Cardinality(V4Days(seen, f))
           v3 == {EnsembleSharpe(V3Days(seen, i), flaws) : i \in 1..4}
           v4 == {EnsembleSharpe(V4Days(seen, f), flaws) : f \in ActiveSet}
           counts == {count3(i) : i \in 1..4} \cup {count4(f) : f \in ActiveSet}
           fewest == Min(counts)
           passed == V3Passed(v3) /\ V4Passed(v4)
           T3 == {<<"v3", i>> : i \in 1..4}
           T4 == {<<"v4", f>> : f \in ActiveSet}
           suite == <<"robustness", "">>
           made == RobustnessMakes(seen, flaws)
<1>1. Targets(a) = T3 \cup T4 \cup {suite}
  BY DEF Targets
<1>2. made = [p \in T3 \cup T4 \cup {suite} |->
                CASE p[1] = "v3" -> Artefact("NONE", count3(p[2]), {})
                  [] p[1] = "v4" -> Artefact("NONE", count4(p[2]), {})
                  [] OTHER       -> Artefact(PassIf(passed), fewest, {})]
  BY DEF RobustnessMakes
<1>3. /\ \A i : count3(i) \in Nat
      /\ \A f : count4(f) \in Nat
  BY DaysCounted DEF V3Days, V4Days, LongShortDays
<1>4. counts \in SUBSET Nat /\ counts # {}
  <2>1. count3(1) \in counts
    OBVIOUS
  <2>2. QED
    BY <1>3, <2>1
<1>5. fewest \in counts
  <2> HIDE DEF counts
  <2>1. QED
    BY <1>4, LeastIsElement
<1>6. ASSUME passed, NEW days, EnsembleSharpe(days, flaws) \in v3 \cup v4, Cardinality(days) \in Nat
      PROVE  Cardinality(days) > 1
  <2>1. EnsembleSharpe(days, flaws) # NaN
    BY <1>6 DEF V3Passed, V4Passed
  <2>2. \A c \in Nat : ~(c < 2) => c > 1
    OBVIOUS
  <2>3. ~(Cardinality(days) < 2)
    BY <2>1 DEF EnsembleSharpe
  <2>4. QED
    BY <1>6, <2>2, <2>3
<1>7. passed => fewest > 1
  <2>1. CASE \E i \in 1..4 : fewest = count3(i)
    <3>1. PICK i \in 1..4 : fewest = count3(i)
      BY <2>1
    <3>2. EnsembleSharpe(V3Days(seen, i), flaws) \in v3
      OBVIOUS
    <3> HIDE DEF passed, v3, v4, fewest
    <3>3. QED
      BY <1>3, <1>6, <3>1, <3>2
  <2>2. CASE \E f \in ActiveSet : fewest = count4(f)
    <3>1. PICK f \in ActiveSet : fewest = count4(f)
      BY <2>2
    <3>2. EnsembleSharpe(V4Days(seen, f), flaws) \in v4
      OBVIOUS
    <3> HIDE DEF passed, v3, v4, fewest
    <3>3. QED
      BY <1>3, <1>6, <3>1, <3>2
  <2>3. QED
    BY <1>5, <2>1, <2>2
<1>8. PassIf(passed) \in {"PASS", "FAIL"} /\ (PassIf(passed) = "PASS" => passed)
  BY DEF PassIf
<1> HIDE DEF count3, count4, counts, v3, v4, made, passed, fewest
<1>9. (\A p \in T3 : p[1] = "v3") /\ (\A p \in T4 : p[1] = "v4")
  OBVIOUS
<1>10. ASSUME NEW p \in T3 \cup T4 \cup {suite}
      PROVE  p \in DOMAIN made /\ GoodArtefact(p, made[p]) /\ p[1] \in {"v3", "v4", "robustness"}
  <2>1. p \in DOMAIN made
    BY <1>2
  <2>2. CASE p \in T3
    <3>1. p[1] = "v3"
      BY <1>9, <2>2
    <3> HIDE DEF T3, T4, suite
    <3>2. made[p] = Artefact("NONE", count3(p[2]), {})
      BY <1>2, <3>1
    <3>3. count3(p[2]) \in Nat
      BY <1>3
    <3>4. GoodArtefact(p, made[p])
      BY <3>2, <3>3, NoVerdictGood
    <3>5. QED
      BY <2>1, <3>1, <3>4
  <2>3. CASE p \in T4
    <3>1. p[1] = "v4"
      BY <1>9, <2>3
    <3> HIDE DEF T3, T4, suite
    <3>2. made[p] = Artefact("NONE", count4(p[2]), {})
      BY <1>2, <3>1
    <3>3. count4(p[2]) \in Nat
      BY <1>3
    <3>4. GoodArtefact(p, made[p])
      BY <3>2, <3>3, NoVerdictGood
    <3>5. QED
      BY <2>1, <3>1, <3>4
  <2>4. CASE p = suite
    <3>1. p[1] = "robustness" /\ made[p] = Artefact(PassIf(passed), fewest, {})
      BY <1>2, <2>4
    <3>2. fewest \in Nat
      BY <1>4, <1>5
    <3> DEFINE verdict == PassIf(passed)
    <3>3. verdict \in {"PASS", "FAIL"} /\ (verdict = "PASS" => fewest > 1) /\ made[p] = Artefact(verdict, fewest, {})
      BY <1>7, <1>8, <3>1
    <3> HIDE DEF verdict, fewest, made, passed
    <3>4. GoodArtefact(p, Artefact(verdict, fewest, {}))
      <4>1. /\ verdict \in {"PASS", "FAIL", "INDETERMINATE", "NONE"}
            /\ verdict = "PASS" /\ p[1] # "romano_wolf" => fewest > 1
        BY <3>3
      <4>2. QED
        BY <3>2, <4>1, ArtefactGood
    <3>5. QED
      BY <2>1, <3>1, <3>3, <3>4
  <2>5. QED
    BY <2>2, <2>3, <2>4
<1>11. NearMissFile[1] = "near_miss" /\ Tracker[1] = "tracker"
  BY DEF NearMissFile, Tracker
<1> HIDE DEF T3, T4, suite, made
<1>12. QED
  BY <1>1, <1>10, <1>11 DEF GoodMade, made

LEMMA SignFlipGood ==
    ASSUME NEW p, NEW panel, NEW labels, NEW flaws
    PROVE  /\ SignFlipScreen(panel, labels, flaws) \in {"PASS", "FAIL", "NONE"}
           /\ SignFlipScreen(panel, labels, flaws) = "PASS" => Periods(SignFlip(panel), labels) > 1
<1> DEFINE passed == EvaluateFactorGates(ScreenMetrics(SignFlip(panel), labels, NoFactors, flaws), DEFAULT_GATE_CONFIG)
<1>1. passed => Periods(SignFlip(panel), labels) > 1
  BY GatesOfScreens, GatesNeedReturns
<1>2. SignFlipScreen(panel, labels, flaws) \in {"NONE", PassIf(passed)}
  BY DEF SignFlipScreen
<1> HIDE DEF passed
<1>3. PassIf(passed) \in {"PASS", "FAIL"} /\ (PassIf(passed) = "PASS" => passed)
  BY DEF PassIf
<1>4. QED
  BY <1>1, <1>2, <1>3

LEMMA High52wMakesGood ==
    ASSUME NEW a, a.script = "high52w", NEW seen, NEW flaws, High52wMakes(seen, flaws) # GivesUp
    PROVE  GoodMade(a, High52wMakes(seen, flaws))
<1> DEFINE p == <<"high52w", "">>
           panel == seen.panels[High]
           verdict == SignFlipScreen(panel, seen.labels, flaws)
           n == Periods(SignFlip(panel), seen.labels)
           reasons == Reasons(ScreenMetrics(SignFlip(panel), seen.labels, NoFactors, flaws))
           x == Artefact(verdict, n, reasons)
<1>1. Targets(a) = {p} /\ p # NearMissFile /\ p # Tracker
  BY DEF Targets, NearMissFile, Tracker
<1>2. High52wMakes(seen, flaws) = Leaves(p, x)
  BY DEF High52wMakes
<1>3. n \in Nat /\ verdict \in {"PASS", "FAIL", "NONE"} /\ (verdict = "PASS" => n > 1)
  BY PeriodsCounted, SignFlipGood
<1>4. GoodArtefact(p, x)
  <2> HIDE DEF n, verdict, reasons
  <2>1. QED
    BY <1>3, ArtefactGood
<1> HIDE DEF x
<1>5. QED
  BY <1>1, <1>2, <1>4, OneGood

\* The battery reports the most returns of any flip; one that passes has two.
LEMMA BatteryMakesGood ==
    ASSUME NEW a, a.script = "battery", NEW seen, NEW results, NEW flaws
    PROVE  GoodMade(a, BatteryMakes(seen, results, flaws))
<1> DEFINE panels == RegistryPanels(seen)
           flipped == {f \in FlipAsked : f \in DOMAIN panels}
           verdicts == {SignFlipScreen(panels[f], seen.labels, flaws) : f \in flipped}
           count(f) == Periods(SignFlip(panels[f]), seen.labels)
           counts == {count(f) : f \in flipped}
           most == IF flipped = {} THEN 0 ELSE Max(counts)
           verdict == IF "PASS" \in verdicts THEN "PASS" ELSE "NONE"
           made == BatteryMakes(seen, results, flaws)
           T == BatteryFiles
<1>1. Targets(a) = T
  BY DEF Targets
<1>2. /\ DOMAIN made = T
      /\ \A p \in T : \E rows : made[p] = IF p[1] = "sign_flip" THEN Artefact(verdict, most, rows)
                                          ELSE Artefact("NONE", 0, rows)
  <2> HIDE DEF most, T
  <2>1. DOMAIN made = T
    BY DEF BatteryMakes, most, T
  <2>2. ASSUME NEW p \in T PROVE \E rows : made[p] = IF p[1] = "sign_flip" THEN Artefact(verdict, most, rows)
                                                  ELSE Artefact("NONE", 0, rows)
    <3>1. p[1] \in {"near_miss", "coverage", "correlations", "sign_flip"}
      BY BatteryNames DEF T
    <3>2. CASE p[1] = "near_miss"
      <4>1. made[p] = Artefact("NONE", 0, NearMiss(results))
        BY <3>2 DEF BatteryMakes, T
      <4>2. QED
        BY <3>2, <4>1
    <3>3. CASE p[1] \in {"coverage", "correlations"}
      <4>1. \E rows : made[p] = Artefact("NONE", 0, rows)
        BY <3>3 DEF BatteryMakes, T
      <4>2. QED
        BY <3>3, <4>1
    <3>4. CASE p[1] = "sign_flip"
      <4>1. made[p] = Artefact(verdict, most, verdicts)
        BY <3>4 DEF BatteryMakes, T, most
      <4>2. QED
        BY <3>4, <4>1
    <3>5. QED
      BY <3>1, <3>2, <3>3, <3>4
  <2>3. QED
    BY <2>1, <2>2
<1>3. \A f \in flipped : count(f) \in 0..Cardinality(Friday)
  BY DaysCounted DEF Periods, LongShortDays
<1>4. most \in Nat /\ \A f \in flipped : count(f) <= most
  <2>1. CASE flipped = {}
    BY <2>1
  <2>2. CASE flipped # {}
    <3>1. counts \in SUBSET (0..Cardinality(Friday)) /\ counts # {} /\ Cardinality(Friday) \in Nat
      BY <1>3, <2>2, DaysCounted
    <3>2. \A f \in flipped : count(f) \in counts
      OBVIOUS
    <3> HIDE DEF counts
    <3>3. Max(counts) \in counts /\ \A y \in counts : y <= Max(counts)
      BY <3>1, LargestIsLargest
    <3>4. Max(counts) \in Nat
      <4>1. \A y \in counts : y \in Nat
        BY <3>1
      <4>2. QED
        BY <3>3, <4>1
    <3> HIDE DEF flipped, count
    <3>5. QED
      BY <2>2, <3>2, <3>3, <3>4
  <2>3. QED
    BY <2>1, <2>2
<1>5. verdict = "PASS" => most > 1
  <2>1. SUFFICES ASSUME "PASS" \in verdicts PROVE most > 1
    OBVIOUS
  <2>2. PICK f \in flipped : SignFlipScreen(panels[f], seen.labels, flaws) = "PASS"
    BY <2>1
  <2>3. count(f) > 1
    BY <2>2, SignFlipGood
  <2>4. \A m, n \in Nat : n > 1 /\ n <= m => m > 1
    OBVIOUS
  <2>5. count(f) \in Nat
    BY PeriodsCounted
  <2> HIDE DEF count, most, flipped
  <2>6. QED
    BY <1>4, <2>3, <2>4, <2>5
<1>6. verdict \in {"PASS", "NONE"}
  OBVIOUS
<1>7. ASSUME NEW p \in T
      PROVE  /\ p \in DOMAIN made /\ GoodArtefact(p, made[p])
             /\ p = NearMissFile => made[p].verdict = "NONE"
  <2> HIDE DEF verdict, most, made, T
  <2>1. PICK rows : made[p] = IF p[1] = "sign_flip" THEN Artefact(verdict, most, rows)
                              ELSE Artefact("NONE", 0, rows)
    BY <1>2
  <2>2. CASE p[1] = "sign_flip"
    <3>1. made[p] = Artefact(verdict, most, rows) /\ most \in Nat
      BY <1>4, <2>1, <2>2
    <3>2. GoodArtefact(p, made[p])
      BY <1>5, <1>6, <3>1, ArtefactGood
    <3>3. p # NearMissFile
      <4>1. NearMissFile[1] = "near_miss"
        BY DEF NearMissFile
      <4>2. QED
        BY <2>2, <4>1
    <3>4. QED
      BY <1>2, <3>2, <3>3
  <2>3. CASE p[1] # "sign_flip"
    <3>1. GoodArtefact(p, made[p]) /\ made[p].verdict = "NONE"
      BY <2>1, <2>3, NoVerdictGood
    <3>2. QED
      BY <1>2, <3>1
  <2>4. QED
    BY <2>2, <2>3
<1>8. \A p \in T : p # Tracker
  <2>1. \A p \in T : p[1] \in {"near_miss", "coverage", "correlations", "sign_flip"}
    BY BatteryNames
  <2>2. Tracker[1] = "tracker"
    BY DEF Tracker
  <2> HIDE DEF T
  <2>3. QED
    BY <2>1, <2>2
<1> HIDE DEF T, made
<1>9. QED
  BY <1>1, <1>7, <1>8 DEF GoodMade, made

LEMMA TrackerMakesGood ==
    ASSUME NEW a, a.script = "tracker", NEW old, NEW results, NEW holdout
    PROVE  GoodMade(a, TrackerMakes(old, results, holdout))
<1> DEFINE rows == ComputeRows(old, results, holdout)
           x == Artefact("NONE", 0, rows)
<1>1. Targets(a) = {Tracker} /\ Tracker # NearMissFile
  BY DEF Targets, NearMissFile, Tracker
<1>2. TrackerMakes(old, results, holdout) = Leaves(Tracker, x)
  BY DEF TrackerMakes, Tracker
<1>3. IsRows(rows)
  BY DEF IsRows, ComputeRows
<1> HIDE DEF rows
<1>4. GoodArtefact(Tracker, x) /\ x.rows = rows
  BY ArtefactGood DEF Artefact
<1> HIDE DEF x
<1>5. QED
  BY <1>1, <1>2, <1>3, <1>4 DEF GoodMade, Leaves

\* Whatever a call makes, of whatever it has seen, is good.
LEMMA MakesGood ==
    ASSUME NEW a \in Call, NEW seen, NEW flaws, NEW holdout, NEW run, run.gates \in {"frozen", "edited"},
           Makes(a, seen, flaws, holdout, run) # GivesUp
    PROVE  GoodMade(a, Makes(a, seen, flaws, holdout, run))
<1>1. a.script \in Script
  BY DEF Call
<1>2. CASE a.script = "screen_factor"
  BY <1>2, ScreenMakesGood DEF Makes
<1>3. CASE a.script = "rescreen_v2"
  BY <1>3, RescreenMakesGood DEF Makes
<1>4. CASE a.script = "workstream_a"
  BY <1>4, WorkstreamAMakesGood DEF Makes
<1>5. CASE a.script = "workstream_d"
  BY <1>5, WorkstreamDMakesGood DEF Makes
<1>6. CASE a.script = "ensemble_g0"
  BY <1>6, EnsembleMakesGood DEF Makes
<1>7. CASE a.script = "phase3"
  BY <1>7, Phase3MakesGood DEF Makes
<1>8. CASE a.script = "romano_wolf"
  BY <1>8, RomanoWolfMakesGood DEF Makes
<1>9. CASE a.script = "bootstrap"
  BY <1>9, BootstrapMakesGood DEF Makes
<1>10. CASE a.script = "robustness"
  BY <1>10, RobustnessMakesGood DEF Makes
<1>11. CASE a.script = "battery"
  BY <1>11, BatteryMakesGood DEF Makes
<1>12. CASE a.script = "high52w"
  BY <1>12, High52wMakesGood DEF Makes
<1>13. CASE a.script = "tracker"
  BY <1>13, TrackerMakesGood, SMTT(30) DEF Makes
<1>14. QED
  BY <1>1, <1>2, <1>3, <1>4, <1>5, <1>6, <1>7, <1>8, <1>9, <1>10, <1>11, <1>12, <1>13 DEF Script

-----------------------------------------------------------------------------
(***************************************************************************)
(* What a run sees.                                                        *)
(***************************************************************************)

\* The past of a market has its past days, and is otherwise the same.
LEMMA Past ==
    ASSUME NEW m \in Market, NEW t \in Nat
    PROVE  LET p == Upto(m, t)
           IN  /\ p \in Market
               /\ \A s \in Symbol : p.closes[s] = {d \in m.closes[s] : d <= t}
               /\ \A s \in Symbol : p.filings[s] = {d \in m.filings[s] : d <= t}
               /\ p.spy = {d \in m.spy : d <= t}
               /\ p.bull = m.bull /\ p.raw = m.raw /\ p.size = m.size /\ p.calm = m.calm /\ p.tie = m.tie
  BY DEF Market, Upto

\* What is known of it on its last day.
LEMMA PastKnown ==
    ASSUME NEW m \in Market, NEW t \in Nat
    PROVE  LET p == Upto(m, t)
           IN  /\ \A s \in Symbol : Known(p.closes[s], t) = Known(m.closes[s], t)
               /\ \A s \in Symbol : Known(p.filings[s], t) = Known(m.filings[s], t)
               /\ Known(p.spy, t) = Known(m.spy, t)
               /\ Known(AnyDay(p.closes), t) = Known(AnyDay(m.closes), t)
<1> DEFINE p == Upto(m, t)
<1>1. /\ \A s \in Symbol : p.closes[s] = {d \in m.closes[s] : d <= t}
      /\ \A s \in Symbol : p.filings[s] = {d \in m.filings[s] : d <= t}
      /\ p.spy = {d \in m.spy : d <= t}
  BY Past
<1> HIDE DEF p
<1>2. /\ \A s \in Symbol : Known(p.closes[s], t) = Known(m.closes[s], t)
      /\ \A s \in Symbol : Known(p.filings[s], t) = Known(m.filings[s], t)
      /\ Known(p.spy, t) = Known(m.spy, t)
  BY <1>1 DEF Known
<1>3. ASSUME NEW d
      PROVE  d \in Known(AnyDay(p.closes), t) <=> d \in Known(AnyDay(m.closes), t)
  <2>1. d \in Known(AnyDay(p.closes), t) <=> d <= t /\ \E s \in Symbol : d \in p.closes[s]
    BY DEF Known, AnyDay
  <2>2. d \in Known(AnyDay(m.closes), t) <=> d <= t /\ \E s \in Symbol : d \in m.closes[s]
    BY DEF Known, AnyDay
  <2>3. QED
    BY <1>1, <2>1, <2>2
<1>4. QED
  BY <1>2, <1>3 DEF p

\* The scores, tilts and regime of a rebalance day are those of its past.
LEMMA PastSame ==
    ASSUME NEW m \in Market, NEW t \in Friday
    PROVE  SameToday(View(m), View(Upto(m, t)), t)
<1> DEFINE p == Upto(m, t)
<1>1. t \in Nat
  BY BoundAssumption
<1>2. /\ \A s \in Symbol : Known(p.closes[s], t) = Known(m.closes[s], t)
      /\ \A s \in Symbol : Known(p.filings[s], t) = Known(m.filings[s], t)
      /\ Known(p.spy, t) = Known(m.spy, t)
      /\ Known(AnyDay(p.closes), t) = Known(AnyDay(m.closes), t)
  BY <1>1, PastKnown
<1>3. /\ \A s \in Symbol : p.closes[s] = {d \in m.closes[s] : d <= t}
      /\ p.bull = m.bull /\ p.raw = m.raw /\ p.size = m.size /\ p.calm = m.calm /\ p.tie = m.tie
  BY <1>1, Past
<1>4. \A s \in Symbol : m.closes[s] \subseteq Nat
  BY DEF Market
<1> HIDE DEF p
<1>5. \A f : PriceValues(p, f, t) = PriceValues(m, f, t) /\ FilingValues(p, f, t) = FilingValues(m, f, t)
  <2>1. TAKE f
  <2>2. {s \in Symbol : Cardinality(Known(p.closes[s], t)) >= Least[f]}
          = {s \in Symbol : Cardinality(Known(m.closes[s], t)) >= Least[f]}
    BY <1>2
  <2>3. {s \in Symbol : Cardinality(Known(p.filings[s], t)) >= Least[f]}
          = {s \in Symbol : Cardinality(Known(m.filings[s], t)) >= Least[f]}
    BY <1>2
  <2>4. QED
    BY <1>3, <2>2, <2>3 DEF PriceValues, FilingValues
<1>6. \A f \in Factor : View(m).panels[f][t] = View(p).panels[f][t] /\ View(m).shuffled[f][t] = View(p).shuffled[f][t]
  <2>1. TAKE f \in Factor
  <2>2. Panel(m, f)[t] = Panel(p, f)[t]
    BY <1>5 DEF Panel, PricePanel, FilingPanel
  <2>3. ShuffledPanel(m, f)[t] = ShuffledPanel(p, f)[t]
    BY <1>3, <1>5 DEF ShuffledPanel
  <2>4. QED
    BY <2>2, <2>3 DEF View
<1>7. Trailing(p, t) = Trailing(m, t) /\ \A d \in Trailing(m, t) : d \in Nat /\ d <= t
  <2>1. Trailing(p, t) = Trailing(m, t)
    BY <1>2 DEF Trailing
  <2>2. \A d \in Trailing(m, t) : d \in AnyDay(m.closes) /\ d <= t
    BY DEF Trailing, Known
  <2>3. QED
    BY <1>4, <2>1, <2>2 DEF AnyDay
<1>8. View(m).size[t] = View(p).size[t]
  <2>1. \A s \in Symbol : p.closes[s] \cap Trailing(p, t) = m.closes[s] \cap Trailing(m, t)
    BY <1>3, <1>7
  <2>2. {s \in Symbol : p.closes[s] \cap Trailing(p, t) # {}} = {s \in Symbol : m.closes[s] \cap Trailing(m, t) # {}}
    BY <2>1
  <2>3. SizePanel(p)[t] = SizePanel(m)[t]
    BY <1>3, <2>2 DEF SizePanel
  <2>4. QED
    BY <2>3 DEF View
<1>9. View(m).vol[t] = View(p).vol[t]
  <2> DEFINE returns(q, s) == {d \in Trailing(q, t) : \E e \in q.closes[s] : e < d}
  <2>1. ASSUME NEW s \in Symbol PROVE returns(p, s) = returns(m, s)
    <3>1. ASSUME NEW d \in Trailing(m, t), NEW e \in m.closes[s], e < d PROVE e <= t
      BY <1>1, <1>4, <1>7, <3>1
    <3>2. QED
      BY <1>3, <1>7, <3>1
  <2>2. {s \in Symbol : Cardinality(returns(p, s)) > 1 /\ p.calm[s] > 0}
          = {s \in Symbol : Cardinality(returns(m, s)) > 1 /\ m.calm[s] > 0}
    BY <1>3, <2>1
  <2>3. VolPanel(p)[t] = VolPanel(m)[t]
    BY <1>3, <2>2 DEF VolPanel
  <2>4. QED
    BY <2>3 DEF View
<1>10. View(m).regime[t] = View(p).regime[t]
  <2>1. Regime(p, t) = Regime(m, t)
    BY <1>2, <1>3 DEF Regime
  <2>2. QED
    BY <2>1 DEF View
<1>11. QED
  BY <1>6, <1>8, <1>9, <1>10 DEF SameToday, p

\* The forward returns of a rebalance day are those of the days after it.
LEMMA LabelsAfter ==
    ASSUME NEW m \in Market, NEW t \in Friday
    PROVE  View(m).labels[t] = Labels(After(m, t))[t]
<1> DEFINE a == After(m, t)
<1>1. \A s \in Symbol : a.closes[s] = {d \in m.closes[s] : d > t}
  BY DEF Market, After
<1> HIDE DEF a
<1>2. ASSUME NEW d
      PROVE  d \in {e \in AnyDay(a.closes) : e > t} <=> d \in {e \in AnyDay(m.closes) : e > t}
  BY <1>1 DEF AnyDay
<1>3. {e \in AnyDay(a.closes) : e > t} = {e \in AnyDay(m.closes) : e > t}
  BY <1>2
<1>4. Horizon(AnyDay(a.closes), t) = Horizon(AnyDay(m.closes), t)
  BY <1>3 DEF Horizon
<1>5. \A d \in Horizon(AnyDay(m.closes), t) : d > t
  BY DEF Horizon
<1>6. \A s \in Symbol : Horizon(AnyDay(m.closes), t) \subseteq a.closes[s] <=> Horizon(AnyDay(m.closes), t) \subseteq m.closes[s]
  BY <1>1, <1>5
<1>7. Labels(a)[t] = Labels(m)[t]
  BY <1>4, <1>6 DEF Labels
<1>8. QED
  BY <1>7 DEF View, a

-----------------------------------------------------------------------------
(***************************************************************************)
(* The inductive invariant: runs and files alone, and together.            *)
(***************************************************************************)

IsRecord(v, fields) == v = [x \in fields |-> v[x]]
RunFields == {"state", "program", "at", "open", "from", "gates", "results", "notes", "version", "made"}
Reading == {"closes", "filings", "spy"}

\* A run follows its program; once it has judged, it holds something good for every file
\* it may write.
SoundRun(run, a) ==
    /\ IsRecord(run, RunFields) /\ IsRecord(run.from, Reading)
    /\ run.state \in {"idle", "running", "refused", "gave up", "done", "killed"}
    /\ run.program = IF run.state \in {"idle", "refused"} THEN <<>> ELSE Program(a)
    /\ run.at \in 1..Len(run.program) + 1
    /\ run.open \in BOOLEAN /\ run.version \in Nat /\ run.gates \in {"frozen", "edited"}
    /\ run.open => /\ run.state \in {"running", "killed"}
                   /\ run.at <= Len(run.program) /\ run.program[run.at][1] = "write"
    /\ run.state = "running" => a.end < Holdout
    /\ \A j \in 1..Len(run.program) : j < run.at /\ run.program[j] = Judge => GoodMade(a, run.made)

SoundFile(p, file) ==
    /\ IsRecord(file, {"state", "by", "version", "made"})
    /\ file.state \in {"torn", "whole"} /\ file.version \in Nat
    /\ GoodArtefact(p, file.made)
    /\ p = Tracker /\ file.state = "whole" => IsRows(file.made.rows)

\* A file that is being written is empty and its writer's, or crossed.
Writing(r) == runs[r].state = "running" /\ runs[r].open
Held(r) ==
    Writing(r) => LET p == NextStep(r)[2]
                  IN  p \in DOMAIN files /\ (p \in crossed \/ (files[p].by = r /\ files[p].state = "torn"))

Consistent ==
    /\ case \in Cases
    /\ db \in {"market", "later"} /\ gates \in {"frozen", "edited"}
    /\ IsRecord(runs, Run) /\ \A r \in Run : SoundRun(runs[r], case.calls[r])
    /\ IsRecord(files, DOMAIN files) /\ Tracker \in DOMAIN files
    /\ \A p \in DOMAIN files : SoundFile(p, files[p]) /\ files[p].by \in Run \cup {0}
    /\ notes \in [Seeds -> {"none", "noted", "barred", "revised"}]
    /\ crossed \subseteq DOMAIN files
    /\ \A r \in Run : Held(r)

\* What a run has written is there as it was written, unless it has been written again.
Kept(r, p) ==
    /\ p \in DOMAIN files
    /\ \/ p \in crossed
       \/ runs[r].open /\ NextStep(r)[2] = p
       \/ files[p].by # r
       \/ files[p].state = "whole" /\ files[p].made.verdict = runs[r].made[p].verdict
Written ==
    \A r \in Run : \A i \in 1..Len(runs[r].program) :
        i < runs[r].at /\ runs[r].program[i][1] = "write" => Kept(r, runs[r].program[i][2])

\* What is logged is what a run that has gone through its program made and wrote.
LogSound(e) ==
    /\ e.run \in Run
    /\ runs[e.run].state # "idle" /\ runs[e.run].at > Len(runs[e.run].program)
    /\ DOMAIN e.verdicts \subseteq DOMAIN runs[e.run].made
    /\ \A p \in DOMAIN e.verdicts :
        /\ \E i \in 1..Len(runs[e.run].program) : runs[e.run].program[i] = Write(p)
        /\ e.verdicts[p] = runs[e.run].made[p].verdict
Logged ==
    /\ log \in Seq({log[i] : i \in DOMAIN log})
    /\ \A i \in DOMAIN log : LogSound(log[i])

\* The notes that a run of the tracker goes by are those of the file, if that is as the
\* run read it.
NoteOf(run, f) == IF f \in DOMAIN run.notes THEN run.notes[f] ELSE "none"
Noted(r) ==
    runs[r].state = "running" /\ case.calls[r].script = "tracker" =>
        LET run == runs[r]
            file == files[Tracker]
            same == ~run.open /\ run.version = file.version
        IN  /\ run.at > 1 => run.version <= file.version
            /\ run.at > 1 /\ same /\ file.state = "whole" =>
                    \A f \in Seeds : NoteOf(run, f) = Parsed(file.made.rows[f].note)
            /\ run.at > 3 => \A f \in Seeds : run.made[Tracker].rows[f].note = NoteOf(run, f)
            /\ run.at > 4 /\ same => file.state = "whole"
            /\ run.open /\ Tracker \notin crossed =>
                    \A f \in Seeds : notes[f] # "barred" => NoteOf(run, f) = notes[f]

-----------------------------------------------------------------------------
(***************************************************************************)
(* One step of one run.                                                    *)
(***************************************************************************)

LEMMA CallOf ==
    ASSUME case \in Cases, NEW r \in Run
    PROVE  case.calls[r] \in Call /\ case.market \in Market /\ case.later \in Market
  BY CasesAssumption DEF Case, Run

LEMMA ProgramSteps ==
    ASSUME NEW a \in Call, NEW i \in 1..Len(Program(a))
    PROVE  /\ Len(Program(a)) \in Nat /\ Program(a)[i] \in StepOf(Targets(a))
           /\ Program(a)[i][1] = "log" => i = Len(Program(a))
           /\ Program(a)[i][1] = "write" =>
                /\ Program(a)[i][2] \in Targets(a) /\ Program(a)[i] = Write(Program(a)[i][2])
                /\ \E j \in 1..Len(Program(a)) : j < i /\ Program(a)[j] = Judge
           /\ Program(a)[i][1] = "judge" => Program(a)[i] = Judge
           /\ \A j \in 1..Len(Program(a)) :
                j < i /\ Program(a)[i] = Judge /\ Program(a)[j][1] = "write" => Program(a)[j][2] = NearMissFile
<1> DEFINE s == Program(a)
           T == Targets(a)
<1>1. Tidy(s, T)
  BY ProgramTidy
<1> HIDE DEF s, T
<1>2. s \in Seq(StepOf(T)) /\ Len(s) \in Nat /\ i \in 1..Len(s) /\ i \in Nat
  BY <1>1 DEF Tidy, s
<1>3. s[i] \in StepOf(T)
  BY <1>2
<1>4. s[i][1] = "log" => i = Len(s)
  BY <1>1, <1>2 DEF Tidy
<1>5. s[i][1] = "write" => s[i][2] \in T /\ s[i] = Write(s[i][2])
  <2>1. s[i][1] = "write" => s[i][2] \in T
    BY <1>1, <1>2 DEF Tidy
  <2>2. s[i][1] = "write" => s[i] = Write(s[i][2])
    BY <1>3 DEF StepOf, Read, Judge, Log, Write
  <2>3. QED
    BY <2>1, <2>2
<1>6. ASSUME s[i][1] = "write" PROVE \E j \in 1..Len(s) : j < i /\ s[j] = Judge
  <2>1. PICK j \in 1..i : s[j] = Judge
    BY <1>1, <1>2, <1>6 DEF Tidy
  <2>2. j # i
    BY <1>6, <2>1 DEF Judge
  <2>3. j \in 1..Len(s) /\ j < i
    BY <1>2, <2>2
  <2>4. QED
    BY <2>1, <2>3
<1>7. s[i][1] = "judge" => s[i] = Judge
  BY <1>1, <1>2 DEF Tidy
<1>8. ASSUME NEW j \in 1..Len(s), j < i, s[i] = Judge, s[j][1] = "write" PROVE s[j][2] = NearMissFile
  <2>1. j \in 1..i
    BY <1>2, <1>8
  <2>2. s[i][1] = "judge"
    BY <1>8 DEF Judge
  <2>3. QED
    BY <1>1, <1>2, <1>8, <2>1, <2>2 DEF Tidy
<1>9. QED
  BY <1>2, <1>3, <1>4, <1>5, <1>6, <1>7, <1>8 DEF s, T

\* A run that has steps left is at one of its program's.
LEMMA AtStep ==
    ASSUME NEW a \in Call, NEW run, SoundRun(run, a), run.at <= Len(run.program)
    PROVE  /\ run.program = Program(a) /\ run.state \notin {"idle", "refused"}
           /\ run.at \in 1..Len(Program(a)) /\ run.at \in Nat /\ Len(Program(a)) \in Nat
<1>1. run.state \notin {"idle", "refused"}
  <2>1. SUFFICES ASSUME run.state \in {"idle", "refused"} PROVE FALSE
    OBVIOUS
  <2>2. run.program = <<>> /\ run.at \in 1..Len(<<>>) + 1
    BY <2>1 DEF SoundRun
  <2>3. QED
    BY <2>2
<1>2. run.program = Program(a)
  BY <1>1 DEF SoundRun
<1>3. Len(Program(a)) \in Nat
  BY ProgramTidy DEF Tidy
<1>4. run.at \in 1..Len(Program(a)) + 1
  BY <1>2 DEF SoundRun
<1>5. QED
  BY <1>1, <1>2, <1>3, <1>4

\* The step a run is at when it is about to do something of some kind.
LEMMA DoesStep ==
    ASSUME Consistent, NEW r \in Run, NEW kind, kind # "end", Does(r, kind)
    PROVE  /\ runs[r].state = "running" /\ ~runs[r].open
           /\ runs[r].at <= Len(runs[r].program) /\ NextStep(r) = runs[r].program[runs[r].at]
           /\ runs[r].program[runs[r].at][1] = kind
  BY DEF Does, NextStep

\* Going on to the next step of the program.
LEMMA OnwardSound ==
    ASSUME NEW a \in Call, NEW run, SoundRun(run, a), run.state = "running", run.at <= Len(run.program),
           NEW next, IsRecord(next, RunFields), IsRecord(next.from, Reading),
           next.state = "running", next.program = run.program, next.at = run.at + 1, next.open = FALSE,
           next.version \in Nat, next.gates \in {"frozen", "edited"},
           next.made = run.made \/ GoodMade(a, next.made),
           run.program[run.at] = Judge => GoodMade(a, next.made)
    PROVE  SoundRun(next, a)
<1>1. run.program = Program(a) /\ run.at \in 1..Len(Program(a)) /\ Len(Program(a)) \in Nat /\ run.at \in Nat
  BY AtStep
<1>2. next.at \in 1..Len(next.program) + 1
  BY <1>1
<1>3. ASSUME NEW j \in 1..Len(next.program), j < next.at, next.program[j] = Judge PROVE GoodMade(a, next.made)
  <2>1. j \in 1..Len(run.program) /\ (j < run.at \/ j = run.at)
    BY <1>1, <1>3
  <2>2. CASE j < run.at
    <3>1. GoodMade(a, run.made)
      BY <1>3, <2>1, <2>2 DEF SoundRun
    <3>2. QED
      BY <3>1
  <2>3. CASE j = run.at
    BY <1>3, <2>3
  <2>4. QED
    BY <2>1, <2>2, <2>3
<1>4. next.program = Program(a) /\ a.end < Holdout
  BY <1>1 DEF SoundRun
<1>5. QED
  BY <1>2, <1>3, <1>4 DEF SoundRun

\* Ending.
LEMMA EndsSound ==
    ASSUME NEW a \in Call, NEW run, SoundRun(run, a), run.state = "running",
           NEW next, IsRecord(next, RunFields), \A x \in RunFields \ {"state"} : next[x] = run[x],
           next.state \in {"gave up", "done", "killed"}, next.state = "killed" \/ ~run.open
    PROVE  SoundRun(next, a)
<1>1. /\ next.at = run.at /\ next.open = run.open /\ next.program = run.program /\ next.made = run.made
      /\ next.version = run.version /\ next.gates = run.gates /\ next.from = run.from
  BY DEF RunFields
<1>2. QED
  BY <1>1 DEF SoundRun

\* How a step that writes no file changes its run: it begins, ceases or goes on.
Begins(r) ==
    /\ runs[r].state = "idle" /\ runs'[r].state \in {"running", "refused"}
    /\ runs'[r].at = 1 /\ runs'[r].open = FALSE
Ceases(r) ==
    /\ runs[r].state = "running" /\ runs'[r].state \in {"gave up", "done", "killed"}
    /\ \A x \in RunFields \ {"state"} : runs'[r][x] = runs[r][x]
GoesOn(r) ==
    /\ runs[r].state = "running" /\ runs'[r].state = "running"
    /\ runs[r].open = FALSE /\ runs'[r].open = FALSE
    /\ runs[r].at <= Len(runs[r].program) /\ runs[r].program[runs[r].at][1] # "write"
    /\ runs'[r].at = runs[r].at + 1 /\ runs'[r].program = runs[r].program
    /\ runs[r].program[runs[r].at] = Judge \/ runs'[r].made = runs[r].made
Moves(r) ==
    /\ UNCHANGED <<case, files, notes, crossed>>
    /\ IsRecord(runs', Run) /\ \A o \in Run \ {r} : runs'[o] = runs[o]
    /\ SoundRun(runs'[r], case.calls[r])
    /\ Begins(r) \/ Ceases(r) \/ GoesOn(r)

\* Only the run itself is changed.
LEMMA OnlyRun ==
    ASSUME IsRecord(runs, Run), NEW r \in Run, NEW run, runs' = [runs EXCEPT ![r] = run]
    PROVE  IsRecord(runs', Run) /\ runs'[r] = run /\ \A o \in Run \ {r} : runs'[o] = runs[o]
  BY DEF IsRecord

\* A step of another kind than a write goes on with what it has changed of the run.
LEMMA OnwardMoves ==
    ASSUME Consistent, NEW r \in Run, NEW kind \in {"read", "judge", "log"}, Does(r, kind),
           UNCHANGED <<case, files, notes, crossed>>,
           NEW change, Onward(r, change), IsRecord(change, RunFields), IsRecord(change.from, Reading),
           \A x \in {"state", "program", "at", "open"} : change[x] = runs[r][x],
           change.version \in Nat, change.gates \in {"frozen", "edited"},
           kind = "judge" \/ change.made = runs[r].made,
           kind = "judge" => GoodMade(case.calls[r], change.made)
    PROVE  /\ Moves(r) /\ GoesOn(r) /\ runs'[r].notes = change.notes /\ runs'[r].version = change.version
           /\ runs'[r].made = change.made
<1> DEFINE a == case.calls[r]
           run == runs[r]
           next == [change EXCEPT !.at = @ + 1]
<1>1. a \in Call /\ SoundRun(run, a) /\ IsRecord(runs, Run)
  BY CallOf DEF Consistent
<1>2. run.state = "running" /\ ~run.open /\ run.at <= Len(run.program) /\ run.program[run.at][1] = kind
  BY DoesStep
<1>3. run.open = FALSE /\ change.state = run.state /\ change.program = run.program /\ change.at = run.at /\ change.open = FALSE
  BY <1>1, <1>2 DEF SoundRun
<1>4. run.program[run.at] = Judge <=> kind = "judge"
  <2>1. run.program = Program(a) /\ run.at \in 1..Len(Program(a))
    BY <1>1, <1>2, AtStep
  <2>2. QED
    BY <1>1, <1>2, <2>1, ProgramSteps DEF Judge
<1>5. change.made = run.made \/ GoodMade(a, change.made)
  OBVIOUS
<1>6. /\ SoundRun(next, a) /\ next.at = run.at + 1 /\ next.state = "running" /\ next.open = FALSE
      /\ next.program = run.program /\ next.made = change.made /\ next.notes = change.notes
      /\ next.version = change.version
  <2>1. /\ IsRecord(next, RunFields) /\ next.at = run.at + 1 /\ next.state = "running" /\ next.open = FALSE
        /\ next.program = run.program /\ next.made = change.made /\ next.notes = change.notes
        /\ next.version = change.version /\ next.gates = change.gates /\ next.from = change.from
    BY <1>2, <1>3 DEF IsRecord, RunFields
  <2>2. /\ IsRecord(next.from, Reading) /\ next.version \in Nat /\ next.gates \in {"frozen", "edited"}
        /\ next.made = run.made \/ GoodMade(a, next.made)
        /\ run.program[run.at] = Judge => GoodMade(a, next.made)
    BY <1>4, <1>5, <2>1
  <2> HIDE DEF a, run, next
  <2>3. QED
    BY <1>1, <1>2, <1>3, <1>5, <2>1, <2>2, OnwardSound
<1>7. runs' = [runs EXCEPT ![r] = next]
  BY DEF Onward
<1> HIDE DEF next
<1>8. IsRecord(runs', Run) /\ runs'[r] = next /\ \A o \in Run \ {r} : runs'[o] = runs[o]
  BY <1>1, <1>7, OnlyRun
<1>9. GoesOn(r)
  BY <1>2, <1>3, <1>4, <1>6, <1>8 DEF GoesOn
<1>10. QED
  BY <1>6, <1>8, <1>9 DEF Moves

LEMMA EndsMoves ==
    ASSUME Consistent, NEW r \in Run, NEW how \in {"gave up", "done", "killed"}, Ends(r, how),
           runs[r].state = "running", how = "killed" \/ ~runs[r].open,
           UNCHANGED <<case, files, notes, crossed>>
    PROVE  Moves(r) /\ Ceases(r)
<1> DEFINE a == case.calls[r]
           run == runs[r]
           next == [run EXCEPT !.state = how]
<1>1. a \in Call /\ SoundRun(run, a) /\ IsRecord(runs, Run)
  BY CallOf DEF Consistent
<1>2. SoundRun(next, a) /\ next.state = how /\ \A x \in RunFields \ {"state"} : next[x] = run[x]
  <2>1. /\ IsRecord(next, RunFields) /\ next.state = how /\ \A x \in RunFields \ {"state"} : next[x] = run[x]
        /\ run.state = "running" /\ (how = "killed" \/ ~run.open)
    BY <1>1 DEF IsRecord, RunFields, SoundRun
  <2> HIDE DEF a, run, next
  <2>2. QED
    BY <1>1, <2>1, EndsSound
<1>3. runs' = [runs EXCEPT ![r] = next]
  BY DEF Ends
<1> HIDE DEF next
<1>4. IsRecord(runs', Run) /\ runs'[r] = next /\ \A o \in Run \ {r} : runs'[o] = runs[o]
  BY <1>1, <1>3, OnlyRun
<1>5. QED
  BY <1>2, <1>4 DEF Moves, Ceases

LEMMA StartMoves ==
    ASSUME Consistent, NEW r \in Run, Start(r)
    PROVE  Moves(r) /\ Begins(r)
<1> DEFINE a == case.calls[r]
           run == runs[r]
<1>1. a \in Call /\ SoundRun(run, a) /\ IsRecord(runs, Run) /\ run.state = "idle"
  BY CallOf DEF Consistent, Start
<1>2. run.program = <<>> /\ run.at = 1 /\ run.open = FALSE /\ IsRecord(run, RunFields)
  <2>1. run.program = <<>> /\ run.at \in 1..Len(<<>>) + 1
    BY <1>1 DEF SoundRun
  <2>2. run.open = FALSE /\ IsRecord(run, RunFields)
    BY <1>1 DEF SoundRun
  <2>3. QED
    BY <2>1, <2>2
<1>3. CASE a.end >= Holdout
  <2> DEFINE next == [run EXCEPT !.state = "refused"]
  <2>1. runs' = [runs EXCEPT ![r] = next]
    BY <1>3 DEF Start, Ends
  <2>2. /\ IsRecord(next, RunFields) /\ next.state = "refused" /\ next.program = <<>> /\ next.at = 1 /\ next.open = FALSE
        /\ next.from = run.from /\ next.version = run.version /\ next.gates = run.gates
    BY <1>2 DEF IsRecord, RunFields
  <2> HIDE DEF next
  <2>3. next.at \in 1..Len(next.program) + 1 /\ \A j \in 1..Len(next.program) : FALSE
    BY <2>2
  <2>4. SoundRun(next, a)
    BY <1>1, <2>2, <2>3 DEF SoundRun
  <2>5. IsRecord(runs', Run) /\ runs'[r] = next /\ \A o \in Run \ {r} : runs'[o] = runs[o]
    BY <1>1, <2>1, OnlyRun
  <2>6. QED
    BY <1>1, <2>2, <2>4, <2>5 DEF Moves, Begins, Start
<1>4. CASE ~(a.end >= Holdout)
  <2> DEFINE next == [run EXCEPT !.state = "running", !.program = Program(a)]
  <2>1. runs' = [runs EXCEPT ![r] = next]
    BY <1>1, <1>4 DEF Start, IsRecord
  <2>2. /\ IsRecord(next, RunFields) /\ next.state = "running" /\ next.program = Program(a) /\ next.at = 1
        /\ next.open = FALSE /\ next.from = run.from /\ next.version = run.version /\ next.gates = run.gates
    BY <1>2 DEF IsRecord, RunFields
  <2> HIDE DEF next
  <2>3. Len(Program(a)) \in Nat
    BY <1>1, ProgramTidy DEF Tidy
  <2>4. 1 \in 1..Len(Program(a)) + 1 /\ \A j \in 1..Len(Program(a)) : ~(j < 1)
    BY <2>3
  <2>5. a.end < Holdout
    BY <1>1, <1>4, HoldoutAssumption DEF Call
  <2>6. SoundRun(next, a)
    BY <1>1, <2>2, <2>4, <2>5 DEF SoundRun
  <2>7. IsRecord(runs', Run) /\ runs'[r] = next /\ \A o \in Run \ {r} : runs'[o] = runs[o]
    BY <1>1, <2>1, OnlyRun
  <2>8. QED
    BY <1>1, <2>2, <2>6, <2>7 DEF Moves, Begins, Start
<1>5. QED
  BY <1>3, <1>4

\* What the run of a read, a judgement or an append goes on with.
LEMMA ReadMarketMoves ==
    ASSUME Consistent, NEW r \in Run, ReadMarket(r)
    PROVE  Moves(r) /\ GoesOn(r) /\ runs'[r].notes = runs[r].notes /\ runs'[r].version = runs[r].version /\ NextStep(r)[2] \in {"closes", "filings", "spy"}
<1>1. PICK source \in {"closes", "filings", "spy"} :
        Reads(r, source) /\ Onward(r, [runs[r] EXCEPT !.from[source] = db])
  BY DEF ReadMarket
<1> DEFINE run == runs[r]
           change == [run EXCEPT !.from[source] = db]
<1>2. SoundRun(run, case.calls[r])
  BY DEF Consistent
<1>3. /\ IsRecord(change, RunFields) /\ IsRecord(change.from, Reading)
      /\ change.state = run.state /\ change.program = run.program /\ change.at = run.at /\ change.open = run.open
      /\ change.version = run.version /\ change.gates = run.gates /\ change.made = run.made /\ change.notes = run.notes
  BY <1>2 DEF SoundRun, IsRecord, RunFields, Reading
<1>4. change.version \in Nat /\ change.gates \in {"frozen", "edited"}
  BY <1>2, <1>3 DEF SoundRun
<1>5. Does(r, "read") /\ NextStep(r)[2] = source /\ Onward(r, change) /\ UNCHANGED <<case, files, notes, crossed>>
  BY <1>1 DEF ReadMarket, Reads
<1> HIDE DEF change
<1>6. QED
  BY <1>3, <1>4, <1>5, OnwardMoves

LEMMA ReadGatesMoves ==
    ASSUME Consistent, NEW r \in Run, ReadGates(r)
    PROVE  Moves(r) /\ GoesOn(r) /\ runs'[r].notes = runs[r].notes /\ runs'[r].version = runs[r].version /\ NextStep(r)[2] = "gates"
<1> DEFINE run == runs[r]
           change == [run EXCEPT !.gates = gates]
<1>1. SoundRun(run, case.calls[r]) /\ gates \in {"frozen", "edited"}
  BY DEF Consistent
<1>2. /\ IsRecord(change, RunFields) /\ change.gates = gates /\ change.from = run.from
      /\ change.state = run.state /\ change.program = run.program /\ change.at = run.at /\ change.open = run.open
      /\ change.version = run.version /\ change.made = run.made /\ change.notes = run.notes
  BY <1>1 DEF SoundRun, IsRecord, RunFields
<1>3. change.version \in Nat /\ change.gates \in {"frozen", "edited"} /\ IsRecord(change.from, Reading)
  BY <1>1, <1>2 DEF SoundRun
<1>4. Does(r, "read") /\ NextStep(r)[2] = "gates" /\ Onward(r, change) /\ UNCHANGED <<case, files, notes, crossed>>
  BY DEF ReadGates, Reads
<1> HIDE DEF change
<1>5. QED
  BY <1>2, <1>3, <1>4, OnwardMoves

\* A run that only goes on.
LEMMA SameMoves ==
    ASSUME Consistent, NEW r \in Run, NEW kind \in {"read", "log"}, Does(r, kind), Onward(r, runs[r]),
           UNCHANGED <<case, files, notes, crossed>>
    PROVE  Moves(r) /\ GoesOn(r) /\ runs'[r].notes = runs[r].notes /\ runs'[r].version = runs[r].version
<1> DEFINE run == runs[r]
<1>1. SoundRun(run, case.calls[r])
  BY DEF Consistent
<1>2. IsRecord(run, RunFields) /\ IsRecord(run.from, Reading) /\ run.version \in Nat /\ run.gates \in {"frozen", "edited"}
  BY <1>1 DEF SoundRun
<1>3. QED
  BY <1>2, OnwardMoves

LEMMA StopsMoves ==
    ASSUME Consistent, NEW r \in Run, NEW kind, Does(r, kind), NEW how \in {"gave up", "done"}, Ends(r, how),
           UNCHANGED <<case, files, notes, crossed>>
    PROVE  Moves(r) /\ Ceases(r)
  BY EndsMoves DEF Does

LEMMA AssertFrozenMoves ==
    ASSUME Consistent, NEW r \in Run, AssertFrozen(r)
    PROVE  /\ Moves(r) /\ NextStep(r)[2] = "frozen"
           /\ Ceases(r) \/ (GoesOn(r) /\ runs'[r].notes = runs[r].notes /\ runs'[r].version = runs[r].version)
<1>1. Does(r, "read") /\ NextStep(r)[2] = "frozen" /\ UNCHANGED <<case, files, notes, crossed>>
  BY DEF AssertFrozen, Reads
<1>2. CASE Onward(r, runs[r])
  BY <1>1, <1>2, SameMoves
<1>3. CASE Ends(r, "gave up")
  BY <1>1, <1>3, StopsMoves
<1>4. QED
  BY <1>2, <1>3 DEF AssertFrozen

LEMMA ReadTextMoves ==
    ASSUME Consistent, NEW r \in Run, ReadText(r)
    PROVE  /\ Moves(r) /\ NextStep(r)[2] = "text"
           /\ \/ Ceases(r)
              \/ /\ GoesOn(r) /\ runs'[r].notes = runs[r].notes /\ runs'[r].version = runs[r].version
                 /\ files[Tracker].state # "torn"
<1>1. Does(r, "read") /\ NextStep(r)[2] = "text" /\ UNCHANGED <<case, files, notes, crossed>>
  BY DEF ReadText, Reads
<1>2. CASE Onward(r, runs[r]) /\ files[Tracker].state # "torn"
  BY <1>1, <1>2, SameMoves
<1>3. CASE Ends(r, "gave up")
  BY <1>1, <1>3, StopsMoves
<1>4. QED
  BY <1>2, <1>3 DEF ReadText

LEMMA ReadResultsMoves ==
    ASSUME Consistent, NEW r \in Run, ReadResults(r)
    PROVE  /\ Moves(r) /\ NextStep(r)[2] = "results"
           /\ Ceases(r) \/ (GoesOn(r) /\ runs'[r].notes = runs[r].notes /\ runs'[r].version = runs[r].version)
<1>1. Does(r, "read") /\ NextStep(r)[2] = "results" /\ UNCHANGED <<case, files, notes, crossed>>
  BY DEF ReadResults, Reads
<1>2. CASE Ends(r, "gave up")
  BY <1>1, <1>2, StopsMoves
<1>3. CASE ~Ends(r, "gave up")
  <2>1. PICK results : Onward(r, [runs[r] EXCEPT !.results = results])
    BY <1>3 DEF ReadResults
  <2> DEFINE run == runs[r]
             change == [run EXCEPT !.results = results]
  <2>2. SoundRun(run, case.calls[r])
    BY DEF Consistent
  <2>3. /\ IsRecord(change, RunFields) /\ change.gates = run.gates /\ change.from = run.from
        /\ change.state = run.state /\ change.program = run.program /\ change.at = run.at /\ change.open = run.open
        /\ change.version = run.version /\ change.made = run.made /\ change.notes = run.notes
    BY <2>2 DEF SoundRun, IsRecord, RunFields
  <2>4. change.version \in Nat /\ change.gates \in {"frozen", "edited"} /\ IsRecord(change.from, Reading)
    BY <2>2, <2>3 DEF SoundRun
  <2>5. Onward(r, change)
    BY <2>1
  <2> HIDE DEF change
  <2>6. QED
    BY <1>1, <2>3, <2>4, <2>5, OnwardMoves
<1>4. QED
  BY <1>2, <1>3

\* The notes of the file as it is, none if it is not whole.
LEMMA ReadNotesMoves ==
    ASSUME Consistent, NEW r \in Run, ReadNotes(r)
    PROVE  /\ Moves(r) /\ GoesOn(r) /\ NextStep(r)[2] = "notes" /\ runs'[r].version = files[Tracker].version
           /\ files[Tracker].state = "whole" =>
                \A f \in Seeds : NoteOf(runs'[r], f) = Parsed(files[Tracker].made.rows[f].note)
<1> DEFINE run == runs[r]
           file == files[Tracker]
           noted == {f \in Seeds : Parsed(file.made.rows[f].note) # "none"}
           read == IF file.state = "torn" THEN [f \in {} |-> "none"] ELSE [f \in noted |-> file.made.rows[f].note]
           change == [run EXCEPT !.notes = read, !.version = file.version]
<1>1. SoundRun(run, case.calls[r]) /\ SoundFile(Tracker, file)
  BY DEF Consistent
<1>2. Does(r, "read") /\ NextStep(r)[2] = "notes" /\ Onward(r, change) /\ UNCHANGED <<case, files, notes, crossed>>
  BY DEF ReadNotes, Reads
<1>3. ASSUME file.state = "whole", NEW f \in Seeds
      PROVE  (IF f \in DOMAIN read THEN read[f] ELSE "none") = Parsed(file.made.rows[f].note)
  <2>1. read = [g \in noted |-> file.made.rows[g].note]
    BY <1>3, SMTT(30)
  <2>2. CASE f \in noted
    BY <2>1, <2>2, SMTT(30) DEF Parsed
  <2>3. CASE f \notin noted
    BY <2>1, <2>3
  <2>4. QED
    BY <2>2, <2>3
<1> HIDE DEF read
<1>4. /\ IsRecord(change, RunFields) /\ change.gates = run.gates /\ change.from = run.from
      /\ change.state = run.state /\ change.program = run.program /\ change.at = run.at /\ change.open = run.open
      /\ change.version = file.version /\ change.made = run.made /\ change.notes = read
  BY <1>1 DEF SoundRun, IsRecord, RunFields
<1>5. change.version \in Nat /\ change.gates \in {"frozen", "edited"} /\ IsRecord(change.from, Reading)
  BY <1>1, <1>4 DEF SoundRun, SoundFile
<1> HIDE DEF change
<1>6. /\ Moves(r) /\ GoesOn(r) /\ runs'[r].notes = read /\ runs'[r].version = file.version
  BY <1>2, <1>4, <1>5, OnwardMoves
<1>7. QED
  BY <1>2, <1>3, <1>6 DEF NoteOf

\* What is computed is good for every file the run may write.
LEMMA ComputeMoves ==
    ASSUME Consistent, NEW r \in Run, Compute(r)
    PROVE  /\ Moves(r) /\ runs[r].program[runs[r].at] = Judge
           /\ \/ Ceases(r)
              \/ /\ GoesOn(r) /\ runs'[r].notes = runs[r].notes /\ runs'[r].version = runs[r].version
                 /\ \E seen : runs'[r].made = Makes(case.calls[r], seen, case.flaws, case.holdout, runs[r])
<1> DEFINE a == case.calls[r]
           run == runs[r]
<1>1. a \in Call /\ SoundRun(run, a)
  BY CallOf DEF Consistent
<1>2. Does(r, "judge") /\ UNCHANGED <<case, files, notes, crossed>>
  BY DEF Compute
<1>3. run.program[run.at] = Judge
  <2>1. run.at <= Len(run.program) /\ run.program[run.at][1] = "judge"
    BY <1>2, DoesStep
  <2>2. run.program = Program(a) /\ run.at \in 1..Len(Program(a))
    BY <1>1, <2>1, AtStep
  <2>3. QED
    BY <1>1, <2>1, <2>2, ProgramSteps
<1>4. PICK seen : LET made == Makes(a, seen, case.flaws, case.holdout, run)
                  IN  IF made = GivesUp THEN Ends(r, "gave up") ELSE Onward(r, [runs[r] EXCEPT !.made = made])
  BY DEF Compute
<1> DEFINE made == Makes(a, seen, case.flaws, case.holdout, run)
           change == [run EXCEPT !.made = made]
<1>5. CASE made = GivesUp
  <2>1. Ends(r, "gave up")
    BY <1>4, <1>5
  <2>2. QED
    BY <1>2, <1>3, <2>1, StopsMoves
<1>6. CASE made # GivesUp
  <2>1. Onward(r, change)
    BY <1>4, <1>6
  <2>2. run.gates \in {"frozen", "edited"}
    BY <1>1 DEF SoundRun
  <2>3. GoodMade(a, made)
    BY <1>1, <1>6, <2>2, MakesGood
  <2> HIDE DEF made
  <2>4. /\ IsRecord(change, RunFields) /\ change.gates = run.gates /\ change.from = run.from
        /\ change.state = run.state /\ change.program = run.program /\ change.at = run.at /\ change.open = run.open
        /\ change.version = run.version /\ change.made = made /\ change.notes = run.notes
    BY <1>1 DEF SoundRun, IsRecord, RunFields
  <2>5. change.version \in Nat /\ change.gates \in {"frozen", "edited"} /\ IsRecord(change.from, Reading)
    BY <1>1, <2>4 DEF SoundRun
  <2> HIDE DEF change
  <2>6. Moves(r) /\ GoesOn(r) /\ runs'[r].notes = run.notes /\ runs'[r].version = run.version /\ runs'[r].made = made
    BY <1>2, <2>1, <2>3, <2>4, <2>5, OnwardMoves
  <2>7. QED
    BY <1>3, <2>6 DEF made
<1>7. QED
  BY <1>5, <1>6

LEMMA AppendMoves ==
    ASSUME Consistent, NEW r \in Run, AppendEvent(r)
    PROVE  Moves(r) /\ GoesOn(r) /\ runs'[r].notes = runs[r].notes /\ runs'[r].version = runs[r].version /\ Does(r, "log")
  BY SameMoves DEF AppendEvent

LEMMA StopMoves ==
    ASSUME Consistent, NEW r \in Run, Exit(r) \/ Kill(r)
    PROVE  Moves(r) /\ Ceases(r)
<1>1. CASE Exit(r)
  BY <1>1, StopsMoves DEF Exit
<1>2. CASE Kill(r)
  BY <1>2, EndsMoves DEF Kill
<1>3. QED
  BY <1>1, <1>2

-----------------------------------------------------------------------------
(***************************************************************************)
(* The steps that change files.                                            *)
(***************************************************************************)

LEMMA Changed ==
    ASSUME NEW f, IsRecord(f, DOMAIN f), NEW x \in DOMAIN f, NEW v, NEW g, g = [f EXCEPT ![x] = v]
    PROVE  IsRecord(g, DOMAIN f) /\ DOMAIN g = DOMAIN f /\ g[x] = v /\ \A y \in DOMAIN f \ {x} : g[y] = f[y]
  BY DEF IsRecord

\* A run that writes a file, or has opened one, is at a write of its program.
LEMMA AtWrite ==
    ASSUME Consistent, NEW r \in Run, runs[r].open \/ Does(r, "write")
    PROVE  LET p == NextStep(r)[2]
               run == runs[r]
           IN  /\ p \in Targets(case.calls[r]) /\ NextStep(r) = Write(p)
               /\ run.at \in 1..Len(run.program) /\ run.program[run.at] = Write(p)
               /\ Len(run.program) \in Nat /\ run.program = Program(case.calls[r])
               /\ GoodMade(case.calls[r], run.made)
<1> DEFINE a == case.calls[r]
           run == runs[r]
           n == Len(run.program)
<1>1. a \in Call /\ SoundRun(run, a)
  BY CallOf DEF Consistent
<1>2. run.at <= n /\ run.program[run.at][1] = "write"
  <2>1. CASE run.open
    BY <1>1, <2>1 DEF SoundRun
  <2>2. CASE Does(r, "write")
    BY <2>2, DoesStep
  <2>3. QED
    BY <2>1, <2>2
<1>3. run.program = Program(a) /\ run.at \in 1..n /\ n \in Nat /\ run.at \in Nat
  BY <1>1, <1>2, AtStep
<1>4. NextStep(r) = run.program[run.at]
  BY <1>2 DEF NextStep
<1>5. /\ run.program[run.at][2] \in Targets(a) /\ run.program[run.at] = Write(run.program[run.at][2])
      /\ \E j \in 1..n : j < run.at /\ run.program[j] = Judge
  BY <1>1, <1>2, <1>3, ProgramSteps
<1>6. GoodMade(a, run.made)
  BY <1>1, <1>5 DEF SoundRun
<1>7. QED
  BY <1>3, <1>4, <1>5, <1>6

\* What opening a file does.
Opens(r, p) ==
    /\ UNCHANGED <<case, notes, log>>
    /\ IsRecord(files', DOMAIN files \cup {p}) /\ DOMAIN files' = DOMAIN files \cup {p}
    /\ \A q \in DOMAIN files \ {p} : files'[q] = files[q]
    /\ SoundFile(p, files'[p]) /\ files'[p].state = "torn" /\ files'[p].by = r
    /\ p \in DOMAIN files => files'[p].version = files[p].version + 1
    /\ crossed \subseteq crossed' /\ crossed' \subseteq crossed \cup {p}
    /\ BeingWritten(r, p) => p \in crossed'
    /\ p = Tracker /\ runs[r].version # files[p].version => p \in crossed'
    /\ IsRecord(runs', Run) /\ (\A o \in Run \ {r} : runs'[o] = runs[o])
    /\ SoundRun(runs'[r], case.calls[r]) /\ runs'[r].open = TRUE
    /\ \A x \in RunFields \ {"open"} : runs'[r][x] = runs[r][x]
    /\ runs[r].state = "running" /\ runs[r].open = FALSE /\ Does(r, "write")

LEMMA OpenOpens ==
    ASSUME Consistent, NEW r \in Run, Open(r)
    PROVE  Opens(r, NextStep(r)[2])
<1> DEFINE a == case.calls[r]
           run == runs[r]
           p == NextStep(r)[2]
           version == IF p \in DOMAIN files THEN files[p].version ELSE 0
           opened == [state |-> "torn", by |-> r, version |-> version + 1, made |-> Nothing]
           next == [run EXCEPT !.open = TRUE]
<1>1. SoundRun(run, a) /\ IsRecord(runs, Run) /\ Tracker \in DOMAIN files
  BY DEF Consistent
<1>2. Does(r, "write")
  BY DEF Open
<1>3. /\ run.state = "running" /\ run.open = FALSE /\ run.at \in 1..Len(run.program)
      /\ run.program[run.at] = Write(p) /\ Len(run.program) \in Nat
  BY <1>1, <1>2, DoesStep, AtWrite DEF SoundRun
<1>4. /\ SoundRun(next, a) /\ next.open = TRUE /\ \A x \in RunFields \ {"open"} : next[x] = run[x]
  <2>1. /\ IsRecord(next, RunFields) /\ next.open = TRUE /\ next.from = run.from /\ next.state = run.state
        /\ next.program = run.program /\ next.at = run.at /\ next.version = run.version /\ next.gates = run.gates
        /\ next.made = run.made /\ \A x \in RunFields \ {"open"} : next[x] = run[x]
    BY <1>1 DEF SoundRun, IsRecord, RunFields
  <2>2. run.at <= Len(run.program) /\ run.program[run.at][1] = "write"
    BY <1>3 DEF Write
  <2> HIDE DEF next, run, a
  <2>3. SoundRun(next, a)
    BY <1>1, <1>3, <2>1, <2>2 DEF SoundRun
  <2>4. QED
    BY <2>1, <2>3
<1>5. runs' = [runs EXCEPT ![r] = next]
  BY DEF Open
<1>6. /\ files' = [q \in DOMAIN files \cup {p} |-> IF q = p THEN opened ELSE files[q]]
      /\ crossed' = IF BeingWritten(r, p) \/ (p = Tracker /\ run.version # version) THEN crossed \cup {p} ELSE crossed
      /\ UNCHANGED <<case, notes, log>>
  BY DEF Open
<1> HIDE DEF next
<1>7. IsRecord(runs', Run) /\ runs'[r] = next /\ \A o \in Run \ {r} : runs'[o] = runs[o]
  BY <1>1, <1>5, OnlyRun
<1>8. version \in Nat
  BY DEF Consistent, SoundFile
<1>9. SoundFile(p, opened) /\ opened.state = "torn" /\ opened.by = r /\ opened.version = version + 1
  <2>1. GoodArtefact(p, Nothing)
    BY NoVerdictGood DEF Nothing
  <2>2. opened = [x \in {"state", "by", "version", "made"} |-> opened[x]]
    OBVIOUS
  <2>3. opened.version \in Nat /\ opened.state = "torn" /\ opened.made = Nothing
    BY <1>8
  <2> HIDE DEF opened
  <2>4. QED
    BY <2>1, <2>2, <2>3 DEF SoundFile, IsRecord, opened
<1> HIDE DEF opened
<1>10. /\ IsRecord(files', DOMAIN files \cup {p}) /\ DOMAIN files' = DOMAIN files \cup {p} /\ files'[p] = opened
       /\ \A q \in DOMAIN files \ {p} : files'[q] = files[q]
  BY <1>6 DEF IsRecord
<1>11. p \in DOMAIN files => version = files[p].version
  OBVIOUS
<1> HIDE DEF version
<1>12. /\ crossed \subseteq crossed' /\ crossed' \subseteq crossed \cup {p} /\ (BeingWritten(r, p) => p \in crossed')
       /\ p = Tracker /\ run.version # files[p].version => p \in crossed'
  BY <1>1, <1>6, <1>11
<1>13. QED
  BY <1>2, <1>3, <1>4, <1>6, <1>7, <1>9, <1>10, <1>11, <1>12 DEF Opens

\* What filling a file does.
Fills(r, p) ==
    /\ UNCHANGED <<case, notes, log, crossed>>
    /\ IsRecord(files', DOMAIN files) /\ DOMAIN files' = DOMAIN files /\ p \in DOMAIN files
    /\ \A q \in DOMAIN files \ {p} : files'[q] = files[q]
    /\ SoundFile(p, files'[p]) /\ files'[p].by = files[p].by /\ files'[p].version = files[p].version + 1
    /\ \/ files'[p].state = "whole" /\ files'[p].made = runs[r].made[p]
       \/ files[p].state = "whole" /\ files'[p].state = "torn"
    /\ IsRecord(runs', Run) /\ (\A o \in Run \ {r} : runs'[o] = runs[o])
    /\ SoundRun(runs'[r], case.calls[r]) /\ runs'[r].open = FALSE /\ runs'[r].at = runs[r].at + 1
    /\ \A x \in RunFields \ {"open", "at"} : runs'[r][x] = runs[r][x]
    /\ runs[r].state = "running" /\ runs[r].open = TRUE

LEMMA FillFills ==
    ASSUME Consistent, NEW r \in Run, Fill(r)
    PROVE  Fills(r, NextStep(r)[2])
<1> DEFINE a == case.calls[r]
           run == runs[r]
           p == NextStep(r)[2]
           file == files[p]
           next == [run EXCEPT !.open = FALSE, !.at = run.at + 1]
           whole == [file EXCEPT !.state = "whole", !.made = run.made[p], !.version = file.version + 1]
           mixed == [file EXCEPT !.state = "torn", !.made = Nothing, !.version = file.version + 1]
<1>1. a \in Call /\ SoundRun(run, a) /\ IsRecord(runs, Run) /\ Held(r) /\ IsRecord(files, DOMAIN files)
  BY CallOf DEF Consistent
<1>2. run.state = "running" /\ run.open /\ run.open = TRUE
  BY <1>1 DEF Fill, SoundRun
<1>3. p \in DOMAIN files
  BY <1>1, <1>2 DEF Held, Writing
<1>4. /\ p \in Targets(a) /\ run.at \in 1..Len(run.program) /\ run.program[run.at] = Write(p)
      /\ Len(run.program) \in Nat /\ GoodMade(a, run.made)
  BY <1>2, AtWrite
<1>5. SoundFile(p, file)
  BY <1>3 DEF Consistent
<1>6. /\ files' = [files EXCEPT ![p] = whole] \/ (file.state = "whole" /\ files' = [files EXCEPT ![p] = mixed])
      /\ runs' = [runs EXCEPT ![r] = next]
      /\ UNCHANGED <<case, notes, log, crossed>>
  <2>1. Onward(r, [run EXCEPT !.open = FALSE])
    BY DEF Fill
  <2>2. [[run EXCEPT !.open = FALSE] EXCEPT !.at = @ + 1] = next
    BY <1>1 DEF SoundRun, IsRecord, RunFields
  <2>3. runs' = [runs EXCEPT ![r] = next]
    BY <2>1, <2>2 DEF Onward
  <2>4. QED
    BY <2>3 DEF Fill
<1>7. /\ SoundRun(next, a) /\ next.open = FALSE /\ next.at = run.at + 1
      /\ \A x \in RunFields \ {"open", "at"} : next[x] = run[x]
  <2>1. /\ IsRecord(next, RunFields) /\ next.open = FALSE /\ next.at = run.at + 1 /\ next.from = run.from
        /\ next.state = run.state /\ next.program = run.program /\ next.version = run.version /\ next.gates = run.gates
        /\ next.made = run.made /\ \A x \in RunFields \ {"open", "at"} : next[x] = run[x]
    BY <1>1 DEF SoundRun, IsRecord, RunFields
  <2>2. /\ IsRecord(next.from, Reading) /\ next.version \in Nat /\ next.gates \in {"frozen", "edited"}
        /\ run.at <= Len(run.program) /\ next.state = "running"
    BY <1>1, <1>2, <1>4, <2>1 DEF SoundRun
  <2>3. GoodMade(a, next.made)
    BY <1>4, <2>1
  <2> HIDE DEF next, run, a
  <2>4. SoundRun(next, a)
    BY <1>1, <1>2, <2>1, <2>2, <2>3, OnwardSound
  <2>5. QED
    BY <2>1, <2>4
<1> HIDE DEF next
<1>8. IsRecord(runs', Run) /\ runs'[r] = next /\ \A o \in Run \ {r} : runs'[o] = runs[o]
  BY <1>1, <1>6, OnlyRun
<1>9. SoundFile(p, whole) /\ whole.by = file.by /\ whole.version = file.version + 1 /\ whole.state = "whole" /\ whole.made = run.made[p]
  <2>1. GoodArtefact(p, run.made[p]) /\ (p = Tracker => IsRows(run.made[p].rows))
    BY <1>4 DEF GoodMade
  <2>2. /\ IsRecord(whole, {"state", "by", "version", "made"}) /\ whole.by = file.by /\ whole.version = file.version + 1
        /\ whole.state = "whole" /\ whole.made = run.made[p]
    BY <1>5 DEF SoundFile, IsRecord
  <2>3. whole.version \in Nat
    BY <1>5, <2>2 DEF SoundFile
  <2> HIDE DEF whole
  <2>4. QED
    BY <2>1, <2>2, <2>3 DEF SoundFile
<1>10. SoundFile(p, mixed) /\ mixed.by = file.by /\ mixed.version = file.version + 1 /\ mixed.state = "torn"
  <2>1. GoodArtefact(p, Nothing)
    BY NoVerdictGood DEF Nothing
  <2>2. /\ IsRecord(mixed, {"state", "by", "version", "made"}) /\ mixed.by = file.by /\ mixed.version = file.version + 1
        /\ mixed.state = "torn" /\ mixed.made = Nothing
    BY <1>5 DEF SoundFile, IsRecord
  <2>3. mixed.version \in Nat
    BY <1>5, <2>2 DEF SoundFile
  <2> HIDE DEF mixed
  <2>4. QED
    BY <2>1, <2>2, <2>3 DEF SoundFile
<1> HIDE DEF whole, mixed, a, run, p, file
<1>11. PICK new \in {whole, mixed} :
          files' = [files EXCEPT ![p] = new] /\ (new = whole \/ file.state = "whole")
  BY <1>6
<1>12. /\ IsRecord(files', DOMAIN files) /\ DOMAIN files' = DOMAIN files /\ files'[p] = new
       /\ \A q \in DOMAIN files \ {p} : files'[q] = files[q]
  BY <1>1, <1>3, <1>11, Changed
<1>13. /\ SoundFile(p, new) /\ new.by = file.by /\ new.version = file.version + 1
       /\ (new.state = "whole" /\ new.made = run.made[p]) \/ (file.state = "whole" /\ new.state = "torn")
  BY <1>9, <1>10, <1>11
<1>14. QED
  BY <1>2, <1>3, <1>6, <1>7, <1>8, <1>12, <1>13 DEF Fills, a, run, p, file

\* What an edit of a note does.
Edits(f, note) ==
    /\ UNCHANGED <<case, log, runs, crossed>>
    /\ note \in {"noted", "barred", "revised"} /\ notes' = [notes EXCEPT ![f] = note]
    /\ files[Tracker].state = "whole"
    /\ IsRecord(files', DOMAIN files) /\ DOMAIN files' = DOMAIN files
    /\ \A q \in DOMAIN files \ {Tracker} : files'[q] = files[q]
    /\ SoundFile(Tracker, files'[Tracker]) /\ files'[Tracker].by = files[Tracker].by
    /\ files'[Tracker].version = files[Tracker].version + 1
    /\ files'[Tracker].state = "whole" /\ files'[Tracker].made.verdict = files[Tracker].made.verdict
    /\ files'[Tracker].made.rows[f].note = note
    /\ \A g \in Seeds \ {f} : files'[Tracker].made.rows[g].note = files[Tracker].made.rows[g].note

LEMMA EditEdits ==
    ASSUME Consistent, NEW f \in Seeds, EditNote(f)
    PROVE  \E note : Edits(f, note)
<1>1. PICK note \in {"noted", "barred", "revised"} :
        /\ notes' = [notes EXCEPT ![f] = note]
        /\ files' = [files EXCEPT ![Tracker].made.rows[f].note = note, ![Tracker].version = @ + 1]
  BY DEF EditNote
<1> DEFINE file == files[Tracker]
           rows == [file.made.rows EXCEPT ![f] = [@ EXCEPT !.note = note]]
           made == [file.made EXCEPT !.rows = rows]
           next == [file EXCEPT !.made = made, !.version = @ + 1]
<1>2. SoundFile(Tracker, file) /\ Tracker \in DOMAIN files /\ IsRecord(files, DOMAIN files)
  BY DEF Consistent
<1>3. file.state = "whole" /\ IsRows(file.made.rows) /\ GoodArtefact(Tracker, file.made)
  BY <1>2 DEF EditNote, SoundFile
<1>4. files' = [files EXCEPT ![Tracker] = next]
  <2>1. IsRecord(file, {"state", "by", "version", "made"})
    BY <1>2 DEF SoundFile
  <2>2. files' = [q \in DOMAIN files |-> IF q = Tracker THEN next ELSE files[q]]
    BY <1>1, <1>2, <2>1 DEF IsRecord
  <2>3. QED
    BY <1>2, <2>2 DEF IsRecord
<1>5. /\ IsRows(rows) /\ rows[f].note = note
      /\ \A g \in Seeds \ {f} : rows[g].note = file.made.rows[g].note
  <2> DEFINE old == file.made.rows
  <2>1. old = [g \in Seeds |-> [outcome |-> old[g].outcome, note |-> old[g].note]]
    BY <1>3 DEF IsRows
  <2>2. /\ DOMAIN rows = Seeds /\ rows = [g \in Seeds |-> rows[g]] /\ rows[f] = [old[f] EXCEPT !.note = note]
        /\ \A g \in Seeds \ {f} : rows[g] = old[g]
    <3> HIDE DEF old
    <3>1. rows = [old EXCEPT ![f] = [old[f] EXCEPT !.note = note]] /\ DOMAIN old = Seeds
      BY <2>1 DEF old
    <3> HIDE DEF rows
    <3>2. QED
      BY <3>1
  <2> HIDE DEF rows, old
  <2>3. old[f] = [outcome |-> old[f].outcome, note |-> old[f].note]
    BY <2>1
  <2>4. rows[f] = [outcome |-> rows[f].outcome, note |-> rows[f].note] /\ rows[f].note = note
    BY <2>2, <2>3
  <2>5. \A g \in Seeds \ {f} : rows[g] = [outcome |-> rows[g].outcome, note |-> rows[g].note]
    BY <2>1, <2>2
  <2>6. QED
    BY <2>2, <2>4, <2>5 DEF IsRows, old
<1> HIDE DEF rows
<1>6. GoodArtefact(Tracker, made) /\ made.rows = rows /\ made.verdict = file.made.verdict
  <2>1. /\ made = [verdict |-> made.verdict, periods |-> made.periods, rows |-> made.rows]
        /\ made.rows = rows /\ made.verdict = file.made.verdict /\ made.periods = file.made.periods
    BY <1>3 DEF GoodArtefact
  <2> HIDE DEF made
  <2>2. QED
    BY <1>3, <2>1 DEF GoodArtefact
<1> HIDE DEF made
<1>7. SoundFile(Tracker, next) /\ next.by = file.by /\ next.version = file.version + 1 /\ next.state = "whole" /\ next.made = made
  <2>1. /\ IsRecord(next, {"state", "by", "version", "made"}) /\ next.by = file.by /\ next.version = file.version + 1
        /\ next.state = "whole" /\ next.made = made
    BY <1>2, <1>3 DEF SoundFile, IsRecord
  <2>2. next.version \in Nat
    BY <1>2, <2>1 DEF SoundFile
  <2> HIDE DEF next
  <2>3. QED
    BY <1>5, <1>6, <2>1, <2>2 DEF SoundFile
<1> HIDE DEF next
<1>8. /\ IsRecord(files', DOMAIN files) /\ DOMAIN files' = DOMAIN files /\ files'[Tracker] = next
      /\ \A q \in DOMAIN files \ {Tracker} : files'[q] = files[q]
  BY <1>2, <1>4, Changed
<1>9. UNCHANGED <<case, log, runs, crossed>>
  BY DEF EditNote
<1>10. QED
  BY <1>1, <1>3, <1>5, <1>6, <1>7, <1>8, <1>9 DEF Edits

-----------------------------------------------------------------------------
(***************************************************************************)
(* The sorts of steps there are.                                           *)
(***************************************************************************)

\* What a run that goes on has read or made.
Informed(r) ==
    /\ \/ NextStep(r)[2] = "notes" /\ runs'[r].version = files[Tracker].version
          /\ (files[Tracker].state = "whole" =>
                 \A f \in Seeds : NoteOf(runs'[r], f) = Parsed(files[Tracker].made.rows[f].note))
       \/ NextStep(r) # Read("notes") /\ runs'[r].notes = runs[r].notes /\ runs'[r].version = runs[r].version
    /\ NextStep(r) = Read("text") => files[Tracker].state # "torn"
    /\ NextStep(r) = Judge => \E seen : runs'[r].made = Makes(case.calls[r], seen, case.flaws, case.holdout, runs[r])

\* A step of a run that changes no file.
Quiet(r) == Moves(r) /\ (GoesOn(r) => Informed(r)) /\ (log' = log \/ (AppendEvent(r) /\ GoesOn(r)))

LEMMA StepQuiet ==
    ASSUME Consistent, NEW r \in Run, Step(r) \/ Kill(r)
    PROVE  Open(r) \/ Fill(r) \/ Quiet(r)
<1>1. Read("notes")[2] = "notes" /\ Read("text")[2] = "text" /\ Judge[2] = "all" /\ Read("notes")[1] = "read" /\ Read("text")[1] = "read" /\ Judge[1] = "judge"
  BY DEF Read, Judge
<1>2. Ceases(r) \/ Begins(r) => ~GoesOn(r)
  BY DEF Ceases, Begins, GoesOn
<1>3. CASE Start(r)
  BY <1>2, <1>3, StartMoves DEF Quiet, Start
<1>4. CASE ReadMarket(r)
  <2>1. Informed(r)
    BY <1>1, <1>4, ReadMarketMoves DEF Informed
  <2>2. QED
    BY <1>4, <2>1, ReadMarketMoves DEF Quiet, ReadMarket
<1>5. CASE ReadGates(r)
  <2>1. Informed(r)
    BY <1>1, <1>5, ReadGatesMoves DEF Informed
  <2>2. QED
    BY <1>5, <2>1, ReadGatesMoves DEF Quiet, ReadGates
<1>6. CASE AssertFrozen(r)
  <2>1. GoesOn(r) => Informed(r)
    BY <1>1, <1>2, <1>6, AssertFrozenMoves DEF Informed
  <2>2. QED
    BY <1>6, <2>1, AssertFrozenMoves DEF Quiet, AssertFrozen
<1>7. CASE ReadResults(r)
  <2>1. GoesOn(r) => Informed(r)
    BY <1>1, <1>2, <1>7, ReadResultsMoves, SMTT(60) DEF Informed
  <2>2. QED
    BY <1>7, <2>1, ReadResultsMoves DEF Quiet, ReadResults
<1>8. CASE ReadNotes(r)
  <2>1. Informed(r)
    BY <1>1, <1>8, ReadNotesMoves DEF Informed
  <2>2. QED
    BY <1>8, <2>1, ReadNotesMoves DEF Quiet, ReadNotes
<1>9. CASE ReadText(r)
  <2>1. GoesOn(r) => Informed(r)
    BY <1>1, <1>2, <1>9, ReadTextMoves DEF Informed
  <2>2. QED
    BY <1>9, <2>1, ReadTextMoves DEF Quiet, ReadText
<1>10. CASE Compute(r)
  <2>1. NextStep(r) = Judge
    BY <1>10, ComputeMoves, DoesStep DEF Compute
  <2>2. GoesOn(r) => Informed(r)
    BY <1>1, <1>2, <1>10, <2>1, ComputeMoves DEF Informed
  <2>3. QED
    BY <1>10, <2>2, ComputeMoves DEF Quiet, Compute
<1>11. CASE AppendEvent(r)
  <2>1. NextStep(r)[1] = "log"
    BY <1>11, AppendMoves DEF Does
  <2>2. Informed(r)
    BY <1>1, <1>11, <2>1, AppendMoves DEF Informed
  <2>3. QED
    BY <1>11, <2>2, AppendMoves DEF Quiet
<1>12. CASE Exit(r) \/ Kill(r)
  <2>1. log' = log
    BY <1>12 DEF Exit, Kill
  <2>2. QED
    BY <1>2, <1>12, <2>1, StopMoves DEF Quiet
<1>13. QED
  BY <1>3, <1>4, <1>5, <1>6, <1>7, <1>8, <1>9, <1>10, <1>11, <1>12 DEF Step

Fixed == UNCHANGED <<case, files, log, runs, notes, crossed>>

LEMMA Sorts ==
    ASSUME Consistent, [Next]_vars
    PROVE  /\ db' \in {"market", "later"} /\ gates' \in {"frozen", "edited"}
           /\ \/ \E r \in Run : Quiet(r) \/ Opens(r, NextStep(r)[2]) \/ Fills(r, NextStep(r)[2])
              \/ \E f \in Seeds : \E note : Edits(f, note)
              \/ Fixed
<1>1. db \in {"market", "later"} /\ gates \in {"frozen", "edited"}
  BY DEF Consistent
<1>2. CASE \E r \in Run : Step(r) \/ Kill(r)
  <2>1. PICK r \in Run : Step(r) \/ Kill(r)
    BY <1>2, SMTT(30)
  <2>2. UNCHANGED <<db, gates>>
    BY <2>1 DEF Step, Start, ReadMarket, ReadGates, AssertFrozen, ReadResults, ReadNotes, ReadText, Compute, Open, Fill,
                AppendEvent, Exit, Kill
  <2>3. Quiet(r) \/ Opens(r, NextStep(r)[2]) \/ Fills(r, NextStep(r)[2])
    BY <2>1, StepQuiet, OpenOpens, FillFills
  <2>4. QED
    BY <1>1, <2>2, <2>3
<1>3. CASE Ingestion
  BY <1>1, <1>3 DEF Ingestion, Fixed
<1>4. CASE EditGates
  BY <1>1, <1>4 DEF EditGates, Fixed
<1>5. CASE \E f \in Seeds : EditNote(f)
  <2>1. UNCHANGED <<db, gates>>
    BY <1>5 DEF EditNote
  <2>2. QED
    BY <1>1, <1>5, <2>1, EditEdits
<1>6. CASE UNCHANGED vars
  BY <1>1, <1>6 DEF vars, Fixed
<1>7. QED
  BY <1>2, <1>3, <1>4, <1>5, <1>6 DEF Next

-----------------------------------------------------------------------------
(***************************************************************************)
(* Every sort of step keeps Consistent.                                    *)
(***************************************************************************)

\* A file that is held stays so for a run that does not change.
LEMMA StepStays ==
    ASSUME NEW r, runs'[r] = runs[r]
    PROVE  NextStep(r)' = NextStep(r) /\ Writing(r)' = Writing(r)
  BY DEF NextStep, Writing

LEMMA QuietConsistent ==
    ASSUME Consistent, NEW r \in Run, Quiet(r), db' \in {"market", "later"}, gates' \in {"frozen", "edited"}
    PROVE  Consistent'
<1>1. Moves(r)
  BY DEF Quiet
<1>2. UNCHANGED <<case, files, notes, crossed, Run>>
  BY <1>1 DEF Moves, Run
<1>3. \A o \in Run : SoundRun(runs'[o], case.calls[o])
  BY <1>1 DEF Moves, Consistent
<1>4. ~Writing(r)'
  BY <1>1 DEF Moves, Begins, Ceases, GoesOn, Writing
<1>5. ASSUME NEW o \in Run PROVE Held(o)'
  <2>1. CASE o = r
    BY <1>4, <2>1 DEF Held
  <2>2. CASE o # r
    <3>1. NextStep(o)' = NextStep(o) /\ Writing(o)' = Writing(o)
      BY <1>1, <2>2, StepStays DEF Moves
    <3>2. Held(o)
      BY DEF Consistent
    <3>3. QED
      BY <1>2, <3>1, <3>2 DEF Held
  <2>3. QED
    BY <2>1, <2>2
<1>6. IsRecord(runs', Run)
  BY <1>1 DEF Moves
<1>7. QED
  BY <1>2, <1>3, <1>5, <1>6 DEF Consistent

LEMMA OpensConsistent ==
    ASSUME Consistent, NEW r \in Run, NEW p, p = NextStep(r)[2], Opens(r, p),
           db' \in {"market", "later"}, gates' \in {"frozen", "edited"}
    PROVE  Consistent'
<1>1. UNCHANGED <<case, notes, Run>>
  BY DEF Opens, Run
<1>2. \A o \in Run : SoundRun(runs'[o], case.calls[o])
  BY DEF Opens, Consistent
<1>3. \A q \in DOMAIN files' : SoundFile(q, files'[q]) /\ files'[q].by \in Run \cup {0}
  BY DEF Opens, Consistent
<1>4. ASSUME NEW o \in Run, Writing(o)'
      PROVE  LET q == NextStep(o)'[2]
             IN  q \in DOMAIN files' /\ (q \in crossed' \/ (files'[q].by = o /\ files'[q].state = "torn"))
  <2>1. CASE o = r
    <3>1. runs'[r].at = runs[r].at /\ runs'[r].program = runs[r].program
      BY DEF Opens, RunFields
    <3>2. NextStep(r)' = NextStep(r)
      BY <3>1 DEF NextStep
    <3>3. QED
      BY <2>1, <3>2 DEF Opens
  <2>2. CASE o # r
    <3>1. runs'[o] = runs[o]
      BY <2>2 DEF Opens
    <3>2. NextStep(o)' = NextStep(o) /\ Writing(o)
      BY <1>4, <3>1, StepStays
    <3> DEFINE q == NextStep(o)[2]
    <3>3. q \in DOMAIN files /\ (q \in crossed \/ (files[q].by = o /\ files[q].state = "torn"))
      BY <3>2 DEF Held, Consistent
    <3>4. CASE q # p
      BY <3>2, <3>3, <3>4 DEF Opens
    <3>5. CASE q = p
      <4>1. NextStep(o) = Write(p)
        BY <3>2, <3>5, AtWrite DEF Writing
      <4>2. BeingWritten(r, p)
        BY <2>2, <3>2, <4>1 DEF BeingWritten, Writing
      <4>3. QED
        BY <3>2, <3>5, <4>2 DEF Opens
    <3>6. QED
      BY <3>4, <3>5
  <2>3. QED
    BY <2>1, <2>2
<1>5. \A o \in Run : Held(o)'
  BY <1>4 DEF Held
<1>6. /\ IsRecord(runs', Run) /\ IsRecord(files', DOMAIN files') /\ Tracker \in DOMAIN files'
      /\ crossed' \subseteq DOMAIN files'
  BY DEF Opens, Consistent
<1>7. QED
  BY <1>1, <1>2, <1>3, <1>5, <1>6 DEF Consistent

LEMMA FillsConsistent ==
    ASSUME Consistent, NEW r \in Run, NEW p, p = NextStep(r)[2], Fills(r, p),
           db' \in {"market", "later"}, gates' \in {"frozen", "edited"}
    PROVE  Consistent'
<1>1. UNCHANGED <<case, notes, crossed, Run>>
  BY DEF Fills, Run
<1>2. \A o \in Run : SoundRun(runs'[o], case.calls[o])
  BY DEF Fills, Consistent
<1>3. \A q \in DOMAIN files' : SoundFile(q, files'[q]) /\ files'[q].by \in Run \cup {0}
  BY DEF Fills, Consistent
<1>4. ASSUME NEW o \in Run, Writing(o)'
      PROVE  LET q == NextStep(o)'[2]
             IN  q \in DOMAIN files' /\ (q \in crossed' \/ (files'[q].by = o /\ files'[q].state = "torn"))
  <2>1. o # r
    BY <1>4 DEF Writing, Fills
  <2>2. runs'[o] = runs[o]
    BY <2>1 DEF Fills
  <2>3. NextStep(o)' = NextStep(o) /\ Writing(o)
    BY <1>4, <2>2, StepStays
  <2> DEFINE q == NextStep(o)[2]
  <2>4. q \in DOMAIN files /\ (q \in crossed \/ (files[q].by = o /\ files[q].state = "torn"))
    BY <2>3 DEF Held, Consistent
  <2>5. CASE q # p
    BY <1>1, <2>3, <2>4, <2>5 DEF Fills
  <2>6. CASE q = p
    <3>1. p \in crossed \/ files[p].by = r
      BY DEF Held, Consistent, Writing, Fills
    <3>2. q \in crossed
      BY <2>1, <2>4, <2>6, <3>1
    <3>3. QED
      BY <1>1, <2>3, <2>4, <3>2 DEF Fills
  <2>7. QED
    BY <2>5, <2>6
<1>5. \A o \in Run : Held(o)'
  BY <1>4 DEF Held
<1>6. /\ IsRecord(runs', Run) /\ IsRecord(files', DOMAIN files') /\ Tracker \in DOMAIN files'
      /\ crossed' \subseteq DOMAIN files'
  BY DEF Fills, Consistent
<1>7. QED
  BY <1>1, <1>2, <1>3, <1>5, <1>6 DEF Consistent

LEMMA EditsConsistent ==
    ASSUME Consistent, NEW f \in Seeds, NEW note, Edits(f, note),
           db' \in {"market", "later"}, gates' \in {"frozen", "edited"}
    PROVE  Consistent'
<1>1. UNCHANGED <<case, runs, crossed, Run>>
  BY DEF Edits, Run
<1>2. \A q \in DOMAIN files' : SoundFile(q, files'[q]) /\ files'[q].by \in Run \cup {0}
  BY DEF Edits, Consistent
<1>3. ASSUME NEW o \in Run, Writing(o)'
      PROVE  LET q == NextStep(o)'[2]
             IN  q \in DOMAIN files' /\ (q \in crossed' \/ (files'[q].by = o /\ files'[q].state = "torn"))
  <2>1. NextStep(o)' = NextStep(o) /\ Writing(o)
    BY <1>1, <1>3, StepStays
  <2> DEFINE q == NextStep(o)[2]
  <2>2. q \in DOMAIN files /\ (q \in crossed \/ (files[q].by = o /\ files[q].state = "torn"))
    BY <2>1 DEF Held, Consistent
  <2>3. QED
    BY <1>1, <2>1, <2>2 DEF Edits
<1>4. \A o \in Run : Held(o)'
  BY <1>3 DEF Held
<1>5. notes' \in [Seeds -> {"none", "noted", "barred", "revised"}]
  BY DEF Edits, Consistent
<1>6. IsRecord(files', DOMAIN files') /\ Tracker \in DOMAIN files' /\ crossed' \subseteq DOMAIN files'
  BY DEF Edits, Consistent
<1>7. QED
  BY <1>1, <1>2, <1>4, <1>5, <1>6 DEF Consistent

LEMMA FixedConsistent ==
    ASSUME Consistent, Fixed, db' \in {"market", "later"}, gates' \in {"frozen", "edited"}
    PROVE  Consistent'
<1>1. UNCHANGED <<case, files, runs, notes, crossed, Run>>
  BY DEF Fixed, Run
<1>2. ASSUME NEW o \in Run PROVE Held(o)'
  BY <1>1, StepStays, SMTT(30) DEF Consistent, Held
<1>3. QED
  BY <1>1, <1>2 DEF Consistent

-----------------------------------------------------------------------------
(***************************************************************************)
(* What has been written stays, what is logged has been written.           *)
(***************************************************************************)

\* What was judged again says the same of what was written before.
LEMMA JudgedAgain ==
    ASSUME Consistent, NEW r \in Run, SoundRun(runs'[r], case.calls[r]), GoesOn(r),
           NEW i \in 1..Len(runs[r].program), i < runs[r].at, runs[r].program[i][1] = "write"
    PROVE  LET p == runs[r].program[i][2] IN runs'[r].made[p].verdict = runs[r].made[p].verdict
<1> DEFINE a == case.calls[r]
           run == runs[r]
           next == runs'[r]
           n == Len(run.program)
           p == run.program[i][2]
<1>1. a \in Call /\ SoundRun(run, a) /\ SoundRun(next, a)
  BY CallOf DEF Consistent
<1>2. /\ run.state = "running" /\ run.at <= n /\ next.at = run.at + 1 /\ next.program = run.program
      /\ run.program[run.at] = Judge \/ next.made = run.made
  BY DEF GoesOn
<1>3. run.program = Program(a) /\ run.at \in 1..n /\ run.at \in Nat /\ n \in Nat
  BY <1>1, <1>2, AtStep
<1>4. CASE next.made = run.made
  BY <1>4
<1>5. CASE run.program[run.at] = Judge
  <2>1. p \in Targets(a) /\ \E j \in 1..n : j < i /\ run.program[j] = Judge
    BY <1>1, <1>3, ProgramSteps
  <2>2. p = NearMissFile
    BY <1>1, <1>3, <1>5, ProgramSteps
  <2>3. PICK j \in 1..n : j < i /\ run.program[j] = Judge
    BY <2>1
  <2>4. j < run.at /\ j < next.at
    BY <1>2, <1>3, <2>3
  <2>5. GoodMade(a, run.made) /\ GoodMade(a, next.made)
    BY <1>1, <1>2, <2>3, <2>4, ZenonT(60) DEF SoundRun
  <2>6. QED
    BY <2>1, <2>2, <2>5 DEF GoodMade
<1>6. QED
  BY <1>2, <1>4, <1>5

\* What Written asks of the state after a step.
LEMMA WrittenNext ==
    ASSUME Run' = Run,
           ASSUME NEW o \in Run, NEW i \in 1..Len(runs'[o].program),
                  i < runs'[o].at, runs'[o].program[i][1] = "write", NEW q, q = runs'[o].program[i][2]
           PROVE  Kept(o, q)'
    PROVE  Written'
  BY SMTT(60) DEF Written, Kept

LEMMA QuietWritten ==
    ASSUME Consistent, Written, NEW r \in Run, Moves(r)
    PROVE  Written'
<1>1. UNCHANGED <<files, crossed, Run>>
  BY DEF Moves, Run
<1>2. ASSUME NEW o \in Run, NEW i \in 1..Len(runs'[o].program), i < runs'[o].at, runs'[o].program[i][1] = "write",
             NEW q, q = runs'[o].program[i][2]
      PROVE  Kept(o, q)'
  <2>1. CASE o # r
    <3>1. runs'[o] = runs[o]
      BY <2>1 DEF Moves
    <3>2. Kept(o, q) /\ NextStep(o)' = NextStep(o)
      BY <1>2, <3>1, StepStays DEF Written
    <3>3. QED
      BY <1>1, <3>1, <3>2 DEF Kept
  <2>2. CASE o = r /\ Begins(r)
    BY <1>2, <2>2 DEF Begins
  <2>3. CASE o = r /\ Ceases(r)
    <3>1. /\ runs'[r].program = runs[r].program /\ runs'[r].at = runs[r].at /\ runs'[r].open = runs[r].open
          /\ runs'[r].made = runs[r].made
      BY <2>3 DEF Ceases, RunFields
    <3>2. NextStep(r)' = NextStep(r)
      BY <3>1 DEF NextStep
    <3>3. Kept(r, q)
      BY <1>2, <2>3, <3>1 DEF Written
    <3>4. QED
      BY <1>1, <2>3, <3>1, <3>2, <3>3 DEF Kept
  <2>4. CASE o = r /\ GoesOn(r)
    <3> DEFINE run == runs[r]
    <3>1. run.open = FALSE /\ runs'[r].program = run.program /\ runs'[r].at = run.at + 1 /\ run.program[run.at][1] # "write"
      BY <2>4 DEF GoesOn
    <3>2. run.at \in 1..Len(run.program) + 1 /\ SoundRun(runs'[r], case.calls[r]) /\ Len(run.program) \in Nat
      <4>1. run.at <= Len(run.program)
        BY <2>4 DEF GoesOn
      <4>2. case.calls[r] \in Call /\ SoundRun(run, case.calls[r])
        BY CallOf DEF Consistent
      <4>3. QED
        BY <4>1, <4>2, AtStep DEF Moves
    <3>3. i \in 1..Len(run.program) /\ i < run.at /\ run.program[i][1] = "write"
      <4>1. i \in 1..Len(run.program) /\ i < run.at + 1 /\ run.program[i][1] = "write" /\ i # run.at
        BY <1>2, <2>4, <3>1
      <4>2. QED
        BY <3>2, <4>1
    <3>4. Kept(r, q)
      BY <1>2, <2>4, <3>1, <3>3, SMTT(30) DEF Written
    <3>5. runs'[r].made[q].verdict = run.made[q].verdict
      BY <1>2, <2>4, <3>1, <3>2, <3>3, JudgedAgain
    <3>6. QED
      BY <1>1, <2>4, <3>1, <3>4, <3>5 DEF Kept
  <2>5. QED
    BY <2>1, <2>2, <2>3, <2>4 DEF Moves
<1>3. QED
  BY <1>1, <1>2, WrittenNext

LEMMA OpensWritten ==
    ASSUME Consistent, Written, NEW r \in Run, NEW p, p = NextStep(r)[2], Opens(r, p)
    PROVE  Written'
<1>1. Run' = Run
  BY DEF Opens, Run
<1>2. /\ runs'[r].program = runs[r].program /\ runs'[r].at = runs[r].at /\ runs'[r].made = runs[r].made
      /\ runs'[r].open = TRUE
  BY DEF Opens, RunFields
<1>3. NextStep(r)' = NextStep(r)
  BY <1>2 DEF NextStep
<1>4. ASSUME NEW o \in Run, NEW i \in 1..Len(runs'[o].program), i < runs'[o].at, runs'[o].program[i][1] = "write",
             NEW q, q = runs'[o].program[i][2]
      PROVE  Kept(o, q)'
  <2>1. /\ runs'[o].program = runs[o].program /\ runs'[o].at = runs[o].at /\ runs'[o].made = runs[o].made
        /\ NextStep(o)' = NextStep(o) /\ (o = r \/ runs'[o] = runs[o])
    BY <1>2, <1>3, StepStays DEF Opens
  <2>2. Kept(o, q)
    BY <1>4, <2>1 DEF Written
  <2>3. CASE q # p
    <3>1. q \in DOMAIN files' /\ files'[q] = files[q] /\ (q \in crossed => q \in crossed')
      BY <2>2, <2>3 DEF Opens, Kept
    <3>2. runs[o].open => runs'[o].open
      BY <1>2, <2>1
    <3>3. QED
      BY <2>1, <2>2, <3>1, <3>2 DEF Kept
  <2>4. CASE q = p /\ o = r
    BY <1>2, <1>3, <2>1, <2>4 DEF Kept, Opens
  <2>5. CASE q = p /\ o # r
    <3>1. p \in DOMAIN files' /\ files'[p].by # o
      BY <2>5, SMTT(30) DEF Opens
    <3>2. QED
      BY <2>1, <2>5, <3>1 DEF Kept
  <2>6. QED
    BY <2>3, <2>4, <2>5
<1>5. QED
  BY <1>1, <1>4, WrittenNext

LEMMA FillsWritten ==
    ASSUME Consistent, Written, NEW r \in Run, NEW p, p = NextStep(r)[2], Fills(r, p)
    PROVE  Written'
<1>1. Run' = Run /\ crossed' = crossed
  BY DEF Fills, Run
<1>2. /\ runs'[r].program = runs[r].program /\ runs'[r].at = runs[r].at + 1 /\ runs'[r].made = runs[r].made
      /\ runs'[r].open = FALSE /\ runs[r].open
  BY DEF Fills, RunFields
<1>3. p \in crossed \/ (files[p].by = r /\ files[p].state = "torn")
  BY DEF Consistent, Held, Writing, Fills
<1>4. runs[r].program[runs[r].at] = Write(p) /\ runs[r].at \in 1..Len(runs[r].program) /\ Len(runs[r].program) \in Nat
  BY <1>2, AtWrite
\* The file that was just filled.
<1>5. Kept(r, p)'
  <2>1. p \in DOMAIN files'
    BY DEF Fills
  <2>2. CASE p \in crossed
    BY <1>1, <2>1, <2>2 DEF Kept
  <2>3. CASE files[p].state = "torn"
    <3>1. files'[p].state = "whole" /\ files'[p].made = runs[r].made[p]
      BY <2>3 DEF Fills
    <3>2. QED
      BY <1>2, <2>1, <3>1 DEF Kept
  <2>4. QED
    BY <1>3, <2>2, <2>3
<1>6. ASSUME NEW o \in Run, NEW i \in 1..Len(runs'[o].program), i < runs'[o].at, runs'[o].program[i][1] = "write",
             NEW q, q = runs'[o].program[i][2]
      PROVE  Kept(o, q)'
  <2>1. CASE o = r
    <3>1. CASE i = runs[r].at
      <4>1. q = p
        BY <1>2, <1>4, <1>6, <2>1, <3>1 DEF Write
      <4>2. QED
        BY <1>5, <2>1, <4>1
    <3>2. CASE i # runs[r].at
      <4>1. i \in 1..Len(runs[r].program) /\ i < runs[r].at /\ runs[r].program[i][1] = "write"
        BY <1>2, <1>4, <1>6, <2>1, <3>2, SMTT(30)
      <4>2. Kept(r, q)
        BY <1>2, <1>6, <2>1, <4>1 DEF Written
      <4>3. CASE q = p
        BY <1>5, <2>1, <4>3
      <4>4. CASE q # p
        <5>1. files'[q] = files[q] /\ DOMAIN files' = DOMAIN files
          BY <4>2, <4>4 DEF Fills, Kept
        <5>2. QED
          BY <1>1, <1>2, <2>1, <4>2, <4>4, <5>1 DEF Kept
      <4>5. QED
        BY <4>3, <4>4
    <3>3. QED
      BY <3>1, <3>2
  <2>2. CASE o # r
    <3>1. runs'[o] = runs[o]
      BY <2>2 DEF Fills
    <3>2. Kept(o, q) /\ NextStep(o)' = NextStep(o)
      BY <1>6, <3>1, StepStays DEF Written
    <3>3. CASE q # p
      <4>1. files'[q] = files[q] /\ DOMAIN files' = DOMAIN files
        BY <3>2, <3>3 DEF Fills, Kept
      <4>2. QED
        BY <1>1, <3>1, <3>2, <4>1 DEF Kept
    <3>4. CASE q = p
      <4>1. DOMAIN files' = DOMAIN files /\ files'[p].by = files[p].by
        BY DEF Fills
      <4>2. p \in crossed \/ files[p].by # o
        BY <1>3, <2>2, SMTT(30)
      <4>3. QED
        BY <1>1, <3>1, <3>2, <3>4, <4>1, <4>2 DEF Kept
    <3>5. QED
      BY <3>3, <3>4
  <2>3. QED
    BY <2>1, <2>2
<1>7. QED
  BY <1>1, <1>6, WrittenNext

LEMMA EditsWritten ==
    ASSUME Consistent, Written, NEW f, NEW note, Edits(f, note)
    PROVE  Written'
<1>1. UNCHANGED <<Run, runs, crossed>>
  BY DEF Edits, Run
<1>2. /\ DOMAIN files' = DOMAIN files
      /\ \A q \in DOMAIN files : files'[q].by = files[q].by /\ files'[q].state = files[q].state
                                 /\ files'[q].made.verdict = files[q].made.verdict
  BY DEF Edits
<1>3. ASSUME NEW o \in Run, NEW q, Kept(o, q) PROVE Kept(o, q)'
  <2>1. NextStep(o)' = NextStep(o)
    BY <1>1, StepStays, SMTT(30)
  <2>2. QED
    BY <1>1, <1>2, <1>3, <2>1 DEF Kept
<1>4. ASSUME NEW o \in Run, NEW i \in 1..Len(runs'[o].program), i < runs'[o].at, runs'[o].program[i][1] = "write",
             NEW q, q = runs'[o].program[i][2]
      PROVE  Kept(o, q)'
  BY <1>1, <1>3, <1>4 DEF Written
<1>5. QED
  BY <1>1, <1>4, WrittenNext

LEMMA FixedWritten ==
    ASSUME Written, Fixed
    PROVE  Written'
<1>1. UNCHANGED <<Run, runs, files, crossed>>
  BY DEF Fixed, Run
<1>2. ASSUME NEW o, NEW q, Kept(o, q) PROVE Kept(o, q)'
  <2>1. NextStep(o)' = NextStep(o)
    BY <1>1, StepStays
  <2>2. QED
    BY <1>1, <1>2, <2>1 DEF Kept
<1>3. ASSUME NEW o \in Run, NEW i \in 1..Len(runs'[o].program), i < runs'[o].at, runs'[o].program[i][1] = "write",
             NEW q, q = runs'[o].program[i][2]
      PROVE  Kept(o, q)'
  BY <1>1, <1>2, <1>3 DEF Written
<1>4. QED
  BY <1>1, <1>3, WrittenNext

LEMMA Appended ==
    ASSUME NEW s, s \in Seq({s[i] : i \in DOMAIN s}), NEW e, NEW t, t = Append(s, e)
    PROVE  /\ t \in Seq({t[i] : i \in DOMAIN t})
           /\ \A i \in DOMAIN t : t[i] = e \/ (i \in DOMAIN s /\ t[i] = s[i])
<1> DEFINE S == {s[i] : i \in DOMAIN s}
<1> HIDE DEF S
<1>1. s \in Seq(S)
  BY DEF S
<1>2. s \in Seq(S \cup {e})
  BY <1>1
<1>3. /\ t \in Seq(S \cup {e}) /\ DOMAIN t = 1..Len(t) /\ Len(t) = Len(s) + 1 /\ Len(s) \in Nat /\ DOMAIN s = 1..Len(s)
      /\ t[Len(t)] = e /\ \A i \in 1..Len(s) : t[i] = s[i]
  BY <1>2
<1>4. \A i \in DOMAIN t : t[i] = e \/ (i \in DOMAIN s /\ t[i] = s[i])
  BY <1>3
<1>5. t \in Seq({t[i] : i \in DOMAIN t})
  <2> DEFINE T == {t[i] : i \in DOMAIN t}
  <2>1. \A i \in DOMAIN t : t[i] \in T
    OBVIOUS
  <2> HIDE DEF T
  <2>2. t \in Seq(T)
    BY <1>3, <2>1
  <2>3. QED
    BY <2>2 DEF T
<1>6. QED
  BY <1>4, <1>5

\* A run that has gone through its program can only end.
LEMMA PastEnd ==
    ASSUME Consistent, NEW o \in Run, runs[o].state # "idle", runs[o].at > Len(runs[o].program),
           NEW r \in Run, Moves(r) \/ Opens(r, NextStep(r)[2]) \/ Fills(r, NextStep(r)[2])
    PROVE  /\ runs'[o].at = runs[o].at /\ runs'[o].program = runs[o].program /\ runs'[o].made = runs[o].made
           /\ runs'[o].state # "idle"
<1>1. CASE o # r
  BY <1>1 DEF Moves, Opens, Fills
<1>2. CASE o = r
  <2>1. ~(runs[r].at <= Len(runs[r].program))
    <3>1. SoundRun(runs[r], case.calls[r]) /\ case.calls[r] \in Call
      BY CallOf DEF Consistent
    <3>2. SUFFICES ASSUME runs[r].at <= Len(runs[r].program) PROVE FALSE
      OBVIOUS
    <3>3. runs[r].at \in Nat /\ Len(runs[r].program) \in Nat
      BY <3>1, <3>2, AtStep
    <3>4. QED
      BY <1>2, <3>2, <3>3
  <2>2. ~Does(r, "write") /\ ~runs[r].open
    <3>1. SUFFICES ASSUME runs[r].open \/ Does(r, "write") PROVE FALSE
      OBVIOUS
    <3>2. runs[r].at \in 1..Len(runs[r].program) /\ Len(runs[r].program) \in Nat
      BY <3>1, AtWrite
    <3>3. QED
      BY <2>1, <3>2
  <2>3. Moves(r) /\ ~GoesOn(r) /\ ~Begins(r)
    BY <1>2, <2>1, <2>2 DEF Opens, Fills, GoesOn, Begins
  <2>4. Ceases(r)
    BY <2>3 DEF Moves
  <2>5. QED
    BY <1>2, <2>4 DEF Ceases, RunFields
<1>3. QED
  BY <1>1, <1>2

LEMMA StillSound ==
    ASSUME Consistent, NEW r \in Run, Moves(r) \/ Opens(r, NextStep(r)[2]) \/ Fills(r, NextStep(r)[2]),
           NEW e, LogSound(e)
    PROVE  LogSound(e)'
<1>1. Run' = Run
  BY DEF Moves, Opens, Fills, Run
<1>2. /\ e.run \in Run /\ runs[e.run].state # "idle" /\ runs[e.run].at > Len(runs[e.run].program)
  BY DEF LogSound
<1>3. /\ runs'[e.run].at = runs[e.run].at /\ runs'[e.run].program = runs[e.run].program
      /\ runs'[e.run].made = runs[e.run].made /\ runs'[e.run].state # "idle"
  BY <1>2, PastEnd
<1>4. QED
  BY <1>1, <1>2, <1>3 DEF LogSound

\* A run logs at the end of its program, what it has made of what it writes.
LEMMA AppendSound ==
    ASSUME Consistent, NEW r \in Run, Moves(r), GoesOn(r), AppendEvent(r), log' # log
    PROVE  \E e : log' = Append(log, e) /\ LogSound(e)'
<1> DEFINE run == runs[r]
           n == Len(run.program)
           written == {p \in DOMAIN run.made : \E i \in DOMAIN run.program : run.program[i] = Write(p)}
           e == [run |-> r, verdicts |-> [p \in written |-> run.made[p].verdict]]
<1>1. Does(r, "log") /\ \E x : x = e /\ log' = Append(log, x)
  BY DEF AppendEvent
<1>2. /\ run.at <= n /\ run.program[run.at][1] = "log" /\ run.state = "running"
  BY <1>1, DoesStep
<1>3. case.calls[r] \in Call /\ SoundRun(run, case.calls[r])
  BY CallOf DEF Consistent
<1>4. run.program = Program(case.calls[r]) /\ run.at \in 1..n /\ n \in Nat
  BY <1>2, <1>3, AtStep
<1>5. run.at = n
  BY <1>2, <1>3, <1>4, ProgramSteps
<1>6. /\ runs'[r].at = n + 1 /\ runs'[r].program = run.program /\ runs'[r].state = "running"
      /\ runs'[r].made = run.made
  BY <1>2, <1>5 DEF GoesOn, Judge
<1>7. DOMAIN run.program = 1..n
  <2>1. run.program \in Seq(StepOf(Targets(case.calls[r])))
    BY <1>3, <1>4, ProgramTidy DEF Tidy
  <2>2. QED
    BY <2>1
<1>8. Run' = Run
  BY DEF Moves, Run
<1>9. PICK x : x = e /\ log' = Append(log, x)
  BY <1>1
<1>10. x.run = r /\ DOMAIN x.verdicts = written /\ \A p \in written : x.verdicts[p] = run.made[p].verdict
  BY <1>9
<1>11. \A p \in written : p \in DOMAIN run.made /\ \E i \in 1..n : run.program[i] = Write(p)
  BY <1>7
<1>12. n + 1 > n
  BY <1>4
<1> HIDE DEF e, written
<1>13. /\ DOMAIN x.verdicts \subseteq DOMAIN run.made
       /\ \A p \in DOMAIN x.verdicts : (\E i \in 1..n : run.program[i] = Write(p)) /\ x.verdicts[p] = run.made[p].verdict
  BY <1>10, <1>11
<1>14. LogSound(x)'
  BY <1>6, <1>8, <1>10, <1>12, <1>13 DEF LogSound
<1>15. QED
  BY <1>9, <1>14

LEMMA RunLogged ==
    ASSUME Consistent, Logged, NEW r \in Run, Quiet(r) \/ Opens(r, NextStep(r)[2]) \/ Fills(r, NextStep(r)[2])
    PROVE  Logged'
<1>1. ASSUME NEW x, LogSound(x) PROVE LogSound(x)'
  BY <1>1, StillSound DEF Quiet
<1>2. ASSUME NEW i \in DOMAIN log, NEW x, x = log[i] PROVE LogSound(x)'
  BY <1>1, <1>2 DEF Logged
<1>3. CASE log' = log
  <2>1. ASSUME NEW i \in DOMAIN log', NEW x, x = log'[i] PROVE LogSound(x)'
    BY <1>2, <1>3, <2>1
  <2>2. (\A i \in DOMAIN log : LogSound(log[i]))'
    BY <2>1 DEF LogSound
  <2>3. (log \in Seq({log[i] : i \in DOMAIN log}))'
    BY <1>3 DEF Logged
  <2>4. QED
    BY <2>2, <2>3 DEF Logged
<1>4. CASE log' # log
  <2>1. Quiet(r)
    BY <1>4 DEF Opens, Fills
  <2>2. PICK e : log' = Append(log, e) /\ LogSound(e)'
    BY <1>4, <2>1, AppendSound DEF Quiet
  <2>3. /\ log' \in Seq({log'[i] : i \in DOMAIN log'})
        /\ \A i \in DOMAIN log' : log'[i] = e \/ (i \in DOMAIN log /\ log'[i] = log[i])
    BY <2>2, Appended, SMTT(30) DEF Logged
  <2>4. ASSUME NEW i \in DOMAIN log', NEW x, x = log'[i] PROVE LogSound(x)'
    BY <1>2, <2>2, <2>3, <2>4
  <2>5. (\A i \in DOMAIN log : LogSound(log[i]))'
    BY <2>4 DEF LogSound
  <2>6. QED
    BY <2>3, <2>5 DEF Logged
<1>5. QED
  BY <1>3, <1>4

LEMMA OtherLogged ==
    ASSUME Logged, UNCHANGED <<case, runs, log>>
    PROVE  Logged'
<1>1. Run' = Run
  BY DEF Run
<1>2. ASSUME NEW x, LogSound(x) PROVE LogSound(x)'
  BY <1>1, <1>2 DEF LogSound
<1>3. ASSUME NEW i \in DOMAIN log, NEW x, x = log[i] PROVE LogSound(x)'
  BY <1>2, <1>3 DEF Logged
<1>4. QED
  BY <1>3 DEF Logged, LogSound

-----------------------------------------------------------------------------
(***************************************************************************)
(* The notes of the tracker.                                               *)
(***************************************************************************)

LEMMA TrackerRun ==
    ASSUME NEW a \in Call, a.script = "tracker"
    PROVE  /\ Targets(a) = {Tracker} /\ Len(Program(a)) = 5
           /\ Program(a)[1] = Read("notes") /\ Program(a)[2] = Read("results") /\ Program(a)[3] = Judge
           /\ Program(a)[4] = Read("text") /\ Program(a)[5] = Write(Tracker)
<1>1. Program(a) = <<Read("notes"), Read("results"), Judge, Read("text"), Write(Tracker)>>
  BY DEF Program, TrackerProgram, Tracker
<1>2. QED
  BY <1>1 DEF Targets

LEMMA OnlyTracker ==
    ASSUME NEW a \in Call, Tracker \in Targets(a)
    PROVE  a.script = "tracker"
<1>1. Tracker[1] = "tracker" /\ a.script \in Script
  BY DEF Tracker, Call
<1>2. SUFFICES ASSUME a.script # "tracker" PROVE FALSE
  OBVIOUS
<1>3. CASE a.script = "robustness"
  <2>1. Targets(a) = {<<"v3", i>> : i \in 1..4} \cup {<<"v4", f>> : f \in ActiveSet} \cup {<<"robustness", "">>}
    BY <1>3 DEF Targets
  <2>2. \A p \in Targets(a) : p[1] \in {"v3", "v4", "robustness"}
    <3>1. \A p \in {<<"v3", i>> : i \in 1..4} : p[1] = "v3"
      OBVIOUS
    <3>2. \A p \in {<<"v4", f>> : f \in ActiveSet} : p[1] = "v4"
      OBVIOUS
    <3>3. <<"robustness", "">>[1] = "robustness"
      OBVIOUS
    <3>4. QED
      BY <2>1, <3>1, <3>2, <3>3
  <2>3. QED
    BY <1>1, <2>2
<1>4. CASE a.script = "battery"
  <2>1. Targets(a) = BatteryFiles
    BY <1>4 DEF Targets
  <2>2. \A p \in Targets(a) : p[1] \in {"near_miss", "coverage", "correlations", "sign_flip"}
    BY <2>1, BatteryNames
  <2>3. QED
    BY <1>1, <2>2
<1>5. CASE a.script = "rescreen_v2"
  <2>1. Targets(a) = {<<"gate_results_v2", f>> : f \in ActiveSet}
    BY <1>5 DEF Targets
  <2>2. \A p \in Targets(a) : p[1] = "gate_results_v2"
    BY <2>1
  <2>3. QED
    BY <1>1, <2>2
<1>6. CASE a.script = "screen_factor"
  <2>1. Targets(a) = {<<"gate_results", a.factor>>, <<"screening_metrics", a.factor>>}
    BY <1>6 DEF Targets
  <2>2. \A p \in Targets(a) : p[1] \in {"gate_results", "screening_metrics"}
    BY <2>1
  <2>3. QED
    BY <1>1, <2>2
<1>7. CASE a.script = "workstream_a"
  <2>1. Targets(a) = {<<"workstream_a", a.factor>>}
    BY <1>7 DEF Targets
  <2>2. \A p \in Targets(a) : p[1] = "workstream_a"
    BY <2>1
  <2>3. QED
    BY <1>1, <2>2
<1>8. CASE a.script \in {"workstream_d", "ensemble_g0", "phase3", "romano_wolf", "bootstrap", "high52w"}
  <2>1. Targets(a) = {<<a.script, "">>}
    BY <1>8 DEF Targets
  <2>2. Tracker = <<a.script, "">>
    BY <2>1
  <2>3. Tracker[1] = a.script
    BY <2>2
  <2>4. QED
    BY <1>1, <1>2, <2>3
<1>9. QED
  BY <1>1, <1>2, <1>3, <1>4, <1>5, <1>6, <1>7, <1>8 DEF Script

\* A run of the tracker that writes is at the last of its five steps.
LEMMA TrackerWrites ==
    ASSUME Consistent, NEW r \in Run, runs[r].open \/ Does(r, "write"),
           case.calls[r].script = "tracker" \/ NextStep(r)[2] = Tracker
    PROVE  case.calls[r].script = "tracker" /\ NextStep(r)[2] = Tracker /\ runs[r].at = 5
<1> DEFINE a == case.calls[r]
           run == runs[r]
<1>1. a \in Call
  BY CallOf DEF Consistent
<1>2. /\ NextStep(r)[2] \in Targets(a) /\ run.at \in 1..Len(run.program)
      /\ run.program[run.at] = Write(NextStep(r)[2]) /\ run.program = Program(a)
  BY AtWrite
<1>3. a.script = "tracker"
  BY <1>1, <1>2, OnlyTracker
<1>4. NextStep(r)[2] = Tracker
  BY <1>1, <1>2, <1>3, TrackerRun
<1>5. run.program[run.at][1] = "write"
  BY <1>2 DEF Write
<1>6. run.at \in 1..5 /\ run.at \notin {1, 2, 3, 4}
  BY <1>1, <1>2, <1>3, <1>5, TrackerRun DEF Read, Judge
<1>7. QED
  BY <1>3, <1>4, <1>6

LEMMA AtNat ==
    ASSUME NEW a \in Call, NEW run, SoundRun(run, a)
    PROVE  run.at \in Nat \ {0}
<1>1. Len(Program(a)) \in Nat
  BY ProgramTidy DEF Tidy
<1>2. CASE run.state \in {"idle", "refused"}
  <2>1. run.at \in 1..Len(<<>>) + 1
    BY <1>2 DEF SoundRun
  <2>2. QED
    BY <2>1
<1>3. CASE run.state \notin {"idle", "refused"}
  <2>1. run.at \in 1..Len(Program(a)) + 1
    BY <1>3 DEF SoundRun
  <2>2. QED
    BY <1>1, <2>1
<1>4. QED
  BY <1>2, <1>3

\* A step that leaves a run, the tracker and the notes alone.
LEMMA StillNoted ==
    ASSUME NEW o, Noted(o), UNCHANGED <<case, notes>>, runs'[o] = runs[o], files'[Tracker] = files[Tracker],
           Tracker \in crossed => Tracker \in crossed'
    PROVE  Noted(o)'
  BY DEF Noted, NoteOf

LEMMA QuietNoted ==
    ASSUME Consistent, NEW r \in Run, Noted(r), Quiet(r)
    PROVE  Noted(r)'
<1> DEFINE a == case.calls[r]
           run == runs[r]
           next == runs'[r]
           file == files[Tracker]
<1>1. a \in Call /\ SoundRun(run, a) /\ SoundFile(Tracker, file)
  BY CallOf DEF Consistent
<1>2. UNCHANGED <<case, files, notes, crossed>> /\ Moves(r)
  BY DEF Quiet, Moves
<1>3. SUFFICES ASSUME next.state = "running", a.script = "tracker" PROVE Noted(r)'
  BY <1>2 DEF Noted
<1>4. CASE Begins(r)
  BY <1>4 DEF Begins, Noted
<1>5. CASE GoesOn(r)
  <2>1. /\ run.at <= Len(run.program) /\ run.program[run.at][1] # "write" /\ next.at = run.at + 1
        /\ run.open = FALSE /\ next.open = FALSE /\ run.state = "running"
        /\ run.program[run.at] = Judge \/ next.made = run.made
    BY <1>5 DEF GoesOn
  <2>2. /\ run.program = Program(a) /\ run.at \in 1..5 /\ NextStep(r) = run.program[run.at]
    BY <1>1, <1>3, <2>1, AtStep, TrackerRun DEF NextStep
  <2>3. run.at \in 1..4
    BY <1>1, <1>3, <2>1, <2>2, TrackerRun DEF Write
  <2>4. Informed(r)
    BY <1>5 DEF Quiet
  <2>5. Read("notes")[2] = "notes" /\ Read("results")[2] = "results" /\ Judge[2] = "all" /\ Read("text")[2] = "text"
    BY DEF Read, Judge
  <2>6. Read("notes")[1] = "read" /\ Read("text")[1] = "read" /\ Judge[1] = "judge"
    BY DEF Read, Judge
  <2>7. file.version \in Nat /\ file.state \in {"torn", "whole"}
    BY <1>1 DEF SoundFile
  <2>8. CASE run.at = 1
    <3>1. NextStep(r) = Read("notes")
      BY <1>1, <1>3, <2>2, <2>8, TrackerRun
    <3>2. next.version = file.version /\ (file.state = "whole" => \A f \in Seeds : NoteOf(next, f) = Parsed(file.made.rows[f].note))
      BY <2>4, <3>1 DEF Informed
    <3>3. next.at = 2
      BY <2>1, <2>8
    <3>4. QED
      BY <1>2, <2>1, <2>7, <3>2, <3>3 DEF Noted, NoteOf
  <2>9. CASE run.at > 1
    <3>1. NextStep(r)[2] # "notes"
      BY <1>1, <1>3, <2>2, <2>3, <2>5, <2>9, TrackerRun
    <3>2. next.notes = run.notes /\ next.version = run.version
      BY <2>4, <3>1 DEF Informed
    <3>3. \A f \in Seeds : NoteOf(next, f) = NoteOf(run, f)
      BY <3>2 DEF NoteOf
    <3>4. /\ run.version <= file.version
          /\ run.version = file.version /\ file.state = "whole" => \A f \in Seeds : NoteOf(run, f) = Parsed(file.made.rows[f].note)
          /\ run.at > 3 => \A f \in Seeds : run.made[Tracker].rows[f].note = NoteOf(run, f)
      BY <1>3, <2>1, <2>9 DEF Noted
    <3>5. next.at > 3 => \A f \in Seeds : next.made[Tracker].rows[f].note = NoteOf(run, f)
      <4>1. CASE run.at = 3
        <5>1. NextStep(r) = Judge
          BY <1>1, <1>3, <2>2, <4>1, TrackerRun
        <5>2. PICK seen : next.made = Makes(a, seen, case.flaws, case.holdout, run)
          BY <2>4, <5>1 DEF Informed
        <5>3. next.made = TrackerMakes(run.notes, run.results, case.holdout)
          BY <1>3, <5>2 DEF Makes
        <5>4. next.made[Tracker] = Artefact("NONE", 0, ComputeRows(run.notes, run.results, case.holdout))
          BY <5>3 DEF TrackerMakes, Leaves, Tracker
        <5>5. QED
          BY <5>4 DEF Artefact, ComputeRows, NoteOf
      <4>2. CASE run.at # 3
        <5>1. run.program[run.at] # Judge
          BY <1>1, <1>3, <2>2, <2>3, <2>6, <2>9, <4>2, TrackerRun DEF Read, Judge
        <5>2. next.made = run.made /\ (next.at > 3 => run.at > 3)
          BY <2>1, <2>3, <4>2, <5>1
        <5>3. QED
          BY <3>4, <5>2
      <4>3. QED
        BY <4>1, <4>2
    <3>6. next.at > 4 => file.state = "whole"
      <4>1. SUFFICES ASSUME next.at > 4 PROVE file.state = "whole"
        OBVIOUS
      <4>2. run.at = 4
        BY <2>1, <2>3, <4>1
      <4>3. NextStep(r) = Read("text")
        BY <1>1, <1>3, <2>2, <4>2, TrackerRun
      <4>4. QED
        BY <2>4, <2>7, <4>3 DEF Informed
    <3>7. QED
      BY <1>2, <2>1, <3>2, <3>3, <3>4, <3>5, <3>6 DEF Noted, NoteOf
  <2>10. QED
    BY <2>3, <2>8, <2>9
<1>6. CASE Ceases(r)
  BY <1>3, <1>6 DEF Ceases
<1>7. QED
  BY <1>2, <1>4, <1>5, <1>6 DEF Moves

\* Two runs that write the tracker, and neither's writing crossed it, are one.
LEMMA OneWriter ==
    ASSUME Consistent, NEW o \in Run, NEW r \in Run, Writing(o), Writing(r), NextStep(o)[2] = NextStep(r)[2],
           NextStep(o)[2] \notin crossed
    PROVE  o = r
  BY DEF Consistent, Held

LEMMA OpensNoted ==
    ASSUME Consistent, NEW r \in Run, NEW p, p = NextStep(r)[2], Opens(r, p), Noted(r), NotesSurvive,
           NEW o \in Run, Noted(o)
    PROVE  Noted(o)'
<1> DEFINE file == files[Tracker]
           run == runs[o]
<1>1. /\ SoundFile(Tracker, file) /\ Tracker \in DOMAIN files /\ SoundRun(run, case.calls[o])
      /\ case.calls[o] \in Call
  BY CallOf DEF Consistent
<1>2. UNCHANGED <<case, notes>> /\ (Tracker \in crossed => Tracker \in crossed')
  BY DEF Opens
<1>3. CASE o # r /\ p # Tracker
  BY <1>1, <1>2, <1>3, StillNoted DEF Opens
<1>4. SUFFICES ASSUME o = r \/ p = Tracker, runs'[o].state = "running", case.calls[o].script = "tracker"
               PROVE  Noted(o)'
  BY <1>2, <1>3 DEF Noted
<1>5. o = r => p = Tracker /\ run.at = 5
  BY <1>4, TrackerWrites DEF Opens
<1>6. files'[Tracker].version = file.version + 1 /\ file.version \in Nat
  BY <1>1, <1>4, <1>5 DEF Opens, SoundFile
<1>7. /\ runs'[o].at = run.at /\ runs'[o].version = run.version /\ runs'[o].made = run.made
      /\ runs'[o].notes = run.notes /\ run.state = "running" /\ run.version \in Nat
  <2>1. run.version \in Nat
    BY <1>1 DEF SoundRun
  <2>2. CASE o = r
    BY <1>4, <2>1, <2>2 DEF Opens, RunFields
  <2>3. CASE o # r
    <3>1. runs'[o] = run
      BY <2>3 DEF Opens
    <3>2. QED
      BY <1>4, <2>1, <3>1
  <2>4. QED
    BY <2>2, <2>3
<1>8. \A f \in Seeds : NoteOf(runs'[o], f) = NoteOf(run, f)
  BY <1>7 DEF NoteOf
<1>9. /\ run.at > 1 => run.version <= file.version
      /\ run.at > 3 => \A f \in Seeds : run.made[Tracker].rows[f].note = NoteOf(run, f)
  BY <1>4, <1>7 DEF Noted
<1>10. run.at > 1 => run.version <= file.version + 1 /\ run.version # file.version + 1
  BY <1>6, <1>7, <1>9
<1>11. ASSUME runs'[o].open, Tracker \notin crossed', NEW f \in Seeds, notes[f] # "barred" PROVE NoteOf(run, f) = notes[f]
  <2>1. CASE o = r
    <3>1. run.version = file.version
      BY <1>5, <1>11, <2>1 DEF Opens
    <3>2. ~run.open /\ run.at = 5
      BY <1>5, <2>1 DEF Opens
    <3>3. file.state = "whole" /\ \A g \in Seeds : NoteOf(run, g) = Parsed(file.made.rows[g].note)
      BY <1>4, <1>7, <3>1, <3>2 DEF Noted
    <3>4. QED
      BY <1>2, <1>11, <3>3 DEF NotesSurvive, Parsed
  <2>2. CASE o # r
    <3>1. runs'[o] = run /\ run.open
      BY <1>11, <2>2 DEF Opens
    <3>2. NextStep(o)[2] = Tracker /\ NextStep(o) = Write(NextStep(o)[2])
      BY <1>4, <3>1, TrackerWrites, AtWrite
    <3>3. BeingWritten(r, Tracker)
      BY <1>7, <2>2, <3>1, <3>2 DEF BeingWritten
    <3>4. QED
      BY <1>4, <1>11, <2>2, <3>3 DEF Opens
  <2>3. QED
    BY <2>1, <2>2
<1>12. run.at > 1 \/ ~(run.at > 3 \/ run.at > 4)
  BY <1>1, AtNat
<1>13. QED
  BY <1>2, <1>6, <1>7, <1>8, <1>9, <1>10, <1>11, <1>12 DEF Noted, NoteOf

LEMMA FillsNoted ==
    ASSUME Consistent, NEW r \in Run, NEW p, p = NextStep(r)[2], Fills(r, p), NEW o \in Run, Noted(o)
    PROVE  Noted(o)'
<1> DEFINE file == files[Tracker]
           run == runs[o]
<1>1. /\ SoundFile(Tracker, file) /\ Tracker \in DOMAIN files /\ SoundRun(run, case.calls[o])
      /\ case.calls[o] \in Call
  BY CallOf DEF Consistent
<1>2. UNCHANGED <<case, notes, crossed>>
  BY DEF Fills
<1>3. CASE o # r /\ p # Tracker
  BY <1>1, <1>2, <1>3, StillNoted DEF Fills
<1>4. SUFFICES ASSUME o = r \/ p = Tracker, runs'[o].state = "running", case.calls[o].script = "tracker"
               PROVE  Noted(o)'
  BY <1>2, <1>3 DEF Noted
<1>5. o = r => p = Tracker /\ run.at = 5
  BY <1>4, TrackerWrites DEF Fills
<1>6. files'[Tracker].version = file.version + 1 /\ file.version \in Nat
  BY <1>1, <1>4, <1>5 DEF Fills, SoundFile
<1>7. /\ (o # r => runs'[o].at = run.at) /\ runs'[o].version = run.version /\ runs'[o].made = run.made
      /\ (o = r => runs'[o].at = 6)
      /\ runs'[o].notes = run.notes /\ run.state = "running" /\ run.version \in Nat
  <2>1. run.version \in Nat
    BY <1>1 DEF SoundRun
  <2>2. CASE o = r
    BY <1>4, <1>5, <2>1, <2>2 DEF Fills, RunFields
  <2>3. CASE o # r
    <3>1. runs'[o] = run
      BY <2>3 DEF Fills
    <3>2. QED
      BY <1>4, <2>1, <2>3, <3>1
  <2>4. QED
    BY <2>2, <2>3
<1>8. \A f \in Seeds : NoteOf(runs'[o], f) = NoteOf(run, f)
  BY <1>7 DEF NoteOf
<1>9. /\ run.at > 1 => run.version <= file.version
      /\ run.at > 3 => \A f \in Seeds : run.made[Tracker].rows[f].note = NoteOf(run, f)
  BY <1>4, <1>7 DEF Noted
<1>10. run.at > 1 => run.version <= file.version + 1 /\ run.version # file.version + 1
  BY <1>6, <1>7, <1>9
<1>11. (runs'[o].at > 1 => run.at > 1) /\ (runs'[o].at > 3 => run.at > 3) /\ (runs'[o].at > 4 => run.at > 1)
  <2>1. CASE o = r
    BY <1>5, <2>1
  <2>2. CASE o # r
    BY <1>1, <1>7, <2>2, AtNat
  <2>3. QED
    BY <2>1, <2>2
<1>12. ASSUME runs'[o].open, Tracker \notin crossed PROVE FALSE
  <2>1. o # r
    BY <1>12 DEF Fills
  <2>2. runs'[o] = run /\ run.open
    BY <1>12, <2>1 DEF Fills
  <2>3. NextStep(o)[2] = Tracker /\ p = Tracker
    BY <1>4, <2>1, <2>2, TrackerWrites
  <2>4. Writing(o) /\ Writing(r)
    BY <1>7, <2>2 DEF Writing, Fills
  <2>5. QED
    BY <1>12, <2>1, <2>3, <2>4, OneWriter
<1>13. QED
  BY <1>2, <1>6, <1>7, <1>8, <1>9, <1>10, <1>11, <1>12 DEF Noted, NoteOf

LEMMA EditsNoted ==
    ASSUME Consistent, NEW g \in Seeds, NEW note, Edits(g, note), NEW o \in Run, Noted(o)
    PROVE  Noted(o)'
<1> DEFINE file == files[Tracker]
           run == runs[o]
<1>1. /\ SoundFile(Tracker, file) /\ Tracker \in DOMAIN files /\ SoundRun(run, case.calls[o])
      /\ case.calls[o] \in Call
  BY CallOf DEF Consistent
<1>2. UNCHANGED <<case, runs, crossed>>
  BY DEF Edits
<1>3. SUFFICES ASSUME run.state = "running", case.calls[o].script = "tracker" PROVE Noted(o)'
  BY <1>2 DEF Noted
<1>4. files'[Tracker].version = file.version + 1 /\ file.version \in Nat /\ run.version \in Nat /\ file.state = "whole"
  BY <1>1 DEF Edits, SoundFile, SoundRun
<1>5. /\ run.at > 1 => run.version <= file.version
      /\ run.at > 3 => \A f \in Seeds : run.made[Tracker].rows[f].note = NoteOf(run, f)
  BY <1>3 DEF Noted
<1>6. run.at > 1 => run.version <= file.version + 1 /\ run.version # file.version + 1
  BY <1>4, <1>5
<1>7. ASSUME run.open, Tracker \notin crossed PROVE FALSE
  <2>1. NextStep(o)[2] = Tracker
    BY <1>3, <1>7, TrackerWrites
  <2>2. files[Tracker].state = "torn"
    BY <1>3, <1>7, <2>1 DEF Consistent, Held, Writing
  <2>3. QED
    BY <1>4, <2>2
<1>8. run.at > 1 \/ ~(run.at > 3 \/ run.at > 4)
  BY <1>1, AtNat
<1>9. QED
  BY <1>2, <1>4, <1>5, <1>6, <1>7, <1>8 DEF Noted, NoteOf

\* The notes themselves.
LEMMA FillsSurvive ==
    ASSUME Consistent, NEW r \in Run, NEW p, p = NextStep(r)[2], Fills(r, p), Noted(r), NotesSurvive
    PROVE  NotesSurvive'
<1>1. UNCHANGED <<notes, crossed>> /\ Tracker \in DOMAIN files
  BY DEF Fills, Consistent
<1>2. CASE p # Tracker
  BY <1>1, <1>2 DEF Fills, NotesSurvive
<1>3. CASE p = Tracker /\ Tracker \notin crossed
  <2>1. case.calls[r].script = "tracker" /\ runs[r].at = 5 /\ runs[r].open /\ runs[r].state = "running"
    BY <1>3, TrackerWrites DEF Fills
  <2>2. files[Tracker].state = "torn"
    <3>1. Held(r) /\ Writing(r) /\ NextStep(r)[2] = Tracker
      BY <1>3, <2>1 DEF Consistent, Writing
    <3>2. QED
      BY <1>3, <3>1 DEF Held
  <2>3. files'[Tracker].made = runs[r].made[Tracker]
    BY <1>3, <2>2 DEF Fills
  <2>4. \A f \in Seeds : /\ runs[r].made[Tracker].rows[f].note = NoteOf(runs[r], f)
                         /\ notes[f] # "barred" => NoteOf(runs[r], f) = notes[f]
    BY <1>3, <2>1 DEF Noted
  <2>5. QED
    BY <1>1, <2>3, <2>4 DEF NotesSurvive
<1>4. CASE p = Tracker /\ Tracker \in crossed
  BY <1>1, <1>4 DEF NotesSurvive
<1>5. QED
  BY <1>2, <1>3, <1>4

LEMMA EditsSurvive ==
    ASSUME Consistent, NEW f \in Seeds, NEW note, Edits(f, note), NotesSurvive
    PROVE  NotesSurvive'
<1>1. notes' = [notes EXCEPT ![f] = note] /\ notes \in [Seeds -> {"none", "noted", "barred", "revised"}] /\ crossed' = crossed
  BY DEF Edits, Consistent
<1>2. notes'[f] = note /\ \A g \in Seeds \ {f} : notes'[g] = notes[g]
  BY <1>1
<1>3. /\ files'[Tracker].made.rows[f].note = note /\ files[Tracker].state = "whole"
      /\ \A g \in Seeds \ {f} : files'[Tracker].made.rows[g].note = files[Tracker].made.rows[g].note
  BY DEF Edits
<1>4. QED
  BY <1>1, <1>2, <1>3 DEF NotesSurvive

LEMMA OpensSurvive ==
    ASSUME Consistent, NEW r \in Run, NEW p, Opens(r, p), NotesSurvive
    PROVE  NotesSurvive'
  BY DEF Opens, Consistent, NotesSurvive

-----------------------------------------------------------------------------
(***************************************************************************)
(* The theorems.                                                           *)
(***************************************************************************)

Inv == Consistent /\ Written /\ Logged /\ (\A r \in Run : Noted(r)) /\ NotesSurvive

LEMMA InitInv ==
    ASSUME Init
    PROVE  Inv
<1> DEFINE file == [state |-> "whole", by |-> 0, version |-> 0, made |-> Artefact("NONE", 0, NewRows)]
<1>1. /\ case \in Cases /\ db = "market" /\ gates = "frozen" /\ log = <<>> /\ crossed = {}
      /\ files = Leaves(Tracker, file)
      /\ runs = [r \in Run |-> NotStarted] /\ notes = [f \in Seeds |-> "none"]
  BY DEF Init
<1>2. /\ NotStarted.state = "idle" /\ NotStarted.program = <<>> /\ NotStarted.at = 1 /\ NotStarted.open = FALSE
      /\ NotStarted.gates = "frozen" /\ NotStarted.version = 0
      /\ IsRecord(NotStarted, RunFields) /\ IsRecord(NotStarted.from, Reading)
  BY DEF NotStarted, IsRecord, RunFields, Reading
<1>3. NotStarted.at \in 1..Len(NotStarted.program) + 1 /\ \A j \in 1..Len(NotStarted.program) : FALSE
  BY <1>2
<1>4. ASSUME NEW a PROVE SoundRun(NotStarted, a)
  <2> DEFINE run == NotStarted
  <2>1. /\ run.state = "idle" /\ run.program = <<>> /\ run.open = FALSE /\ run.gates = "frozen" /\ run.version = 0
        /\ IsRecord(run, RunFields) /\ IsRecord(run.from, Reading)
        /\ run.at \in 1..Len(run.program) + 1 /\ \A j \in 1..Len(run.program) : FALSE
    BY <1>2, <1>3
  <2> HIDE DEF run
  <2>2. \A j \in 1..Len(run.program) : j < run.at /\ run.program[j] = Judge => GoodMade(a, run.made)
    BY <2>1
  <2>3. run.program = IF run.state \in {"idle", "refused"} THEN <<>> ELSE Program(a)
    BY <2>1
  <2>4. run.open \in BOOLEAN /\ ~run.open
    BY <2>1
  <2>5. run.version \in Nat /\ run.gates \in {"frozen", "edited"} /\ run.state # "running"
    BY <2>1
  <2>6. SoundRun(run, a)
    BY <2>1, <2>2, <2>3, <2>4, <2>5 DEF SoundRun
  <2>7. QED
    BY <2>6 DEF run
<1>5. IsRecord(runs, Run) /\ \A r \in Run : runs[r] = NotStarted
  BY <1>1 DEF IsRecord
<1>6. SoundFile(Tracker, file) /\ file.by = 0 /\ file.state = "whole" /\ file.made.rows = NewRows
  <2>1. GoodArtefact(Tracker, Artefact("NONE", 0, NewRows)) /\ Artefact("NONE", 0, NewRows).rows = NewRows
    BY NoVerdictGood DEF Artefact
  <2>2. IsRows(NewRows)
    BY DEF IsRows, NewRows
  <2>3. /\ IsRecord(file, {"state", "by", "version", "made"}) /\ file.state = "whole" /\ file.by = 0 /\ file.version = 0
        /\ file.made = Artefact("NONE", 0, NewRows)
    BY DEF IsRecord
  <2> HIDE DEF file
  <2>4. QED
    BY <2>1, <2>2, <2>3 DEF SoundFile
<1> HIDE DEF file
<1>7. DOMAIN files = {Tracker} /\ files[Tracker] = file /\ IsRecord(files, DOMAIN files)
  BY <1>1 DEF Leaves, IsRecord
<1>8. \A r \in Run : ~Writing(r)
  BY <1>2, <1>5 DEF Writing
<1>9. Consistent
  BY <1>1, <1>4, <1>5, <1>6, <1>7, <1>8 DEF Consistent, Held
<1>10. Written
  <2>1. \A r \in Run : \A i \in 1..Len(runs[r].program) : FALSE
    BY <1>2, <1>3, <1>5
  <2>2. QED
    BY <2>1 DEF Written
<1>11. Logged
  BY <1>1 DEF Logged
<1>12. \A r \in Run : Noted(r)
  BY <1>2, <1>5 DEF Noted
<1>13. NotesSurvive
  BY <1>1, <1>6, <1>7 DEF NotesSurvive, NewRows
<1>14. QED
  BY <1>9, <1>10, <1>11, <1>12, <1>13 DEF Inv

LEMMA StepInv ==
    ASSUME Inv, [Next]_vars
    PROVE  Inv'
<1>1. Consistent /\ Written /\ Logged /\ (\A r \in Run : Noted(r)) /\ NotesSurvive
  BY DEF Inv
<1>2. db' \in {"market", "later"} /\ gates' \in {"frozen", "edited"}
  BY <1>1, Sorts
<1>3. CASE \E r \in Run : Quiet(r)
  <2>1. PICK r \in Run : Quiet(r)
    BY <1>3
  <2>2. /\ UNCHANGED <<case, files, notes, crossed>> /\ Run' = Run /\ Moves(r)
        /\ \A o \in Run \ {r} : runs'[o] = runs[o]
    BY <2>1 DEF Quiet, Moves, Run
  <2>3. Consistent' /\ Written' /\ Logged'
    BY <1>1, <1>2, <2>1, <2>2, QuietConsistent, QuietWritten, RunLogged
  <2>4. ASSUME NEW o \in Run PROVE Noted(o)'
    <3>1. Noted(o)
      BY <1>1
    <3>2. CASE o = r
      BY <1>1, <2>1, <3>1, <3>2, QuietNoted
    <3>3. CASE o # r
      BY <2>2, <3>1, <3>3, StillNoted
    <3>4. QED
      BY <3>2, <3>3
  <2>5. NotesSurvive'
    BY <1>1, <2>2 DEF NotesSurvive
  <2>6. QED
    BY <2>2, <2>3, <2>4, <2>5 DEF Inv
<1>4. CASE \E r \in Run : Opens(r, NextStep(r)[2])
  <2>1. PICK r \in Run : Opens(r, NextStep(r)[2])
    BY <1>4
  <2>2. Run' = Run
    BY <2>1 DEF Opens, Run
  <2>3. Consistent' /\ Written' /\ Logged'
    BY <1>1, <1>2, <2>1, OpensConsistent, OpensWritten, RunLogged
  <2>4. ASSUME NEW o \in Run PROVE Noted(o)'
    BY <1>1, <2>1, OpensNoted
  <2>5. NotesSurvive'
    BY <1>1, <2>1, OpensSurvive
  <2>6. QED
    BY <2>2, <2>3, <2>4, <2>5 DEF Inv
<1>5. CASE \E r \in Run : Fills(r, NextStep(r)[2])
  <2>1. PICK r \in Run : Fills(r, NextStep(r)[2])
    BY <1>5
  <2>2. Run' = Run
    BY <2>1 DEF Fills, Run
  <2>3. Consistent' /\ Written' /\ Logged'
    BY <1>1, <1>2, <2>1, FillsConsistent, FillsWritten, RunLogged
  <2>4. ASSUME NEW o \in Run PROVE Noted(o)'
    BY <1>1, <2>1, FillsNoted
  <2>5. NotesSurvive'
    BY <1>1, <2>1, FillsSurvive
  <2>6. QED
    BY <2>2, <2>3, <2>4, <2>5 DEF Inv
<1>6. CASE \E f \in Seeds : \E note : Edits(f, note)
  <2>1. PICK f \in Seeds : \E note : Edits(f, note)
    BY <1>6
  <2>2. PICK note : Edits(f, note)
    BY <2>1
  <2>3. Run' = Run /\ UNCHANGED <<case, runs, log>>
    BY <2>2 DEF Edits, Run
  <2>4. Consistent' /\ Written' /\ Logged'
    BY <1>1, <1>2, <2>2, <2>3, EditsConsistent, EditsWritten, OtherLogged
  <2>5. ASSUME NEW o \in Run PROVE Noted(o)'
    BY <1>1, <2>2, EditsNoted
  <2>6. NotesSurvive'
    BY <1>1, <2>2, EditsSurvive
  <2>7. QED
    BY <2>3, <2>4, <2>5, <2>6 DEF Inv
<1>7. CASE Fixed
  <2>1. Run' = Run /\ UNCHANGED <<case, files, log, runs, notes, crossed>>
    BY <1>7 DEF Fixed, Run
  <2>2. Consistent' /\ Written' /\ Logged'
    BY <1>1, <1>2, <1>7, <2>1, FixedConsistent, FixedWritten, OtherLogged
  <2>3. ASSUME NEW o \in Run PROVE Noted(o)'
    BY <1>1, <2>1, StillNoted
  <2>4. NotesSurvive'
    BY <1>1, <2>1 DEF NotesSurvive
  <2>5. QED
    BY <2>1, <2>2, <2>3, <2>4 DEF Inv
<1>8. QED
  BY <1>1, <1>3, <1>4, <1>5, <1>6, <1>7, Sorts

LEMMA InvTypes ==
    ASSUME Inv
    PROVE  TypeOK
<1>1. Consistent /\ Logged
  BY DEF Inv
<1>2. db \in {"market", "later"} /\ gates \in {"frozen", "edited"} /\ notes \in [Seeds -> {"none", "noted", "barred", "revised"}]
      /\ crossed \subseteq DOMAIN files
  BY <1>1 DEF Consistent
<1>3. ASSUME NEW p \in DOMAIN files
      PROVE  /\ files[p].state \in {"torn", "whole"} /\ files[p].version \in Nat /\ files[p].by \in Run \cup {0}
             /\ files[p].made.verdict \in {"PASS", "FAIL", "INDETERMINATE", "NONE"} /\ files[p].made.periods \in Nat
  BY <1>1 DEF Consistent, SoundFile, GoodArtefact
<1>4. ASSUME NEW r \in Run
      PROVE  /\ runs[r].state \in {"idle", "running", "refused", "gave up", "done", "killed"}
             /\ runs[r].at \in 1..Len(runs[r].program) + 1
             /\ runs[r].open => runs[r].state \in {"running", "killed"}
  BY <1>1 DEF Consistent, SoundRun
<1>5. ASSUME NEW i \in DOMAIN log
      PROVE  log[i].run \in Run /\ DOMAIN log[i].verdicts \subseteq DOMAIN runs[log[i].run].made
  BY <1>1 DEF Logged, LogSound
<1>6. QED
  BY <1>2, <1>3, <1>4, <1>5 DEF TypeOK

LEMMA InvPassed ==
    ASSUME Inv
    PROVE  PassedOnEvidence
  BY DEF Inv, Consistent, SoundFile, GoodArtefact, PassedOnEvidence

LEMMA InvLog ==
    ASSUME Inv
    PROVE  LogAgreesWithDisk
<1>1. Consistent /\ Written /\ Logged
  BY DEF Inv
<1>2. SUFFICES ASSUME NEW i \in DOMAIN log, NEW p \in DOMAIN log[i].verdicts
               PROVE  \/ p \in crossed
                      \/ p \in DOMAIN files /\ files[p].by # log[i].run
                      \/ p \in DOMAIN files /\ files[p].state = "whole" /\ files[p].made.verdict = log[i].verdicts[p]
  BY DEF LogAgreesWithDisk
<1> DEFINE r == log[i].run
           run == runs[r]
<1>3. /\ r \in Run /\ run.at > Len(run.program) /\ run.state # "idle"
      /\ log[i].verdicts[p] = run.made[p].verdict
  BY <1>1 DEF Logged, LogSound
<1>4. PICK k \in 1..Len(run.program) : run.program[k] = Write(p)
  BY <1>1 DEF Logged, LogSound
<1>5. run.program[k][1] = "write" /\ run.program[k][2] = p
  BY <1>4 DEF Write
<1>6. case.calls[r] \in Call /\ SoundRun(run, case.calls[r])
  BY <1>1, <1>3, CallOf DEF Consistent
<1>7. ~(run.at <= Len(run.program)) /\ k < run.at
  <2>1. run.state # "refused" /\ run.program = Program(case.calls[r])
    <3>1. k \in 1..Len(run.program)
      OBVIOUS
    <3>2. SUFFICES ASSUME run.state \in {"idle", "refused"} PROVE FALSE
      BY <1>3, <1>6 DEF SoundRun
    <3>3. run.program = <<>>
      BY <1>6, <3>2 DEF SoundRun
    <3>4. QED
      BY <3>1, <3>3
  <2>2. Len(run.program) \in Nat /\ run.at \in Nat
    BY <1>6, <2>1, AtNat, ProgramTidy DEF Tidy
  <2>3. QED
    BY <1>3, <2>2
<1>8. ~run.open
  BY <1>6, <1>7 DEF SoundRun
<1>9. Kept(r, p)
  BY <1>1, <1>3, <1>5, <1>7 DEF Written
<1>10. QED
  BY <1>3, <1>8, <1>9 DEF Kept

\* What a run has seen is a market, and ends on the last day it was asked for.
LEMMA SeenMarket ==
    ASSUME Consistent, NEW r \in Run
    PROVE  /\ Seen(r) \in Market
           /\ \A s \in Symbol : \A d \in Seen(r).closes[s] \cup Seen(r).filings[s] \cup Seen(r).spy :
                d \in Nat /\ d <= case.calls[r].end
<1> DEFINE of(x) == IF runs[r].from[x] = "later" THEN case.later ELSE case.market
           nothing == [s \in Symbol |-> {}]
           unread(x) == runs[r].from[x] = "unread"
           closes == IF unread("closes") THEN nothing ELSE of("closes").closes
           filings == IF unread("filings") THEN nothing ELSE of("filings").filings
           spy == IF unread("spy") THEN {} ELSE of("spy").spy
           t == case.calls[r].end
           m == [case.market EXCEPT !.closes = closes, !.filings = filings, !.spy = spy]
<1>1. case.market \in Market /\ case.later \in Market /\ t \in Nat
  BY CallOf DEF Consistent, Call
<1>2. closes \in [Symbol -> SUBSET Nat] /\ filings \in [Symbol -> SUBSET Nat] /\ spy \in SUBSET Nat
  BY <1>1 DEF Market
<1>3. Seen(r) = Upto(m, t)
  BY DEF Seen
<1> HIDE DEF closes, filings, spy
<1>4. m \in Market
  BY <1>1, <1>2 DEF Market
<1> HIDE DEF m, t
<1>5. /\ Upto(m, t) \in Market
      /\ \A s \in Symbol : Upto(m, t).closes[s] = {d \in m.closes[s] : d <= t}
      /\ \A s \in Symbol : Upto(m, t).filings[s] = {d \in m.filings[s] : d <= t}
      /\ Upto(m, t).spy = {d \in m.spy : d <= t}
  BY <1>1, <1>4, Past
<1>6. (\A s \in Symbol : m.closes[s] \subseteq Nat /\ m.filings[s] \subseteq Nat) /\ m.spy \subseteq Nat
  BY <1>4 DEF Market
<1>7. \A s \in Symbol : \A d \in Upto(m, t).closes[s] \cup Upto(m, t).filings[s] \cup Upto(m, t).spy : d \in Nat /\ d <= t
  BY <1>5, <1>6
<1>8. QED
  BY <1>3, <1>5, <1>7 DEF t

LEMMA InvNoPeek ==
    ASSUME Inv
    PROVE  NoPeek
<1>1. Consistent
  BY DEF Inv
<1>2. SUFFICES ASSUME NEW r \in Run, Judged(r)
               PROVE  LET m == Seen(r)
                      IN  /\ \A s \in Symbol : \A d \in m.closes[s] \cup m.filings[s] \cup m.spy : d < Holdout
                          /\ \A all \in {View(m)} : \A t \in Friday :
                              /\ \A past \in {View(Upto(m, t))} : SameToday(all, past, t)
                              /\ all.labels[t] = Labels(After(m, t))[t]
  BY DEF NoPeek
<1> DEFINE m == Seen(r)
<1>3. case.calls[r].end < Holdout /\ case.calls[r].end \in Nat
  BY <1>1, <1>2, CallOf DEF Consistent, Judged, SoundRun, Call
<1>4. /\ m \in Market
      /\ \A s \in Symbol : \A d \in m.closes[s] \cup m.filings[s] \cup m.spy : d \in Nat /\ d <= case.calls[r].end
  BY <1>1, SeenMarket
<1> HIDE DEF m
<1>5. \A s \in Symbol : \A d \in m.closes[s] \cup m.filings[s] \cup m.spy : d < Holdout
  <2>1. \A d, e \in Nat : d <= e /\ e < Holdout => d < Holdout
    BY HoldoutAssumption
  <2>2. QED
    BY <1>3, <1>4, <2>1
<1>6. ASSUME NEW t \in Friday
      PROVE  SameToday(View(m), View(Upto(m, t)), t) /\ View(m).labels[t] = Labels(After(m, t))[t]
  BY <1>4, PastSame, LabelsAfter
<1>7. QED
  BY <1>5, <1>6 DEF m

-----------------------------------------------------------------------------
(***************************************************************************)
(* Least elements, and recursion over a measure.                           *)
(***************************************************************************)

\* A set of numbers that is not empty has a least element.
LEMMA LeastElement ==
    ASSUME NEW T \in SUBSET Nat, T # {}
    PROVE  \E n \in T : \A k \in T : n <= k
<1>1. PICK n \in T : \A k \in T : ~(<<k, n>> \in OpToRel(<, Nat))
  BY NatLessThanWellFounded, WFMin, Zenon
<1>2. \A k \in T : ~(k < n)
  BY <1>1 DEF OpToRel
<1>3. QED
  BY <1>2

\* f is defined on dom by recursion: base where it stops, more elsewhere.
Recursive(f, dom, stop, base, next, more) ==
    \A x \in dom : f[x] = IF x \in stop THEN base[x] ELSE more[<<x, f[next[x]]>>]

\* Two functions defined by the same recursion agree where both are defined.
LEMMA RecursionUnique ==
    ASSUME NEW D, NEW measure \in [D -> Nat], NEW stop, NEW base, NEW next \in [D -> D], NEW more,
           \A x \in D \ stop : measure[next[x]] < measure[x],
           NEW k \in Nat, NEW l \in Nat, NEW f, NEW g,
           Recursive(f, {x \in D : measure[x] < k}, stop, base, next, more),
           Recursive(g, {x \in D : measure[x] < l}, stop, base, next, more),
           NEW x \in D, measure[x] < k, measure[x] < l
    PROVE  f[x] = g[x]
<1> DEFINE Differ == {y \in D : measure[y] < k /\ measure[y] < l /\ f[y] # g[y]}
           T == {measure[y] : y \in Differ}
<1>1. SUFFICES ASSUME Differ # {} PROVE FALSE
  OBVIOUS
<1>2. T \in SUBSET Nat /\ T # {}
  BY <1>1
<1>3. PICK n \in T : \A m \in T : n <= m
  <2> HIDE DEF T
  <2>1. QED
    BY <1>2, LeastElement
<1>4. PICK y \in Differ : measure[y] = n
  OBVIOUS
<1>5. y \notin stop
  BY <1>4 DEF Recursive
<1>6. next[y] \in D /\ measure[next[y]] < measure[y] /\ measure[next[y]] \in Nat /\ measure[y] \in Nat
  BY <1>4, <1>5
<1>7. f[next[y]] = g[next[y]]
  <2>1. measure[next[y]] \notin T
    <3> HIDE DEF T, Differ
    <3>1. QED
      BY <1>3, <1>4, <1>6
  <2>2. next[y] \notin Differ
    BY <2>1
  <2>3. QED
    BY <1>4, <1>6, <2>2
<1>8. f[y] = more[<<y, f[next[y]]>>] /\ g[y] = more[<<y, g[next[y]]>>]
  BY <1>4, <1>5 DEF Recursive
<1>9. QED
  BY <1>4, <1>7, <1>8

\* A recursion that lowers a measure defines a function on all of D.
LEMMA Recursion ==
    ASSUME NEW D, NEW S, NEW measure \in [D -> Nat], NEW stop, NEW base \in [D -> S], NEW next \in [D -> D],
           NEW more \in [D \X S -> S],
           \A x \in D \ stop : measure[next[x]] < measure[x]
    PROVE  \E f \in [D -> S] : Recursive(f, D, stop, base, next, more)
<1> DEFINE Below(n) == {x \in D : measure[x] < n}
           Defines(n, g) == g \in [Below(n) -> S] /\ Recursive(g, Below(n), stop, base, next, more)
           upto == [n \in Nat |-> CHOOSE g : Defines(n, g)]
           f == [x \in D |-> upto[measure[x] + 1][x]]
<1>1. ASSUME NEW k \in Nat PROVE \E g \in [Below(k) -> S] : Recursive(g, Below(k), stop, base, next, more)
  <2> DEFINE Defined(n) == \E h \in [Below(n) -> S] : Recursive(h, Below(n), stop, base, next, more)
             T == {n \in Nat : ~Defined(n)}
  <2>1. SUFFICES ASSUME T # {} PROVE FALSE
    OBVIOUS
  <2>2. PICK n \in T : \A m \in T : n <= m
    <3> HIDE DEF Defined
    <3>1. T \in SUBSET Nat
      OBVIOUS
    <3> HIDE DEF T
    <3>2. QED
      BY <2>1, <3>1, LeastElement
  <2>3. n \in Nat /\ ~Defined(n)
    OBVIOUS
  <2>4. CASE n = 0
    <3>1. Below(n) = {}
      BY <2>4
    <3>2. [x \in {} |-> base[x]] \in [Below(n) -> S] /\ Recursive([x \in {} |-> base[x]], Below(n), stop, base, next, more)
      BY <3>1 DEF Recursive
    <3>3. QED
      BY <2>3, <3>2
  <2>5. CASE n # 0
    <3>1. n - 1 \in Nat /\ Defined(n - 1)
      <4>1. n - 1 \in Nat /\ ~(n <= n - 1)
        BY <2>3, <2>5
      <4>2. n - 1 \notin T
        BY <2>2, <4>1
      <4>3. QED
        BY <4>1, <4>2
    <3>2. PICK h \in [Below(n - 1) -> S] : Recursive(h, Below(n - 1), stop, base, next, more)
      BY <3>1
    <3> DEFINE g == [x \in Below(n) |-> IF x \in stop THEN base[x] ELSE more[<<x, h[next[x]]>>]]
    <3>3. ASSUME NEW x \in Below(n), x \notin stop
          PROVE  next[x] \in Below(n - 1) /\ next[x] \in Below(n)
      <4>1. x \in D /\ measure[x] < n /\ next[x] \in D /\ measure[next[x]] < measure[x]
            /\ measure[x] \in Nat /\ measure[next[x]] \in Nat
        BY <3>3
      <4>2. measure[next[x]] < n - 1 /\ measure[next[x]] < n
        BY <2>3, <4>1
      <4>3. QED
        BY <4>1, <4>2
    <3>4. g \in [Below(n) -> S]
      <4>1. ASSUME NEW x \in Below(n)
            PROVE  (IF x \in stop THEN base[x] ELSE more[<<x, h[next[x]]>>]) \in S
        <5>1. CASE x \in stop
          BY <5>1
        <5>2. CASE x \notin stop
          <6>1. h[next[x]] \in S /\ x \in D
            BY <3>2, <3>3, <5>2
          <6>2. QED
            BY <5>2, <6>1
        <5>3. QED
          BY <5>1, <5>2
      <4>2. QED
        BY <4>1
    <3>5. \A x \in Below(n - 1) : g[x] = h[x]
      <4>1. \A x \in Below(n - 1) : x \in Below(n)
        BY <2>3
      <4>2. QED
        BY <3>2, <4>1 DEF Recursive
    <3>6. Recursive(g, Below(n), stop, base, next, more)
      <4>1. ASSUME NEW x \in Below(n), x \notin stop
            PROVE  g[x] = more[<<x, g[next[x]]>>]
        BY <3>3, <3>5, <4>1
      <4>2. ASSUME NEW x \in Below(n), x \in stop PROVE g[x] = base[x]
        BY <4>2
      <4> HIDE DEF g, Below
      <4>3. QED
        BY <4>1, <4>2 DEF Recursive
    <3>7. QED
      BY <2>3, <3>4, <3>6
  <2>6. QED
    BY <2>4, <2>5
<1>2. ASSUME NEW n \in Nat PROVE Defines(n, upto[n])
  <2>1. \E g : Defines(n, g)
    BY <1>1
  <2> HIDE DEF Good
  <2>2. QED
    BY <2>1
<1> HIDE DEF upto
<1>3. ASSUME NEW n \in Nat, NEW x \in Below(n)
      PROVE  upto[n][x] = f[x]
  <2>1. measure[x] + 1 \in Nat /\ measure[x] < measure[x] + 1 /\ measure[x] < n /\ x \in D
    OBVIOUS
  <2>2. Defines(n, upto[n]) /\ Defines(measure[x] + 1, upto[measure[x] + 1])
    BY <1>2, <2>1
  <2>3. upto[n][x] = upto[measure[x] + 1][x]
    BY <2>1, <2>2, RecursionUnique
  <2>4. QED
    BY <2>1, <2>3
<1>4. ASSUME NEW x \in D
      PROVE  f[x] \in S /\ f[x] = IF x \in stop THEN base[x] ELSE more[<<x, f[next[x]]>>]
  <2> DEFINE n == measure[x] + 1
  <2>1. n \in Nat /\ x \in Below(n)
    OBVIOUS
  <2>2. Defines(n, upto[n]) /\ upto[n][x] = f[x]
    BY <1>2, <1>3, <2>1
  <2>3. f[x] \in S
    BY <2>1, <2>2
  <2>4. f[x] = IF x \in stop THEN base[x] ELSE more[<<x, upto[n][next[x]]>>]
    BY <2>1, <2>2 DEF Recursive
  <2>5. x \notin stop => upto[n][next[x]] = f[next[x]]
    <3>1. ASSUME x \notin stop PROVE next[x] \in Below(n)
      <4>1. next[x] \in D /\ measure[next[x]] < measure[x] /\ measure[next[x]] \in Nat /\ measure[x] \in Nat
        BY <3>1
      <4>2. QED
        BY <4>1
    <3>2. QED
      BY <1>3, <2>1, <3>1
  <2> HIDE DEF f, n
  <2>6. QED
    BY <2>3, <2>4, <2>5
<1>5. f \in [D -> S]
  BY <1>4, Zenon
<1> HIDE DEF f
<1>6. Recursive(f, D, stop, base, next, more)
  BY <1>4 DEF Recursive
<1>7. QED
  BY <1>5, <1>6

-----------------------------------------------------------------------------
(***************************************************************************)
(* Ratios and their lowest terms.                                          *)
(***************************************************************************)

Ratio == Nat \X (Nat \ {0})

\* Quotient and remainder.
LEMMA Division ==
    ASSUME NEW n \in Nat, NEW d \in Nat \ {0}
    PROVE  /\ n \div d \in Nat /\ n % d \in Nat /\ n % d < d
           /\ n = ((n \div d) * d) + (n % d)
  OBVIOUS

\* lowest satisfies its recursive definition: every step lowers the denominator.
LEMMA LowestStep ==
    ASSUME NEW n \in Nat, NEW d \in Nat \ {0}
    PROVE  lowest[<<n, d>>] = IF n % d = 0 THEN [n |-> n \div d, d |-> 1]
                              ELSE [n |-> (n \div d) * lowest[<<d, n % d>>].n + lowest[<<d, n % d>>].d,
                                    d |-> lowest[<<d, n % d>>].n]
<1> DEFINE S == [n : Nat, d : Nat]
           measure == [p \in Ratio |-> p[2]]
           stop == {p \in Ratio : p[1] % p[2] = 0}
           base == [p \in Ratio |-> [n |-> p[1] \div p[2], d |-> 1]]
           next == [p \in Ratio |-> IF p \in stop THEN p ELSE <<p[2], p[1] % p[2]>>]
           more == [z \in Ratio \X S |-> [n |-> (z[1][1] \div z[1][2]) * z[2].n + z[2].d, d |-> z[2].n]]
           Is(f) == f = [p \in Ratio |->
                            LET q == p[1] \div p[2]
                                r == p[1] % p[2]
                                rest == f[<<p[2], r>>]
                            IN  IF r = 0 THEN [n |-> q, d |-> 1] ELSE [n |-> q * rest.n + rest.d, d |-> rest.n]]
<1>1. measure \in [Ratio -> Nat]
  BY DEF Ratio
<1>2. base \in [Ratio -> S]
  BY Division DEF Ratio
<1>3. next \in [Ratio -> Ratio]
  <2>1. ASSUME NEW p \in Ratio, p \notin stop PROVE <<p[2], p[1] % p[2]>> \in Ratio
    BY <2>1, Division DEF Ratio
  <2>2. QED
    BY <2>1
<1>4. more \in [Ratio \X S -> S]
  <2>1. ASSUME NEW z \in Ratio \X S
        PROVE  [n |-> (z[1][1] \div z[1][2]) * z[2].n + z[2].d, d |-> z[2].n] \in S
    <3>1. z[1][1] \div z[1][2] \in Nat /\ z[2].n \in Nat /\ z[2].d \in Nat
      BY Division DEF Ratio
    <3>2. QED
      BY <3>1
  <2>2. QED
    BY <2>1
<1>5. \A p \in Ratio \ stop : measure[next[p]] < measure[p]
  BY Division DEF Ratio
<1>6. \E f \in [Ratio -> S] : Recursive(f, Ratio, stop, base, next, more)
  <2> HIDE DEF S, measure, stop, base, next, more, Ratio
  <2>1. QED
    BY <1>1, <1>2, <1>3, <1>4, <1>5, Recursion
<1>7. PICK f \in [Ratio -> S] : Recursive(f, Ratio, stop, base, next, more)
  BY <1>6
<1>8. Is(f)
  <2>1. ASSUME NEW p \in Ratio
        PROVE  f[p] = LET q == p[1] \div p[2]
                          r == p[1] % p[2]
                          rest == f[<<p[2], r>>]
                      IN  IF r = 0 THEN [n |-> q, d |-> 1] ELSE [n |-> q * rest.n + rest.d, d |-> rest.n]
    <3>1. f[p] = IF p \in stop THEN base[p] ELSE more[<<p, f[next[p]]>>]
      BY <1>7 DEF Recursive
    <3>2. CASE p[1] % p[2] = 0
      BY <3>1, <3>2
    <3>3. CASE p[1] % p[2] # 0
      <4>1. next[p] = <<p[2], p[1] % p[2]>> /\ f[next[p]] \in S
        BY <1>3, <1>7, <3>3
      <4>2. <<p, f[next[p]]>> \in Ratio \X S
        BY <4>1
      <4>3. p \notin stop
        BY <3>3
      <4>4. f[p] = more[<<p, f[next[p]]>>]
        <5> HIDE DEF stop, more, next, base
        <5>1. QED
          BY <3>1, <4>3
      <4> HIDE DEF next
      <4>5. QED
        BY <3>3, <4>1, <4>2, <4>4
    <3>4. QED
      BY <3>2, <3>3
  <2>2. QED
    BY <1>7, <2>1
<1>9. Is(lowest)
  <2>1. \E g : Is(g)
    BY <1>8
  <2>2. Is(CHOOSE g : Is(g))
    <3> HIDE DEF Is
    <3>1. QED
      BY <2>1
  <2>3. QED
    BY <2>2, Zenon DEF lowest, Ratio
<1>10. <<n, d>> \in Ratio
  BY DEF Ratio
<1>11. QED
  BY <1>9, <1>10, Zenon

\* The records that may stand for a fraction.
Ratios == [n : Nat, d : Nat \ {0}]

\* lowest[<<n, d>>] is equal to n/d: the least denominator for which it were not
\* would leave a smaller one, its remainder.
LEMMA LowestValue ==
    \A d \in Nat \ {0} : \A n \in Nat :
        /\ lowest[<<n, d>>] \in Ratios
        /\ lowest[<<n, d>>].n * d = n * lowest[<<n, d>>].d
<1> DEFINE Fair(n, d) == lowest[<<n, d>>] \in Ratios /\ lowest[<<n, d>>].n * d = n * lowest[<<n, d>>].d
           Bad == {d \in Nat : d # 0 /\ \E n \in Nat : ~Fair(n, d)}
<1>1. SUFFICES ASSUME Bad # {} PROVE FALSE
  OBVIOUS
<1>2. PICK d \in Bad : \A k \in Bad : d <= k
  <2>1. Bad \in SUBSET Nat
    OBVIOUS
  <2> HIDE DEF Bad
  <2>2. QED
    BY <1>1, <2>1, LeastElement
<1>3. PICK n \in Nat : ~Fair(n, d)
  OBVIOUS
<1> DEFINE q == n \div d
           r == n % d
           c == lowest[<<d, r>>]
<1>4. d \in Nat \ {0} /\ q \in Nat /\ r \in Nat /\ r < d /\ n = (q * d) + r
  BY Division
<1>5. lowest[<<n, d>>] = IF r = 0 THEN [n |-> q, d |-> 1] ELSE [n |-> (q * c.n) + c.d, d |-> c.n]
  BY <1>4, LowestStep
<1>6. CASE r = 0
  BY <1>3, <1>4, <1>5, <1>6 DEF Ratios
<1>7. CASE r # 0
  <2>1. Fair(d, r)
    <3> HIDE DEF Fair
    <3>1. r \notin Bad
      <4> HIDE DEF Bad
      <4>1. QED
        BY <1>2, <1>4
    <3>2. QED
      BY <1>4, <1>7, <3>1
  <2>2. c.n \in Nat /\ c.d \in Nat \ {0} /\ c.n * r = d * c.d
    BY <2>1 DEF Ratios
  <2> HIDE DEF q, r, c
  <2>3. c.n # 0
    BY <1>4, <1>7, <2>2
  <2>4. ((q * c.n) + c.d) * d = n * c.n
    <3>1. ((q * c.n) + c.d) * d = (q * d) * c.n + d * c.d
      BY <1>4, <2>2
    <3>2. n * c.n = (q * d) * c.n + r * c.n
      BY <1>4, <2>2
    <3>3. QED
      BY <1>4, <2>2, <3>1, <3>2
  <2>5. Fair(n, d)
    <3>1. (q * c.n) + c.d \in Nat
      BY <1>4, <2>2
    <3>2. QED
      BY <1>5, <1>7, <2>2, <2>3, <2>4, <3>1 DEF Ratios
  <2>6. QED
    BY <1>3, <2>5
<1>8. QED
  BY <1>6, <1>7

\* A number determines its quotient and its remainder.
LEMMA QuotientUnique ==
    ASSUME NEW P \in Nat, NEW q \in Nat, NEW p \in Nat, NEW a \in Nat, NEW b \in Nat, a < P, b < P,
           q * P + a = p * P + b
    PROVE  q = p
<1>1. CASE q < p
  <2>1. PICK e \in Nat : p = (q + 1) + e
    <3>1. p - (q + 1) \in Nat /\ p = (q + 1) + (p - (q + 1))
      BY <1>1
    <3>2. QED
      BY <3>1
  <2>2. p * P = q * P + P + e * P /\ e * P \in Nat /\ q * P \in Nat
    BY <2>1
  <2>3. QED
    BY <2>2
<1>2. CASE p < q
  <2>1. PICK e \in Nat : q = (p + 1) + e
    <3>1. q - (p + 1) \in Nat /\ q = (p + 1) + (q - (p + 1))
      BY <1>2
    <3>2. QED
      BY <3>1
  <2>2. q * P = p * P + P + e * P /\ e * P \in Nat /\ p * P \in Nat
    BY <2>1
  <2>3. QED
    BY <2>2
<1>3. QED
  BY <1>1, <1>2

\* A common factor cancels from an equation ...
LEMMA Cancel ==
    ASSUME NEW k \in Nat \ {0}, NEW a \in Nat, NEW b \in Nat, a * k = b * k
    PROVE  a = b
<1>1. a * k + 0 = b * k + 0
  OBVIOUS
<1>2. QED
  BY <1>1, QuotientUnique

\* ... and from an inequality.
LEMMA CancelLess ==
    ASSUME NEW k \in Nat \ {0}, NEW a \in Nat, NEW b \in Nat
    PROVE  (a * k < b * k) <=> (a < b)
<1>1. CASE a < b
  <2>1. PICK e \in Nat \ {0} : b = a + e
    <3>1. b - a \in Nat \ {0} /\ b = a + (b - a)
      BY <1>1
    <3>2. QED
      BY <3>1
  <2>2. b * k = a * k + e * k /\ a * k \in Nat /\ e * k \in Nat \ {0}
    BY <2>1
  <2>3. QED
    BY <1>1, <2>2
<1>2. CASE ~(a < b)
  <2>1. PICK e \in Nat : a = b + e
    <3>1. a - b \in Nat /\ a = b + (a - b)
      BY <1>2
    <3>2. QED
      BY <3>1
  <2>2. a * k = b * k + e * k /\ b * k \in Nat /\ e * k \in Nat
    BY <2>1
  <2>3. QED
    BY <1>2, <2>2
<1>3. QED
  BY <1>1, <1>2

\* Equal ratios have the same lowest terms.
LEMMA LowestEqual ==
    \A d \in Nat \ {0} : \A n, m \in Nat : \A e \in Nat \ {0} :
        n * e = m * d => lowest[<<n, d>>] = lowest[<<m, e>>]
<1> DEFINE Same(d) == \A n, m \in Nat : \A e \in Nat \ {0} : n * e = m * d => lowest[<<n, d>>] = lowest[<<m, e>>]
           Bad == {d \in Nat : d # 0 /\ ~Same(d)}
<1>1. SUFFICES ASSUME Bad # {} PROVE FALSE
  OBVIOUS
<1>2. PICK d \in Bad : \A k \in Bad : d <= k
  <2>1. Bad \in SUBSET Nat
    OBVIOUS
  <2> HIDE DEF Bad
  <2>2. QED
    BY <1>1, <2>1, LeastElement
<1>3. PICK n \in Nat, m \in Nat, e \in Nat \ {0} : n * e = m * d /\ lowest[<<n, d>>] # lowest[<<m, e>>]
  OBVIOUS
<1> DEFINE q == n \div d
           r == n % d
           p == m \div e
           s == m % e
<1>4. /\ d \in Nat \ {0} /\ q \in Nat /\ r \in Nat /\ r < d /\ n = (q * d) + r
      /\ p \in Nat /\ s \in Nat /\ s < e /\ m = (p * e) + s
  BY Division
<1>5. /\ lowest[<<n, d>>] = IF r = 0 THEN [n |-> q, d |-> 1]
                            ELSE [n |-> q * lowest[<<d, r>>].n + lowest[<<d, r>>].d, d |-> lowest[<<d, r>>].n]
      /\ lowest[<<m, e>>] = IF s = 0 THEN [n |-> p, d |-> 1]
                            ELSE [n |-> p * lowest[<<e, s>>].n + lowest[<<e, s>>].d, d |-> lowest[<<e, s>>].n]
  BY <1>4, LowestStep
<1>6. n * e = m * d
  BY <1>3
<1>7. r = 0 \/ r \notin Bad
  <2> HIDE DEF Bad
  <2>1. QED
    BY <1>2, <1>4
<1>8. r = 0 \/ Same(r)
  <2> HIDE DEF Same
  <2>1. QED
    BY <1>4, <1>7
<1> HIDE DEF q, r, p, s, Bad
<1>9. q = p /\ r * e = s * d
  <2>1. n * e = q * (d * e) + r * e /\ m * d = p * (d * e) + s * d
    BY <1>3, <1>4
  <2>2. d * e \in Nat /\ r * e \in Nat /\ s * d \in Nat
    BY <1>3, <1>4
  <2>3. r * e < d * e /\ s * d < e * d
    BY <1>3, <1>4, CancelLess
  <2>4. q = p
    BY <1>4, <1>6, <2>1, <2>2, <2>3, QuotientUnique
  <2>5. q * (d * e) = p * (d * e) /\ q * (d * e) \in Nat
    BY <1>4, <2>2, <2>4
  <2>6. QED
    BY <1>6, <2>1, <2>2, <2>4, <2>5
<1>10. r = 0 <=> s = 0
  BY <1>3, <1>4, <1>9
<1>11. r # 0 => lowest[<<d, r>>] = lowest[<<e, s>>]
  <2>1. d * s = e * r
    BY <1>3, <1>4, <1>9
  <2>2. QED
    BY <1>3, <1>4, <1>8, <1>10, <2>1
<1>12. QED
  BY <1>3, <1>5, <1>9, <1>10, <1>11

-----------------------------------------------------------------------------
(***************************************************************************)
(* The arithmetic of fractions.                                            *)
(***************************************************************************)

\* Frac(n, d) is a fraction, and is equal to n/d.
LEMMA FracValue ==
    ASSUME NEW n \in Nat, NEW d \in Nat \ {0}
    PROVE  /\ Frac(n, d) \in Fraction
           /\ Frac(n, d).n \in Nat /\ Frac(n, d).d \in Nat \ {0}
           /\ Frac(n, d).n * d = n * Frac(n, d).d
<1> DEFINE c == Frac(n, d)
<1>1. c \in Ratios /\ c.n * d = n * c.d
  BY LowestValue DEF Frac
<1>2. c.n \in Nat /\ c.d \in Nat \ {0}
  BY <1>1 DEF Ratios
<1>3. Frac(c.n, c.d) = c
  <2>1. lowest[<<c.n, c.d>>] = lowest[<<n, d>>]
    <3> HIDE DEF c
    <3>1. QED
      BY <1>1, <1>2, LowestEqual
  <2>2. QED
    BY <2>1 DEF Frac
<1>4. QED
  BY <1>1, <1>2, <1>3 DEF Fraction, Ratios

\* Fractions are equal when they are equal crosswise.
LEMMA FracEqual ==
    ASSUME NEW n \in Nat, NEW d \in Nat \ {0}, NEW m \in Nat, NEW e \in Nat \ {0}
    PROVE  Frac(n, d) = Frac(m, e) <=> n * e = m * d
<1>1. n * e = m * d => Frac(n, d) = Frac(m, e)
  BY LowestEqual DEF Frac
<1>2. ASSUME Frac(n, d) = Frac(m, e) PROVE n * e = m * d
  <2> DEFINE c == Frac(n, d)
  <2>1. c.n \in Nat /\ c.d \in Nat \ {0} /\ c.n * d = n * c.d /\ c.n * e = m * c.d
    BY <1>2, FracValue
  <2> HIDE DEF c
  <2>2. (n * e) * c.d = (m * d) * c.d
    <3>1. (n * e) * c.d = (n * c.d) * e /\ (m * d) * c.d = (m * c.d) * d
      BY <2>1
    <3>2. (c.n * d) * e = (c.n * e) * d
      BY <2>1
    <3>3. QED
      BY <2>1, <3>1, <3>2
  <2>3. n * e \in Nat /\ m * d \in Nat
    OBVIOUS
  <2>4. QED
    BY <2>1, <2>2, <2>3, Cancel
<1>3. QED
  BY <1>1, <1>2

\* Positive numbers have a positive product.
LEMMA Products ==
    ASSUME NEW a \in Nat \ {0}, NEW b \in Nat \ {0}
    PROVE  a * b \in Nat \ {0}
<1>1. 0 * b < a * b
  BY CancelLess
<1>2. a * b \in Nat
  OBVIOUS
<1>3. QED
  BY <1>1, <1>2

\* The numerator of a sum, when its terms are multiplied by g and h.
LEMMA CrossSum ==
    ASSUME NEW a \in Nat, NEW b \in Nat, NEW c \in Nat, NEW e \in Nat, NEW g \in Nat, NEW h \in Nat
    PROVE  (a * e + c * b) * (g * h) = (a * g) * (e * h) + (c * h) * (b * g)
<1>1. (a * e) * (g * h) = (a * g) * (e * h)
  OBVIOUS
<1>2. (c * b) * (g * h) = (c * h) * (b * g)
  OBVIOUS
<1>3. (a * e + c * b) * (g * h) = (a * e) * (g * h) + (c * b) * (g * h)
  OBVIOUS
<1>4. QED
  BY <1>1, <1>2, <1>3

\* The terms of Frac(n, d), as numbers of their own.
LEMMA FracTerms ==
    ASSUME NEW n \in Nat, NEW d \in Nat \ {0}
    PROVE  \E k \in Nat : \E l \in Nat \ {0} : Frac(n, d).n = k /\ Frac(n, d).d = l /\ k * d = n * l
<1>1. Frac(n, d).n \in Nat /\ Frac(n, d).d \in Nat \ {0} /\ Frac(n, d).n * d = n * Frac(n, d).d
  BY FracValue
<1>2. QED
  BY <1>1

\* Every fraction is the fraction of its own terms.
LEMMA FracOf ==
    ASSUME NEW x \in Fraction
    PROVE  \E n \in Nat : \E d \in Nat \ {0} : x.n = n /\ x.d = d /\ x = Frac(n, d)
  BY DEF Fraction

\* The sum of two ratios, in any terms.
LEMMA AddFrac ==
    ASSUME NEW a \in Nat, NEW b \in Nat \ {0}, NEW c \in Nat, NEW e \in Nat \ {0}
    PROVE  Frac(a, b) ++ Frac(c, e) = Frac(a * e + c * b, b * e)
<1>1. PICK k \in Nat, l \in Nat \ {0} : Frac(a, b).n = k /\ Frac(a, b).d = l /\ k * b = a * l
  BY FracTerms
<1>2. PICK i \in Nat, j \in Nat \ {0} : Frac(c, e).n = i /\ Frac(c, e).d = j /\ i * e = c * j
  BY FracTerms
<1>3. b * e \in Nat \ {0} /\ l * j \in Nat \ {0}
  BY Products
<1>4. k * j + i * l \in Nat /\ a * e + c * b \in Nat
  OBVIOUS
<1>5. (k * j + i * l) * (b * e) = (a * e + c * b) * (l * j)
  <2>1. (k * j + i * l) * (b * e) = (k * b) * (j * e) + (i * e) * (l * b)
    BY CrossSum
  <2>2. (a * e + c * b) * (l * j) = (a * l) * (e * j) + (c * j) * (b * l)
    BY CrossSum
  <2>3. e * j = j * e /\ b * l = l * b
    OBVIOUS
  <2>4. QED
    BY <1>1, <1>2, <2>1, <2>2, <2>3
<1>6. Frac(k * j + i * l, l * j) = Frac(a * e + c * b, b * e)
  BY <1>3, <1>4, <1>5, FracEqual
<1>7. QED
  BY <1>1, <1>2, <1>6 DEF ++

\* The product of two ratios, in any terms.
LEMMA MulFrac ==
    ASSUME NEW a \in Nat, NEW b \in Nat \ {0}, NEW c \in Nat, NEW e \in Nat \ {0}
    PROVE  Frac(a, b) ** Frac(c, e) = Frac(a * c, b * e)
<1>1. PICK k \in Nat, l \in Nat \ {0} : Frac(a, b).n = k /\ Frac(a, b).d = l /\ k * b = a * l
  BY FracTerms
<1>2. PICK i \in Nat, j \in Nat \ {0} : Frac(c, e).n = i /\ Frac(c, e).d = j /\ i * e = c * j
  BY FracTerms
<1>3. b * e \in Nat \ {0} /\ l * j \in Nat \ {0}
  BY Products
<1>4. (k * i) * (b * e) = (a * c) * (l * j)
  <2>1. (k * i) * (b * e) = (k * b) * (i * e)
    OBVIOUS
  <2>2. (a * c) * (l * j) = (a * l) * (c * j)
    OBVIOUS
  <2>3. QED
    BY <1>1, <1>2, <2>1, <2>2
<1>5. Frac(k * i, l * j) = Frac(a * c, b * e)
  BY <1>3, <1>4, FracEqual
<1>6. QED
  BY <1>1, <1>2, <1>5 DEF **

\* Zero and one are fractions.
LEMMA ZeroAndOne ==
    /\ Zero \in Fraction /\ Zero = Frac(0, 1) /\ Zero.n = 0
    /\ Frac(1, 1) \in Fraction
<1>1. Frac(0, 1) \in Fraction /\ Frac(1, 1) \in Fraction
  BY FracValue
<1>2. PICK k \in Nat, l \in Nat \ {0} : Frac(0, 1).n = k /\ Frac(0, 1).d = l /\ k * 1 = 0 * l
  BY FracTerms
<1>3. QED
  BY <1>1, <1>2 DEF Zero

\* Sums and products of fractions are fractions.
LEMMA Closed ==
    ASSUME NEW x \in Fraction, NEW y \in Fraction
    PROVE  x ++ y \in Fraction /\ x ** y \in Fraction
<1>1. PICK a \in Nat, b \in Nat \ {0} : x = Frac(a, b)
  BY FracOf
<1>2. PICK c \in Nat, e \in Nat \ {0} : y = Frac(c, e)
  BY FracOf
<1>3. b * e \in Nat \ {0} /\ a * e + c * b \in Nat /\ a * c \in Nat
  BY Products
<1>4. Frac(a * e + c * b, b * e) \in Fraction /\ Frac(a * c, b * e) \in Fraction
  BY <1>3, FracValue
<1>5. QED
  BY <1>1, <1>2, <1>4, AddFrac, MulFrac

\* Addition and multiplication commute.
LEMMA Commutes ==
    ASSUME NEW x \in Fraction, NEW y \in Fraction
    PROVE  x ++ y = y ++ x /\ x ** y = y ** x
<1>1. PICK a \in Nat, b \in Nat \ {0} : x = Frac(a, b)
  BY FracOf
<1>2. PICK c \in Nat, e \in Nat \ {0} : y = Frac(c, e)
  BY FracOf
<1>3. a * e + c * b = c * b + a * e /\ b * e = e * b /\ a * c = c * a
  OBVIOUS
<1>4. /\ Frac(a, b) ++ Frac(c, e) = Frac(a * e + c * b, b * e)
      /\ Frac(c, e) ++ Frac(a, b) = Frac(c * b + a * e, e * b)
      /\ Frac(a, b) ** Frac(c, e) = Frac(a * c, b * e)
      /\ Frac(c, e) ** Frac(a, b) = Frac(c * a, e * b)
  BY AddFrac, MulFrac
<1>5. QED
  BY <1>1, <1>2, <1>3, <1>4

\* Zero and one are neutral, and zero annihilates.
LEMMA Units ==
    ASSUME NEW x \in Fraction
    PROVE  Zero ++ x = x /\ Zero ** x = Zero /\ Frac(1, 1) ** x = x
<1>1. PICK a \in Nat, b \in Nat \ {0} : x = Frac(a, b)
  BY FracOf
<1>2. \A o \in Nat : \A i \in Nat \ {0} :
          /\ Frac(o, i) ++ Frac(a, b) = Frac(o * b + a * i, i * b)
          /\ Frac(o, i) ** Frac(a, b) = Frac(o * a, i * b)
  BY AddFrac, MulFrac
<1>3. 0 * b + a * 1 = a /\ 1 * b = b /\ 0 * a = 0 /\ 1 * a = a
      /\ 0 \in Nat /\ 1 \in Nat /\ 1 \in Nat \ {0}
  OBVIOUS
<1>4. Frac(0, b) = Frac(0, 1)
  <2>1. 0 * 1 = 0 * b
    OBVIOUS
  <2>2. QED
    BY <2>1, FracEqual
<1>5. Frac(0, 1) ++ Frac(a, b) = Frac(a, b)
  BY <1>2, <1>3
<1>6. Frac(0, 1) ** Frac(a, b) = Frac(0, 1)
  BY <1>2, <1>3, <1>4
<1>7. Frac(1, 1) ** Frac(a, b) = Frac(a, b)
  BY <1>2, <1>3
<1>8. QED
  BY <1>1, <1>5, <1>6, <1>7 DEF Zero

\* Addition and multiplication associate.
LEMMA Associates ==
    ASSUME NEW x \in Fraction, NEW y \in Fraction, NEW z \in Fraction
    PROVE  (x ++ y) ++ z = x ++ (y ++ z) /\ (x ** y) ** z = x ** (y ** z)
<1>1. PICK a \in Nat, b \in Nat \ {0} : x = Frac(a, b)
  BY FracOf
<1>2. PICK c \in Nat, e \in Nat \ {0} : y = Frac(c, e)
  BY FracOf
<1>3. PICK g \in Nat, h \in Nat \ {0} : z = Frac(g, h)
  BY FracOf
<1>4. b * e \in Nat \ {0} /\ e * h \in Nat \ {0}
  BY Products
<1> DEFINE A == a * e + c * b
           C == c * h + g * e
           B == b * e
           E == e * h
           M == a * c
           N == c * g
<1>5. A \in Nat /\ C \in Nat /\ M \in Nat /\ N \in Nat
  OBVIOUS
<1>6. /\ x ++ y = Frac(A, B) /\ y ++ z = Frac(C, E)
      /\ x ** y = Frac(M, B) /\ y ** z = Frac(N, E)
  BY <1>1, <1>2, <1>3, AddFrac, MulFrac
<1>7. A * h + g * B = a * E + C * b /\ B * h = b * E /\ M * g = a * N
  OBVIOUS
<1>8. B \in Nat \ {0} /\ E \in Nat \ {0}
  BY <1>4
<1> HIDE DEF A, B, C, E, M, N
<1>9. Frac(A, B) ++ Frac(g, h) = Frac(A * h + g * B, B * h)
  BY <1>5, <1>8, AddFrac
<1>10. Frac(a, b) ++ Frac(C, E) = Frac(a * E + C * b, b * E)
  BY <1>5, <1>8, AddFrac
<1>11. Frac(M, B) ** Frac(g, h) = Frac(M * g, B * h)
  BY <1>5, <1>8, MulFrac
<1>12. Frac(a, b) ** Frac(N, E) = Frac(a * N, b * E)
  BY <1>5, <1>8, MulFrac
<1>13. QED
  BY <1>1, <1>2, <1>3, <1>6, <1>7, <1>9, <1>10, <1>11, <1>12

\* Multiplication distributes over addition.
LEMMA Distributes ==
    ASSUME NEW x \in Fraction, NEW y \in Fraction, NEW z \in Fraction
    PROVE  (x ++ y) ** z = (x ** z) ++ (y ** z)
<1>1. PICK a \in Nat, b \in Nat \ {0} : x = Frac(a, b)
  BY FracOf
<1>2. PICK c \in Nat, e \in Nat \ {0} : y = Frac(c, e)
  BY FracOf
<1>3. PICK g \in Nat, h \in Nat \ {0} : z = Frac(g, h)
  BY FracOf
<1> DEFINE A == a * e + c * b
           B == b * e
           C == a * g
           D == b * h
           E == c * g
           F == e * h
<1>4. B \in Nat \ {0} /\ D \in Nat \ {0} /\ F \in Nat \ {0} /\ A \in Nat /\ C \in Nat /\ E \in Nat
  BY Products
<1>5. x ++ y = Frac(A, B) /\ x ** z = Frac(C, D) /\ y ** z = Frac(E, F)
  BY <1>1, <1>2, <1>3, AddFrac, MulFrac
<1>6. (A * g) * (D * F) = (C * F + E * D) * (B * h)
  <2>1. (A * g) * (D * F) = A * ((g * h) * (B * h))
    OBVIOUS
  <2>2. C * F + E * D = A * (g * h)
    OBVIOUS
  <2>3. A * ((g * h) * (B * h)) = (A * (g * h)) * (B * h)
    OBVIOUS
  <2>4. QED
    BY <2>1, <2>2, <2>3
<1> HIDE DEF A, B, C, D, E, F
<1>7. /\ Frac(A, B) ** Frac(g, h) = Frac(A * g, B * h)
      /\ Frac(C, D) ++ Frac(E, F) = Frac(C * F + E * D, D * F)
  BY <1>4, AddFrac, MulFrac
<1>8. Frac(A * g, B * h) = Frac(C * F + E * D, D * F)
  <2>1. A * g \in Nat /\ C * F + E * D \in Nat /\ B * h \in Nat \ {0} /\ D * F \in Nat \ {0}
    BY <1>4, Products
  <2>2. QED
    BY <1>6, <2>1, FracEqual
<1>9. QED
  BY <1>1, <1>2, <1>3, <1>5, <1>7, <1>8

\* The order of two ratios, in any terms.
LEMMA LeFrac ==
    ASSUME NEW n \in Nat, NEW d \in Nat \ {0}, NEW m \in Nat, NEW e \in Nat \ {0}
    PROVE  Frac(n, d) \preceq Frac(m, e) <=> n * e <= m * d
<1>1. PICK k \in Nat, l \in Nat \ {0} : Frac(n, d).n = k /\ Frac(n, d).d = l /\ k * d = n * l
  BY FracTerms
<1>2. PICK i \in Nat, j \in Nat \ {0} : Frac(m, e).n = i /\ Frac(m, e).d = j /\ i * e = m * j
  BY FracTerms
<1> DEFINE X == k * j
           Y == i * l
           D == d * e
           U == n * e
           V == m * d
           L == l * j
<1>3. D \in Nat \ {0} /\ L \in Nat \ {0} /\ X \in Nat /\ Y \in Nat /\ U \in Nat /\ V \in Nat
  BY Products
<1>4. X * D = U * L
  <2>1. X * D = (k * d) * (j * e) /\ U * L = (n * l) * (j * e)
    OBVIOUS
  <2>2. QED
    BY <1>1, <2>1
<1>5. Y * D = V * L
  <2>1. Y * D = (i * e) * (l * d) /\ V * L = (m * j) * (l * d)
    OBVIOUS
  <2>2. QED
    BY <1>2, <2>1
<1>6. (Y * D < X * D <=> Y < X) /\ (V * L < U * L <=> V < U)
  <2> HIDE DEF X, Y, D, U, V, L
  <2>1. QED
    BY <1>3, CancelLess
<1>7. Y < X <=> V < U
  <2> HIDE DEF X, Y, D, U, V, L
  <2>1. QED
    BY <1>4, <1>5, <1>6
<1>8. X <= Y <=> U <= V
  <2> HIDE DEF X, Y, D, U, V, L
  <2>1. QED
    BY <1>3, <1>7
<1>9. QED
  BY <1>1, <1>2, <1>8 DEF \preceq

\* The order of fractions is total.
LEMMA Compare ==
    ASSUME NEW x \in Fraction, NEW y \in Fraction
    PROVE  /\ x \preceq x
           /\ x \preceq y \/ y \prec x
           /\ ~(x \preceq y /\ y \prec x)
           /\ x \prec y => x \preceq y
           /\ x \preceq y /\ y \preceq x => x = y
<1>1. PICK a \in Nat, b \in Nat \ {0} : x.n = a /\ x.d = b /\ x = Frac(a, b)
  BY FracOf
<1>2. PICK c \in Nat, e \in Nat \ {0} : y.n = c /\ y.d = e /\ y = Frac(c, e)
  BY FracOf
<1>3. x \preceq x /\ (x \preceq y <=> a * e <= c * b) /\ (y \prec x <=> c * b < a * e)
      /\ (y \preceq x <=> c * b <= a * e) /\ (x \prec y <=> a * e < c * b)
  BY <1>1, <1>2 DEF \prec, \preceq
<1>4. a * e \in Nat /\ c * b \in Nat
  OBVIOUS
<1>5. a * e = c * b => x = y
  BY <1>1, <1>2, FracEqual
<1>6. QED
  BY <1>3, <1>4, <1>5

\* Subtraction gives what is missing from the larger one.
LEMMA Minus ==
    ASSUME NEW x \in Fraction, NEW y \in Fraction, x \preceq y
    PROVE  y -- x \in Fraction /\ x ++ (y -- x) = y
<1>1. PICK a \in Nat, b \in Nat \ {0} : x.n = a /\ x.d = b /\ x = Frac(a, b)
  BY FracOf
<1>2. PICK c \in Nat, e \in Nat \ {0} : y.n = c /\ y.d = e /\ y = Frac(c, e)
  BY FracOf
<1>3. a * e <= c * b
  BY <1>1, <1>2 DEF \preceq
<1>4. PICK m \in Nat : c * b - a * e = m /\ a * e + m = c * b
  <2>1. c * b \in Nat /\ a * e \in Nat
    OBVIOUS
  <2>2. c * b - a * e \in Nat /\ a * e + (c * b - a * e) = c * b
    BY <1>3, <2>1
  <2>3. QED
    BY <2>2
<1>5. PICK f \in Nat \ {0} : f = e * b
  BY Products
<1>6. y -- x = Frac(m, f)
  BY <1>1, <1>2, <1>4, <1>5 DEF --
<1>7. x ++ (y -- x) = Frac(a * f + m * b, b * f)
  BY <1>1, <1>6, AddFrac
<1>8. (a * f + m * b) * e = c * (b * f)
  <2>1. a * f = (a * e) * b
    BY <1>5
  <2>2. a * f + m * b = (a * e + m) * b
    BY <2>1
  <2>3. (a * f + m * b) * e = ((c * b) * b) * e
    BY <1>4, <2>2
  <2>4. c * (b * f) = ((c * b) * b) * e
    BY <1>5
  <2>5. QED
    BY <2>3, <2>4
<1>9. Frac(a * f + m * b, b * f) = Frac(c, e)
  <2>1. b * f \in Nat \ {0} /\ a * f + m * b \in Nat
    BY Products
  <2>2. QED
    BY <1>8, <2>1, FracEqual
<1>10. QED
  BY <1>2, <1>6, <1>7, <1>9, FracValue

\* A sum is at least each of its terms, and what was added can be taken away.
LEMMA Grows ==
    ASSUME NEW x \in Fraction, NEW z \in Fraction
    PROVE  x \preceq x ++ z /\ (x ++ z) -- x = z
<1>1. PICK a \in Nat, b \in Nat \ {0} : x.n = a /\ x.d = b /\ x = Frac(a, b)
  BY FracOf
<1>2. PICK g \in Nat, h \in Nat \ {0} : z.n = g /\ z.d = h /\ z = Frac(g, h)
  BY FracOf
<1>3. PICK s \in Nat : s = a * h + g * b
  OBVIOUS
<1>4. PICK t \in Nat \ {0} : t = b * h
  BY Products
<1>5. x ++ z = Frac(s, t)
  BY <1>1, <1>2, <1>3, <1>4, AddFrac
<1>6. PICK k \in Nat, l \in Nat \ {0} : Frac(s, t).n = k /\ Frac(s, t).d = l /\ k * t = s * l
  BY FracTerms
<1>7. x \preceq x ++ z
  <2>1. a * t <= s * b
    <3>1. s * b = a * t + (g * b) * b /\ (g * b) * b \in Nat /\ a * t \in Nat
      BY <1>3, <1>4
    <3>2. QED
      BY <3>1
  <2>2. QED
    BY <1>1, <1>5, <2>1, LeFrac
<1>8. a * l <= k * b
  BY <1>1, <1>5, <1>6, <1>7 DEF \preceq
<1>9. PICK m \in Nat : k * b - a * l = m /\ a * l + m = k * b
  <2>1. k * b \in Nat /\ a * l \in Nat
    OBVIOUS
  <2>2. k * b - a * l \in Nat /\ a * l + (k * b - a * l) = k * b
    BY <1>8, <2>1
  <2>3. QED
    BY <2>2
<1>10. PICK f \in Nat \ {0} : f = l * b
  BY Products
<1>11. (x ++ z) -- x = Frac(m, f)
  BY <1>1, <1>5, <1>6, <1>9, <1>10 DEF --
<1>12. m * h = g * f
  <2>1. (a * l + m) * h = s * l
    <3>1. (k * b) * h = k * t
      BY <1>4
    <3>2. QED
      BY <1>6, <1>9, <3>1
  <2>2. s * l = (a * h) * l + (g * b) * l
    BY <1>3
  <2>3. (a * l + m) * h = (a * l) * h + m * h
    OBVIOUS
  <2>4. (a * l) * h = (a * h) * l /\ (g * b) * l = g * f
    BY <1>10
  <2>5. (a * h) * l \in Nat /\ g * f \in Nat /\ m * h \in Nat
    OBVIOUS
  <2>6. QED
    BY <2>1, <2>2, <2>3, <2>4, <2>5
<1>13. QED
  BY <1>2, <1>7, <1>11, <1>12, FracEqual

\* Zero over anything is Zero.
LEMMA ZeroOver ==
    ASSUME NEW e \in Nat \ {0}
    PROVE  Frac(0, e) = Zero
<1>1. \A o \in Nat : \A i \in Nat \ {0} : o * e = 0 * i => Frac(o, i) = Frac(0, e)
  BY FracEqual
<1>2. 0 \in Nat /\ 1 \in Nat \ {0} /\ 0 * e = 0 * 1
  OBVIOUS
<1>3. Frac(0, 1) = Frac(0, e)
  BY <1>1, <1>2
<1>4. QED
  BY <1>3 DEF Zero

\* Division undoes multiplication, by anything but Zero.
LEMMA Quotient ==
    ASSUME NEW x \in Fraction, NEW y \in Fraction, y # Zero
    PROVE  x // y \in Fraction /\ (x // y) ** y = x
<1>1. PICK a \in Nat, b \in Nat \ {0} : x.n = a /\ x.d = b /\ x = Frac(a, b)
  BY FracOf
<1>2. PICK c \in Nat, e \in Nat \ {0} : y.n = c /\ y.d = e /\ y = Frac(c, e)
  BY FracOf
<1>3. c # 0
  BY <1>2, ZeroOver
<1>4. PICK s \in Nat : s = a * e
  OBVIOUS
<1>5. PICK t \in Nat \ {0} : t = b * c
  BY <1>3, Products
<1>6. x // y = Frac(s, t)
  BY <1>1, <1>2, <1>4, <1>5 DEF //
<1>7. (x // y) ** y = Frac(s * c, t * e)
  BY <1>2, <1>6, MulFrac
<1>8. (s * c) * b = a * (t * e)
  BY <1>4, <1>5
<1>9. s * c \in Nat /\ t * e \in Nat \ {0}
  BY Products
<1>10. Frac(s * c, t * e) = Frac(a, b)
  BY <1>8, <1>9, FracEqual
<1>11. QED
  BY <1>1, <1>6, <1>7, <1>10, FracValue

\* Only one leaves something other than Zero as it is.
LEMMA CancelFactor ==
    ASSUME NEW x \in Fraction, NEW t \in Fraction, t # Zero, x ** t = t
    PROVE  x = Frac(1, 1)
<1>1. PICK a \in Nat, b \in Nat \ {0} : x.n = a /\ x.d = b /\ x = Frac(a, b)
  BY FracOf
<1>2. PICK g \in Nat, h \in Nat \ {0} : t.n = g /\ t.d = h /\ t = Frac(g, h)
  BY FracOf
<1>3. g # 0
  BY <1>2, ZeroOver
<1>4. PICK k \in Nat \ {0} : k = g * h
  BY <1>3, Products
<1>5. a * g \in Nat /\ b * h \in Nat \ {0}
  BY Products
<1>6. Frac(a * g, b * h) = Frac(g, h)
  BY <1>1, <1>2, MulFrac
<1>7. (a * g) * h = g * (b * h)
  BY <1>5, <1>6, FracEqual
<1>8. a * k = b * k
  BY <1>4, <1>7
<1>9. a = b
  BY <1>8, Cancel
<1>10. \A n \in Nat : \A d \in Nat \ {0} : n * b = a * d => Frac(n, d) = Frac(a, b)
  BY FracEqual
<1>11. 1 \in Nat /\ 1 \in Nat \ {0} /\ 1 * b = a * 1
  BY <1>9
<1>12. QED
  BY <1>1, <1>10, <1>11

\* The order is transitive.
LEMMA AtMostTransitive ==
    ASSUME NEW x \in Fraction, NEW y \in Fraction, NEW z \in Fraction, x \preceq y, y \preceq z
    PROVE  x \preceq z
<1>1. y -- x \in Fraction /\ x ++ (y -- x) = y /\ z -- y \in Fraction /\ y ++ (z -- y) = z
  BY Minus
<1>2. z = x ++ ((y -- x) ++ (z -- y)) /\ (y -- x) ++ (z -- y) \in Fraction
  BY <1>1, Associates, Closed
<1>3. QED
  BY <1>2, Grows

\* The terms of a sum of two sums can be paired otherwise.
LEMMA SumOfSums ==
    ASSUME NEW x \in Fraction, NEW s \in Fraction, NEW u \in Fraction, NEW t \in Fraction
    PROVE  (x ++ s) ++ (u ++ t) = (x ++ u) ++ (s ++ t)
<1>1. (x ++ s) ++ (u ++ t) = x ++ (s ++ (u ++ t))
  BY Associates, Closed
<1>2. s ++ (u ++ t) = (s ++ u) ++ t /\ s ++ u = u ++ s /\ (u ++ s) ++ t = u ++ (s ++ t)
  BY Associates, Commutes
<1>3. x ++ (u ++ (s ++ t)) = (x ++ u) ++ (s ++ t)
  BY Associates, Closed
<1>4. QED
  BY <1>1, <1>2, <1>3

\* The two first terms of a sum can be exchanged.
LEMMA Swap ==
    ASSUME NEW x \in Fraction, NEW y \in Fraction, NEW z \in Fraction
    PROVE  x ++ (y ++ z) = y ++ (x ++ z)
<1>1. x ++ (y ++ z) = (x ++ y) ++ z /\ y ++ (x ++ z) = (y ++ x) ++ z
  BY Associates
<1>2. x ++ y = y ++ x
  BY Commutes
<1>3. QED
  BY <1>1, <1>2

\* Addition respects the order.
LEMMA AddMonotone ==
    ASSUME NEW x \in Fraction, NEW y \in Fraction, NEW u \in Fraction, NEW v \in Fraction,
           x \preceq y, u \preceq v
    PROVE  x ++ u \preceq y ++ v
<1>1. PICK s \in Fraction : x ++ s = y
  BY Minus
<1>2. PICK t \in Fraction : u ++ t = v
  BY Minus
<1>3. (x ++ s) ++ (u ++ t) = (x ++ u) ++ (s ++ t)
  BY SumOfSums
<1>4. QED
  BY <1>1, <1>2, <1>3, Closed, Grows

\* So does multiplication.
LEMMA MulMonotone ==
    ASSUME NEW x \in Fraction, NEW y \in Fraction, NEW z \in Fraction, x \preceq y
    PROVE  x ** z \preceq y ** z
<1>1. PICK s \in Fraction : x ++ s = y
  BY Minus
<1>2. y ** z = (x ** z) ++ (s ** z) /\ x ** z \in Fraction /\ s ** z \in Fraction
  BY <1>1, Distributes, Closed
<1>3. QED
  BY <1>2, Grows

-----------------------------------------------------------------------------
(***************************************************************************)
(* Totals.                                                                 *)
(***************************************************************************)

\* Of the subsets of a finite set that are bad, one has no smaller bad one below it.
LEMMA SmallestSet ==
    ASSUME NEW U, IsFiniteSet(U), NEW Bad \in SUBSET (SUBSET U), Bad # {}
    PROVE  \E S \in Bad : \A T \in Bad : T \subseteq S => T = S
<1>1. IsWellFoundedOn(StrictSubsetOrdering(U), SUBSET U)
  BY FS_StrictSubsetOrderingWellFounded, FS_FiniteSubsetsOfFinite
<1>2. PICK S \in Bad : \A T \in Bad : ~(<<T, S>> \in StrictSubsetOrdering(U))
  BY <1>1, WFMin, Zenon
<1>3. QED
  BY <1>2 DEF StrictSubsetOrdering

\* The element FoldSet takes first.
Any(S) == CHOOSE x \in S : TRUE

\* g gives the total of f over each subset of U: the recursion behind Total.
Sums(f, U, g) ==
    \A S \in SUBSET U : g[S] = IF S = {} THEN Zero ELSE f[Any(S)] ++ g[S \ {Any(S)}]

\* Finite sets have totals ...
LEMMA SumsExist ==
    ASSUME NEW U, IsFiniteSet(U), NEW f, \A i \in U : f[i] \in Fraction
    PROVE  \E g \in [SUBSET U -> Fraction] : Sums(f, U, g)
<1> DEFINE D == SUBSET U
           measure == [S \in D |-> Cardinality(S)]
           stop == {{}}
           base == [S \in D |-> Zero]
           next == [S \in D |-> S \ {Any(S)}]
           more == [z \in D \X Fraction |-> IF z[1] = {} THEN Zero ELSE f[Any(z[1])] ++ z[2]]
<1>1. ASSUME NEW S \in D, S # {} PROVE Any(S) \in S /\ Any(S) \in U
  BY <1>1 DEF Any
<1>2. measure \in [D -> Nat]
  BY FS_Subset, FS_CardinalityType
<1>3. base \in [D -> Fraction] /\ next \in [D -> D]
  BY ZeroAndOne
<1>4. more \in [D \X Fraction -> Fraction]
  <2>1. ASSUME NEW S \in D, NEW x \in Fraction
        PROVE  (IF S = {} THEN Zero ELSE f[Any(S)] ++ x) \in Fraction
    BY <1>1, ZeroAndOne, Closed
  <2>2. ASSUME NEW z \in D \X Fraction PROVE z[1] \in D /\ z[2] \in Fraction
    OBVIOUS
  <2>3. QED
    BY <2>1, <2>2
<1>5. ASSUME NEW S \in D, S \notin stop PROVE measure[next[S]] < measure[S]
  <2>1. Any(S) \in S /\ IsFiniteSet(S) /\ Cardinality(S) \in Nat
    BY <1>1, <1>5, FS_Subset, FS_CardinalityType
  <2>2. Cardinality(S \ {Any(S)}) = Cardinality(S) - 1
    BY <2>1, FS_RemoveElement
  <2>3. S \ {Any(S)} \in D
    OBVIOUS
  <2>4. QED
    BY <2>1, <2>2, <2>3
<1>6. PICK g \in [D -> Fraction] : Recursive(g, D, stop, base, next, more)
  <2> HIDE DEF D, measure, stop, base, next, more
  <2>1. QED
    BY <1>2, <1>3, <1>4, <1>5, Recursion
<1>7. ASSUME NEW S \in SUBSET U
      PROVE  g[S] = IF S = {} THEN Zero ELSE f[Any(S)] ++ g[S \ {Any(S)}]
  <2>1. g[S] = IF S \in stop THEN base[S] ELSE more[<<S, g[next[S]]>>]
    BY <1>6 DEF Recursive
  <2>2. CASE S = {}
    BY <2>1, <2>2
  <2>3. CASE S # {}
    <3>1. S \ {Any(S)} \in D /\ g[S \ {Any(S)}] \in Fraction
      BY <1>6
    <3>2. <<S, g[S \ {Any(S)}]>> \in D \X Fraction
      BY <3>1
    <3>3. g[S] = more[<<S, g[S \ {Any(S)}]>>]
      BY <2>1, <2>3
    <3>4. QED
      BY <2>3, <3>2, <3>3
  <2>4. QED
    BY <2>2, <2>3
<1>8. QED
  BY <1>6, <1>7 DEF Sums

\* ... and only one each.
LEMMA SumsUnique ==
    ASSUME NEW S, IsFiniteSet(S), NEW f, NEW g, NEW h, NEW U, NEW V, S \subseteq U, S \subseteq V,
           Sums(f, U, g), Sums(f, V, h)
    PROVE  g[S] = h[S]
<1> DEFINE Bad == {T \in SUBSET S : g[T] # h[T]}
<1>1. SUFFICES ASSUME Bad # {} PROVE FALSE
  OBVIOUS
<1>2. PICK T \in Bad : \A R \in Bad : R \subseteq T => R = T
  <2>1. Bad \in SUBSET (SUBSET S)
    OBVIOUS
  <2> HIDE DEF Bad
  <2>2. QED
    BY <1>1, <2>1, SmallestSet
<1>3. T \in SUBSET U /\ T \in SUBSET V
  OBVIOUS
<1>4. /\ g[T] = IF T = {} THEN Zero ELSE f[Any(T)] ++ g[T \ {Any(T)}]
      /\ h[T] = IF T = {} THEN Zero ELSE f[Any(T)] ++ h[T \ {Any(T)}]
  BY <1>3 DEF Sums
<1>5. T # {}
  BY <1>4
<1>6. Any(T) \in T
  BY <1>5 DEF Any
<1>7. T \ {Any(T)} \notin Bad
  BY <1>2, <1>6
<1>8. QED
  BY <1>4, <1>5, <1>7

\* Total is what that recursion gives.
LEMMA TotalIsSum ==
    ASSUME NEW S, IsFiniteSet(S), NEW f, \A i \in S : f[i] \in Fraction
    PROVE  \E g \in [SUBSET S -> Fraction] : Sums(f, S, g) /\ Total(f, S) = g[S]
<1> DEFINE Is(g) == g = [T \in SUBSET S |->
                            IF T = {} THEN Zero ELSE LET x == CHOOSE x \in T : TRUE IN f[x] ++ g[T \ {x}]]
           Sum == CHOOSE g : Is(g)
<1>1. PICK g \in [SUBSET S -> Fraction] : Sums(f, S, g)
  BY SumsExist
<1>2. Is(g)
  BY <1>1 DEF Sums, Any
<1>3. Is(Sum)
  <2> HIDE DEF Is
  <2>1. QED
    BY <1>2
<1>4. Total(f, S) = Sum[S]
  BY DEF Total, FoldSet, MapThenFoldSet
<1>5. Sums(f, S, Sum)
  <2> HIDE DEF Sum
  <2>1. QED
    BY <1>3 DEF Sums, Any
<1>6. Sum[S] = g[S]
  <2> HIDE DEF Sum
  <2>1. QED
    BY <1>1, <1>5, SumsUnique
<1>7. QED
  BY <1>1, <1>4, <1>6

\* The total over any subset is given by one function.
LEMMA TotalOf ==
    ASSUME NEW U, IsFiniteSet(U), NEW f, \A i \in U : f[i] \in Fraction, NEW g, Sums(f, U, g),
           NEW S \in SUBSET U
    PROVE  Total(f, S) = g[S]
<1>1. IsFiniteSet(S)
  BY FS_Subset
<1>2. PICK h \in [SUBSET S -> Fraction] : Sums(f, S, h) /\ Total(f, S) = h[S]
  BY <1>1, TotalIsSum
<1>3. h[S] = g[S]
  BY <1>1, <1>2, SumsUnique
<1>4. QED
  BY <1>2, <1>3

\* A total of fractions is a fraction.
LEMMA TotalType ==
    ASSUME NEW S, IsFiniteSet(S), NEW f, \A i \in S : f[i] \in Fraction
    PROVE  Total(f, S) \in Fraction
<1>1. PICK g \in [SUBSET S -> Fraction] : Sums(f, S, g) /\ Total(f, S) = g[S]
  BY TotalIsSum, Zenon
<1>2. S \in SUBSET S
  OBVIOUS
<1>3. QED
  BY <1>1, <1>2

\* The total over nothing is Zero.
LEMMA TotalEmpty ==
    ASSUME NEW f
    PROVE  Total(f, {}) = Zero
<1>1. IsFiniteSet({})
  BY FS_EmptySet
<1>2. \A i \in {} : f[i] \in Fraction
  OBVIOUS
<1>3. PICK g \in [SUBSET {} -> Fraction] : Sums(f, {}, g) /\ Total(f, {}) = g[{}]
  BY <1>1, <1>2, TotalIsSum
<1>4. QED
  BY <1>3 DEF Sums

\* The total over U, whichever element is taken out first.
LEMMA TotalPick ==
    ASSUME NEW U, IsFiniteSet(U), NEW f, \A i \in U : f[i] \in Fraction, NEW y \in U
    PROVE  /\ Total(f, U) \in Fraction /\ Total(f, U \ {y}) \in Fraction
           /\ Total(f, U) = f[y] ++ Total(f, U \ {y})
<1>1. PICK g \in [SUBSET U -> Fraction] : Sums(f, U, g)
  BY SumsExist
<1>2. \A S \in SUBSET U : Total(f, S) = g[S]
  BY <1>1, TotalOf
<1> DEFINE Bad == {S \in SUBSET U : \E z \in S : g[S] # f[z] ++ g[S \ {z}]}
<1>3. SUFFICES ASSUME Bad # {} PROVE FALSE
  <2>1. U \in SUBSET U /\ U \ {y} \in SUBSET U
    OBVIOUS
  <2>2. Total(f, U) = g[U] /\ Total(f, U \ {y}) = g[U \ {y}] /\ g[U] \in Fraction /\ g[U \ {y}] \in Fraction
    BY <1>2, <1>1, <2>1
  <2>3. ASSUME g[U] # f[y] ++ g[U \ {y}] PROVE U \in Bad
    <3>1. \E z \in U : g[U] # f[z] ++ g[U \ {z}]
      BY <2>3
    <3>2. QED
      BY <2>1, <3>1
  <2> HIDE DEF Bad
  <2>4. QED
    BY <2>2, <2>3
<1>4. PICK S \in Bad : \A R \in Bad : R \subseteq S => R = S
  <2>1. Bad \in SUBSET (SUBSET U)
    OBVIOUS
  <2> HIDE DEF Bad
  <2>2. QED
    BY <1>3, <2>1, SmallestSet
<1>5. PICK z \in S : g[S] # f[z] ++ g[S \ {z}]
  OBVIOUS
<1> DEFINE x == Any(S)
<1>6. x \in S /\ S \in SUBSET U /\ g[S] = f[x] ++ g[S \ {x}]
  BY <1>1 DEF Sums, Any
<1>7. x # z
  BY <1>5, <1>6
<1> HIDE DEF x
<1>8. ASSUME NEW v \in S, NEW w \in S, v # w
      PROVE  g[S \ {v}] = f[w] ++ g[(S \ {v}) \ {w}]
  <2>1. S \ {v} \notin Bad
    <3> HIDE DEF Bad
    <3>1. S \ {v} # S
      BY <1>8
    <3>2. QED
      BY <1>4, <3>1
  <2>2. S \ {v} \in SUBSET U /\ w \in S \ {v}
    BY <1>6, <1>8
  <2>3. QED
    BY <2>1, <2>2
<1>9. g[S \ {x}] = f[z] ++ g[(S \ {x}) \ {z}] /\ g[S \ {z}] = f[x] ++ g[(S \ {z}) \ {x}]
  BY <1>6, <1>7, <1>8
<1>10. (S \ {x}) \ {z} = (S \ {z}) \ {x}
  OBVIOUS
<1> DEFINE r == g[(S \ {z}) \ {x}]
<1>11. r \in Fraction /\ f[x] \in Fraction /\ f[z] \in Fraction
  <2>1. (S \ {z}) \ {x} \in SUBSET U
    OBVIOUS
  <2>2. QED
    BY <1>1, <1>6, <2>1
<1>12. g[S] = f[x] ++ (f[z] ++ r) /\ g[S \ {z}] = f[x] ++ r
  BY <1>6, <1>9, <1>10
<1> HIDE DEF r
<1>13. f[x] ++ (f[z] ++ r) = f[z] ++ (f[x] ++ r)
  BY <1>11, Swap
<1>14. QED
  BY <1>5, <1>12, <1>13

\* What is added to some of the terms is added to the total.
LEMMA TotalAdd ==
    ASSUME NEW U, IsFiniteSet(U), NEW f, NEW g, NEW h, NEW T \in SUBSET U,
           \A i \in U : f[i] \in Fraction /\ h[i] \in Fraction, \A i \in T : g[i] \in Fraction,
           \A i \in U : h[i] = IF i \in T THEN f[i] ++ g[i] ELSE f[i]
    PROVE  Total(h, U) = Total(f, U) ++ Total(g, T)
<1> DEFINE Bad == {S \in SUBSET U : Total(h, S) # Total(f, S) ++ Total(g, S \cap T)}
<1>1. SUFFICES ASSUME Bad # {} PROVE FALSE
  <2>1. U \cap T = T
    OBVIOUS
  <2>2. QED
    BY <1>1, <2>1
<1>2. PICK S \in Bad : \A R \in Bad : R \subseteq S => R = S
  <2>1. Bad \in SUBSET (SUBSET U)
    OBVIOUS
  <2> HIDE DEF Bad
  <2>2. QED
    BY <1>1, <2>1, SmallestSet
<1>3. S # {}
  <2>1. {} \cap T = {}
    OBVIOUS
  <2>2. Zero ++ Zero = Zero
    BY Units, ZeroAndOne
  <2>3. QED
    BY <2>1, <2>2, TotalEmpty
<1>4. PICK y \in S : TRUE
  BY <1>3
<1> DEFINE R == S \ {y}
           a == Total(f, R)
           b == Total(g, R \cap T)
<1>5. IsFiniteSet(S) /\ IsFiniteSet(S \cap T) /\ S \subseteq U
  BY FS_Subset
<1>6. Total(h, R) = a ++ b
  <2>1. R \notin Bad
    <3> HIDE DEF Bad
    <3>1. QED
      BY <1>2, <1>4
  <2>2. QED
    BY <2>1
<1>7. /\ Total(h, S) = h[y] ++ Total(h, R) /\ Total(f, S) = f[y] ++ a
      /\ a \in Fraction /\ f[y] \in Fraction
  BY <1>4, <1>5, TotalPick
<1>8. CASE y \in T
  <2>1. (S \cap T) \ {y} = R \cap T /\ y \in S \cap T
    BY <1>8
  <2>2. Total(g, S \cap T) = g[y] ++ b /\ b \in Fraction /\ g[y] \in Fraction
    <3>1. PICK V : V = S \cap T
      OBVIOUS
    <3>2. IsFiniteSet(V) /\ y \in V /\ \A i \in V : g[i] \in Fraction
      BY <1>5, <2>1, <3>1
    <3>3. Total(g, V) = g[y] ++ Total(g, V \ {y}) /\ Total(g, V \ {y}) \in Fraction /\ g[y] \in Fraction
      BY <3>2, TotalPick
    <3>4. QED
      BY <2>1, <3>1, <3>3
  <2>3. h[y] = f[y] ++ g[y]
    BY <1>5, <1>8
  <2> HIDE DEF R, a, b
  <2>4. (f[y] ++ g[y]) ++ (a ++ b) = (f[y] ++ a) ++ (g[y] ++ b)
    BY <1>7, <2>2, SumOfSums
  <2>5. QED
    BY <1>6, <1>7, <2>2, <2>3, <2>4
<1>9. CASE y \notin T
  <2>1. S \cap T = R \cap T
    BY <1>9
  <2>2. b \in Fraction
    <3>1. IsFiniteSet(R \cap T) /\ \A i \in R \cap T : g[i] \in Fraction
      BY <1>5, <2>1
    <3>2. QED
      BY <3>1, TotalType
  <2>3. h[y] = f[y]
    BY <1>5, <1>9
  <2> HIDE DEF R, a, b
  <2>4. f[y] ++ (a ++ b) = (f[y] ++ a) ++ b
    BY <1>7, <2>2, Associates
  <2>5. Total(g, S \cap T) = b
    BY <2>1 DEF b
  <2>6. QED
    BY <1>6, <1>7, <2>3, <2>4, <2>5
<1>10. QED
  BY <1>8, <1>9

\* A factor of every term is a factor of the total.
LEMMA TotalScale ==
    ASSUME NEW U, IsFiniteSet(U), NEW f, NEW h, NEW c \in Fraction,
           \A i \in U : f[i] \in Fraction /\ h[i] = f[i] ** c
    PROVE  Total(h, U) = Total(f, U) ** c
<1> DEFINE Bad == {S \in SUBSET U : Total(h, S) # Total(f, S) ** c}
<1>1. SUFFICES ASSUME Bad # {} PROVE FALSE
  BY <1>1
<1>2. PICK S \in Bad : \A R \in Bad : R \subseteq S => R = S
  <2>1. Bad \in SUBSET (SUBSET U)
    OBVIOUS
  <2> HIDE DEF Bad
  <2>2. QED
    BY <1>1, <2>1, SmallestSet
<1>3. S # {}
  <2>1. Zero ** c = Zero
    BY Units
  <2>2. QED
    BY <2>1, TotalEmpty
<1>4. PICK y \in S : TRUE
  BY <1>3
<1>5. IsFiniteSet(S) /\ S \subseteq U /\ \A i \in S : f[i] \in Fraction /\ h[i] \in Fraction
  BY FS_Subset, Closed
<1>6. Total(h, S \ {y}) = Total(f, S \ {y}) ** c
  BY <1>2, <1>4
<1>7. /\ Total(h, S) = h[y] ++ Total(h, S \ {y}) /\ Total(f, S) = f[y] ++ Total(f, S \ {y})
      /\ Total(f, S \ {y}) \in Fraction
  BY <1>4, <1>5, TotalPick
<1>8. (f[y] ++ Total(f, S \ {y})) ** c = (f[y] ** c) ++ (Total(f, S \ {y}) ** c)
  BY <1>5, <1>7, Distributes
<1>9. QED
  BY <1>5, <1>6, <1>7, <1>8

\* The total depends on the terms alone.
LEMMA TotalSame ==
    ASSUME NEW U, IsFiniteSet(U), NEW f, NEW h, \A i \in U : f[i] \in Fraction /\ h[i] = f[i]
    PROVE  Total(h, U) = Total(f, U) /\ Total(f, U) \in Fraction
<1>1. Total(h, U) = Total(f, U) ++ Total(f, {})
  BY TotalAdd
<1>2. Total(f, U) \in Fraction
  BY TotalType
<1>3. Total(f, U) ++ Zero = Total(f, U)
  BY <1>2, Units, Commutes, ZeroAndOne
<1>4. QED
  BY <1>1, <1>2, <1>3, TotalEmpty

\* Larger terms have a larger total.
LEMMA TotalMonotone ==
    ASSUME NEW U, IsFiniteSet(U), NEW f, NEW h,
           \A i \in U : f[i] \in Fraction /\ h[i] \in Fraction /\ f[i] \preceq h[i]
    PROVE  Total(f, U) \preceq Total(h, U) /\ Total(f, U) \in Fraction /\ Total(h, U) \in Fraction
<1> DEFINE g == [i \in U |-> h[i] -- f[i]]
<1>1. \A i \in U : g[i] \in Fraction /\ h[i] = f[i] ++ g[i]
  BY Minus
<1>2. U \in SUBSET U
  OBVIOUS
<1>3. Total(f, U) \in Fraction /\ Total(h, U) \in Fraction /\ Total(g, U) \in Fraction
  BY <1>1, TotalSame
<1> HIDE DEF g
<1>4. Total(h, U) = Total(f, U) ++ Total(g, U)
  BY <1>1, <1>2, TotalAdd
<1>5. QED
  BY <1>3, <1>4, Grows

-----------------------------------------------------------------------------
(***************************************************************************)
(* Scores in order.                                                        *)
(***************************************************************************)

\* The scores of finitely many symbols.
Scored(v) == /\ IsFiniteSet(DOMAIN v) /\ DOMAIN v \subseteq Symbol
             /\ \A s \in DOMAIN v : v[s] \in Fraction

\* What is below something at most z is below z.
LEMMA BelowTransitive ==
    ASSUME NEW x \in Fraction, NEW y \in Fraction, NEW z \in Fraction
    PROVE  /\ x \prec y /\ y \preceq z => x \prec z
           /\ x \preceq y /\ y \prec z => x \prec z
<1>1. x \prec z \/ z \preceq x
  BY Compare
<1>2. SUFFICES ASSUME z \preceq x
               PROVE  ~(x \prec y /\ y \preceq z) /\ ~(x \preceq y /\ y \prec z)
  BY <1>1
<1>3. ~(x \prec y /\ y \preceq z)
  <2>1. y \preceq z => y \preceq x
    BY <1>2, AtMostTransitive
  <2>2. QED
    BY <2>1, Compare
<1>4. ~(x \preceq y /\ y \prec z)
  <2>1. x \preceq y => z \preceq y
    BY <1>2, AtMostTransitive
  <2>2. QED
    BY <2>1, Compare
<1>5. QED
  BY <1>3, <1>4

\* What is not above is below.
LEMMA Above ==
    ASSUME NEW x \in Fraction, NEW y \in Fraction
    PROVE  ~(x \preceq y) <=> y \prec x
  BY Compare

\* Fewer are below a smaller one.
LEMMA StrictlyMore ==
    ASSUME NEW U, IsFiniteSet(U), NEW S \in SUBSET U, NEW T \in SUBSET U, S \subseteq T, NEW x \in T, x \notin S
    PROVE  Cardinality(S) \in Nat /\ Cardinality(T) \in Nat /\ Cardinality(S) < Cardinality(T)
<1>1. IsFiniteSet(S) /\ IsFiniteSet(T)
  BY FS_Subset
<1>2. Cardinality(S) \in Nat /\ Cardinality(T) \in Nat
  BY <1>1, FS_CardinalityType
<1>3. Cardinality(S) <= Cardinality(T) /\ (Cardinality(T) = Cardinality(S) => T = S)
  <2>1. S \in SUBSET T
    OBVIOUS
  <2>2. QED
    BY <1>1, <2>1, FS_Subset
<1>4. QED
  BY <1>2, <1>3

\* Finitely many fractions have a least and a greatest one.
LEMMA Extremes ==
    ASSUME NEW U, IsFiniteSet(U), U # {}, NEW v, \A i \in U : v[i] \in Fraction
    PROVE  /\ \E i \in U : \A j \in U : v[i] \preceq v[j]
           /\ \E i \in U : \A j \in U : v[j] \preceq v[i]
<1> DEFINE below(i) == {j \in U : v[j] \preceq v[i]}
           above(i) == {j \in U : v[i] \preceq v[j]}
           B == {Cardinality(below(i)) : i \in U}
           A == {Cardinality(above(i)) : i \in U}
<1>1. \A i \in U : Cardinality(below(i)) \in Nat /\ Cardinality(above(i)) \in Nat
  <2>1. \A S \in SUBSET U : Cardinality(S) \in Nat
    BY FS_Subset, FS_CardinalityType
  <2>2. QED
    BY <2>1
<1>2. B \in SUBSET Nat /\ B # {} /\ A \in SUBSET Nat /\ A # {}
  BY <1>1
<1>3. \E i \in U : \A j \in U : v[i] \preceq v[j]
  <2>1. PICK n \in B : \A k \in B : n <= k
    <3> HIDE DEF B, A
    <3>1. QED
      BY <1>2, LeastElement
  <2>2. PICK i \in U : n = Cardinality(below(i))
    OBVIOUS
  <2>3. ASSUME NEW j \in U, ~(v[i] \preceq v[j]) PROVE FALSE
    <3>1. v[j] \prec v[i] /\ v[j] \preceq v[i]
      BY <2>3, Compare
    <3>2. below(j) \subseteq below(i)
      BY <3>1, AtMostTransitive
    <3>3. i \in below(i) /\ i \notin below(j)
      BY <2>3, Compare
    <3> HIDE DEF below
    <3>4. below(i) \in SUBSET U /\ below(j) \in SUBSET U
      BY DEF below
    <3>5. Cardinality(below(j)) < Cardinality(below(i)) /\ Cardinality(below(i)) \in Nat /\ Cardinality(below(j)) \in Nat
      BY <3>2, <3>3, <3>4, StrictlyMore
    <3>6. Cardinality(below(j)) \in B
      OBVIOUS
    <3>7. Cardinality(below(i)) <= Cardinality(below(j))
      BY <2>1, <2>2, <3>6
    <3>8. QED
      BY <3>5, <3>7
  <2>4. QED
    BY <2>3
<1>4. \E i \in U : \A j \in U : v[j] \preceq v[i]
  <2>1. PICK n \in A : \A k \in A : n <= k
    <3> HIDE DEF B, A
    <3>1. QED
      BY <1>2, LeastElement
  <2>2. PICK i \in U : n = Cardinality(above(i))
    OBVIOUS
  <2>3. ASSUME NEW j \in U, ~(v[j] \preceq v[i]) PROVE FALSE
    <3>1. v[i] \prec v[j] /\ v[i] \preceq v[j]
      BY <2>3, Compare
    <3>2. above(j) \subseteq above(i)
      BY <3>1, AtMostTransitive
    <3>3. i \in above(i) /\ i \notin above(j)
      BY <2>3, Compare
    <3> HIDE DEF above
    <3>4. above(i) \in SUBSET U /\ above(j) \in SUBSET U
      BY DEF above
    <3>5. Cardinality(above(j)) < Cardinality(above(i)) /\ Cardinality(above(i)) \in Nat /\ Cardinality(above(j)) \in Nat
      BY <3>2, <3>3, <3>4, StrictlyMore
    <3>6. Cardinality(above(j)) \in A
      OBVIOUS
    <3>7. Cardinality(above(i)) <= Cardinality(above(j))
      BY <2>1, <2>2, <3>6
    <3>8. QED
      BY <3>5, <3>7
  <2>4. QED
    BY <2>3
<1>5. QED
  BY <1>3, <1>4

\* How many score less than s, and how many at most as much.
Fewer(v, s) == Cardinality({o \in DOMAIN v : v[o] \prec v[s]})
AtMost(v, s) == Cardinality({o \in DOMAIN v : v[o] \preceq v[s]})

\* Each of the positions of the scores, from 0, is somebody's: the lowest of those that
\* are above it has no more than that many below.
LEMMA AtSomebody ==
    ASSUME NEW v, Scored(v), NEW i \in Nat, i < Cardinality(DOMAIN v)
    PROVE  \E s \in DOMAIN v : /\ Fewer(v, s) <= i /\ i < AtMost(v, s) /\ At(v, i) = v[s]
                               /\ Fewer(v, s) \in Nat /\ AtMost(v, s) \in Nat
<1> DEFINE D == DOMAIN v
           less(s) == {o \in D : v[o] \prec v[s]}
           upto(s) == {o \in D : v[o] \preceq v[s]}
           far == {s \in D : i < Cardinality(upto(s))}
<1>1. IsFiniteSet(D) /\ \A s \in D : v[s] \in Fraction
  BY DEF Scored
<1>2. \A S \in SUBSET D : IsFiniteSet(S) /\ Cardinality(S) \in Nat
  BY <1>1, FS_Subset, FS_CardinalityType
<1>3. D # {}
  BY FS_EmptySet
<1>4. PICK top \in D : \A o \in D : v[o] \preceq v[top]
  BY <1>1, <1>3, Extremes
<1>5. upto(top) = D
  BY <1>4
<1>6. top \in far /\ far \in SUBSET D
  BY <1>5
<1>7. PICK s \in far : \A o \in far : v[s] \preceq v[o]
  <2>1. IsFiniteSet(far) /\ far # {} /\ \A o \in far : v[o] \in Fraction
    BY <1>1, <1>2, <1>6
  <2> HIDE DEF far
  <2>2. QED
    BY <2>1, Extremes
<1>8. Cardinality(less(s)) <= i
  <2>1. SUFFICES ASSUME ~(Cardinality(less(s)) <= i) PROVE FALSE
    OBVIOUS
  <2>2. less(s) \in SUBSET D /\ Cardinality(less(s)) \in Nat /\ IsFiniteSet(less(s))
    BY <1>2
  <2>3. less(s) # {}
    BY <2>1, <2>2, FS_EmptySet
  <2>4. PICK o \in less(s) : \A x \in less(s) : v[x] \preceq v[o]
    <3>1. \A x \in less(s) : v[x] \in Fraction
      BY <1>1
    <3> HIDE DEF less
    <3>2. QED
      BY <2>2, <2>3, <3>1, Extremes
  <2>5. less(s) \subseteq upto(o)
    BY <2>4
  <2>6. Cardinality(less(s)) <= Cardinality(upto(o)) /\ Cardinality(upto(o)) \in Nat
    <3>1. IsFiniteSet(upto(o)) /\ Cardinality(upto(o)) \in Nat
      BY <1>2
    <3> HIDE DEF less, upto
    <3>2. less(s) \in SUBSET upto(o)
      BY <2>5
    <3>3. QED
      BY <3>1, <3>2, FS_Subset
  <2>7. o \in far
    BY <2>1, <2>2, <2>6
  <2>8. v[s] \preceq v[o] /\ v[o] \prec v[s] /\ v[s] \in Fraction /\ v[o] \in Fraction
    BY <1>1, <1>7, <2>7
  <2>9. QED
    BY <2>8, Compare
<1>9. At(v, i) = v[CHOOSE x \in D : Fewer(v, x) <= i /\ i < AtMost(v, x)]
  BY DEF At, Fewer, AtMost
<1>10. \A x \in D : Fewer(v, x) \in Nat /\ AtMost(v, x) \in Nat
  BY <1>2 DEF Fewer, AtMost
<1>11. s \in D /\ Fewer(v, s) <= i /\ i < AtMost(v, s)
  BY <1>8 DEF Fewer, AtMost
<1>12. QED
  BY <1>9, <1>10, <1>11

\* The scores at later positions are not smaller.
LEMMA AtRises ==
    ASSUME NEW v, Scored(v), NEW i \in Nat, NEW j \in Nat, i <= j, j < Cardinality(DOMAIN v)
    PROVE  At(v, i) \in Fraction /\ At(v, j) \in Fraction /\ At(v, i) \preceq At(v, j)
<1>1. IsFiniteSet(DOMAIN v) /\ (\A s \in DOMAIN v : v[s] \in Fraction) /\ Cardinality(DOMAIN v) \in Nat
  BY FS_CardinalityType DEF Scored
<1>2. i < Cardinality(DOMAIN v)
  BY <1>1
<1>3. PICK s \in DOMAIN v : Fewer(v, s) <= i /\ At(v, i) = v[s] /\ Fewer(v, s) \in Nat
  BY <1>2, AtSomebody
<1>4. PICK o \in DOMAIN v : j < AtMost(v, o) /\ At(v, j) = v[o] /\ AtMost(v, o) \in Nat
  BY AtSomebody
<1>5. SUFFICES ASSUME ~(v[s] \preceq v[o]) PROVE FALSE
  BY <1>1, <1>3, <1>4
<1>6. v[o] \prec v[s]
  BY <1>1, <1>5, Above
<1>7. {x \in DOMAIN v : v[x] \preceq v[o]} \subseteq {x \in DOMAIN v : v[x] \prec v[s]}
  BY <1>1, <1>6, BelowTransitive
<1>8. AtMost(v, o) <= Fewer(v, s)
  <2>1. \A S, T \in SUBSET DOMAIN v : S \subseteq T => Cardinality(S) <= Cardinality(T)
    <3>1. \A T \in SUBSET DOMAIN v : IsFiniteSet(T)
      BY <1>1, FS_Subset
    <3>2. QED
      BY <3>1, FS_Subset
  <2>2. QED
    BY <1>7, <2>1 DEF AtMost, Fewer
<1>9. QED
  BY <1>3, <1>4, <1>8

-----------------------------------------------------------------------------
(***************************************************************************)
(* Buckets and legs.                                                       *)
(***************************************************************************)

\* A fraction between two others.
LEMMA BetweenType ==
    ASSUME NEW low \in Fraction, NEW high \in Fraction, NEW q \in Fraction, low \preceq high
    PROVE  Between(low, high, q) \in Fraction
<1>1. high -- low \in Fraction
  BY Minus
<1>2. q ** (high -- low) \in Fraction
  BY <1>1, Closed
<1>3. QED
  BY <1>2, Closed DEF Between

\* The position of the k-th of n edges is that of a score.
LEMMA EdgePosition ==
    ASSUME NEW n \in Nat \ {0}, NEW k \in 0..n, NEW last \in Nat
    PROVE  /\ (k * last) \div n \in 0..last
           /\ Min({last, (k * last) \div n + 1}) \in 0..last
           /\ (k * last) \div n <= Min({last, (k * last) \div n + 1})
           /\ (k * last) % n \in Nat
<1>1. PICK a \in Nat : a = k * last
  OBVIOUS
<1>2. PICK q \in Nat : q = a \div n
  BY Division
<1>3. a % n \in Nat /\ a = (q * n) + (a % n)
  BY <1>2, Division
<1>4. q <= last
  <2>1. SUFFICES ASSUME q > last PROVE FALSE
    OBVIOUS
  <2>2. PICK e \in Nat : q = last + 1 + e
    <3>1. q - last - 1 \in Nat /\ q = last + 1 + (q - last - 1)
      BY <2>1
    <3>2. QED
      BY <3>1
  <2>3. PICK f \in Nat : n = k + f
    <3>1. n - k \in Nat /\ n = k + (n - k)
      OBVIOUS
    <3>2. QED
      BY <3>1
  <2>4. q * n = last * k + last * f + n + e * n
    BY <2>2, <2>3
  <2>5. last * k = a /\ last * f \in Nat /\ e * n \in Nat
    BY <1>1
  <2>6. QED
    BY <1>3, <2>4, <2>5
<1>5. \A S : S = {last, q + 1} => Min(S) \in S /\ \A y \in S : Min(S) <= y
  <2>1. \E x \in {last, q + 1} : \A y \in {last, q + 1} : x <= y
    OBVIOUS
  <2>2. QED
    BY <2>1 DEF Min
<1>6. Min({last, q + 1}) \in {last, q + 1} /\ Min({last, q + 1}) <= last
  BY <1>5
<1>7. q <= Min({last, q + 1}) /\ Min({last, q + 1}) \in 0..last
  BY <1>4, <1>6
<1>8. QED
  BY <1>1, <1>2, <1>3, <1>4, <1>7

\* The edges of buckets are fractions.
LEMMA EdgeType ==
    ASSUME NEW v, Scored(v), DOMAIN v # {}, NEW n \in Nat \ {0}, NEW k \in 0..n
    PROVE  Edge(v, n, k) \in Fraction
<1>1. Cardinality(DOMAIN v) \in Nat /\ Cardinality(DOMAIN v) # 0
  BY FS_CardinalityType, FS_EmptySet DEF Scored
<1>2. PICK last \in Nat : last = Cardinality(DOMAIN v) - 1
  BY <1>1
<1>3. PICK i \in 0..last : i = (k * last) \div n
  BY EdgePosition
<1>4. PICK j \in 0..last : j = Min({last, i + 1}) /\ i <= j
  BY <1>3, EdgePosition
<1>5. PICK q \in Fraction : q = Frac((k * last) % n, n)
  BY EdgePosition, FracValue
<1>6. j < Cardinality(DOMAIN v) /\ i \in Nat /\ j \in Nat
  BY <1>1, <1>2
<1>7. At(v, i) \in Fraction /\ At(v, j) \in Fraction /\ At(v, i) \preceq At(v, j)
  BY <1>4, <1>6, AtRises
<1>8. Between(At(v, i), At(v, j), q) \in Fraction
  BY <1>7, BetweenType
<1>9. QED
  BY <1>2, <1>3, <1>4, <1>5, <1>8 DEF Edge

\* The greatest of two numbers, the first of which is 1.
LEMMA AtLeastOne ==
    ASSUME NEW c \in Nat
    PROVE  Max({1, c}) = IF c = 0 THEN 1 ELSE c
<1>1. \A y \in {1, c} : (IF c = 0 THEN 1 ELSE c) >= y
  OBVIOUS
<1>2. Max({1, c}) \in {1, c} /\ \A y \in {1, c} : Max({1, c}) >= y
  BY <1>1 DEF Max
<1>3. QED
  BY <1>2

\* A larger score is in no smaller bucket.
LEMMA BucketRises ==
    ASSUME NEW v, Scored(v), NEW n \in Nat \ {0}
    PROVE  /\ Bucket(v, n) \in [DOMAIN v -> 0..(n + 1)]
           /\ \A s, o \in DOMAIN v : v[s] \preceq v[o] => Bucket(v, n)[s] <= Bucket(v, n)[o]
<1> DEFINE edges == {Edge(v, n, k) : k \in 0..n}
           below(s) == {e \in edges : e \prec v[s]}
<1>1. IsFiniteSet(edges) /\ Cardinality(edges) <= n + 1 /\ Cardinality(edges) \in Nat
  <2>1. [k \in 0..n |-> Edge(v, n, k)] \in Surjection(0..n, edges)
    BY DEF Surjection
  <2>2. IsFiniteSet(0..n) /\ Cardinality(0..n) = n + 1
    BY FS_Interval
  <2> HIDE DEF edges
  <2>3. QED
    BY <2>1, <2>2, FS_Surjection, FS_CardinalityType
<1>2. ASSUME NEW s \in DOMAIN v
      PROVE  /\ IsFiniteSet(below(s)) /\ Cardinality(below(s)) \in 0..(n + 1)
             /\ Bucket(v, n)[s] = IF Cardinality(below(s)) = 0 THEN 1 ELSE Cardinality(below(s))
  <2>1. below(s) \in SUBSET edges
    OBVIOUS
  <2>2. Bucket(v, n)[s] = Max({1, Cardinality(below(s))})
    BY DEF Bucket
  <2> HIDE DEF edges, below
  <2>3. IsFiniteSet(below(s)) /\ Cardinality(below(s)) <= Cardinality(edges)
    BY <1>1, <2>1, FS_Subset
  <2>4. Cardinality(below(s)) \in Nat
    BY <2>3, FS_CardinalityType
  <2>5. Cardinality(below(s)) \in 0..(n + 1)
    BY <1>1, <2>3, <2>4
  <2>6. QED
    BY <2>2, <2>3, <2>4, <2>5, AtLeastOne
<1>3. ASSUME NEW s \in DOMAIN v, NEW o \in DOMAIN v, v[s] \preceq v[o]
      PROVE  Cardinality(below(s)) <= Cardinality(below(o))
  <2>1. v[s] \in Fraction /\ v[o] \in Fraction
    BY DEF Scored
  <2>2. \A e \in edges : e \in Fraction
    BY EdgeType
  <2>3. below(s) \subseteq below(o)
    <3> HIDE DEF edges
    <3>1. QED
      BY <1>3, <2>1, <2>2, BelowTransitive
  <2>4. IsFiniteSet(below(o))
    BY <1>2
  <2> HIDE DEF below
  <2>5. QED
    BY <2>3, <2>4, FS_Subset
<1>4. Bucket(v, n) = [s \in DOMAIN v |-> Bucket(v, n)[s]]
  BY DEF Bucket
<1> HIDE DEF below
<1>5. \A s \in DOMAIN v : Bucket(v, n)[s] \in 0..(n + 1)
  BY <1>2
<1>6. ASSUME NEW s \in DOMAIN v, NEW o \in DOMAIN v, v[s] \preceq v[o]
      PROVE  Bucket(v, n)[s] <= Bucket(v, n)[o]
  <2>1. Cardinality(below(s)) \in Nat /\ Cardinality(below(o)) \in Nat
    BY <1>2
  <2>2. QED
    BY <1>2, <1>3, <1>6, <2>1
<1>7. QED
  BY <1>4, <1>5, <1>6

\* The long leg scores above the short one; neither is there without the other.
Apart(legs, v) ==
    /\ legs.long \subseteq DOMAIN v /\ legs.short \subseteq DOMAIN v
    /\ legs.long = {} <=> legs.short = {}
    /\ \A s \in legs.long, o \in legs.short : v[o] \prec v[s]

\* The end buckets are apart when there are two buckets.
LEMMA EndsApart ==
    ASSUME NEW v, \A s \in DOMAIN v : v[s] \in Fraction,
           NEW m \in Nat, NEW bucket \in [DOMAIN v -> 0..m],
           \A s, o \in DOMAIN v : v[s] \preceq v[o] => bucket[s] <= bucket[o]
    PROVE  Apart(EndBuckets(bucket, 2), v)
<1> DEFINE labels == {bucket[s] : s \in DOMAIN bucket}
           with(b) == {s \in DOMAIN bucket : bucket[s] = b}
<1>1. EndBuckets(bucket, 2) = IF Cardinality(labels) < 2 THEN NoLegs
                              ELSE [long |-> with(Max(labels)), short |-> with(Min(labels))]
  BY DEF EndBuckets
<1>2. CASE Cardinality(labels) < 2
  BY <1>1, <1>2 DEF NoLegs, Apart
<1>3. CASE ~(Cardinality(labels) < 2)
  <2>1. labels \in SUBSET (0..m) /\ IsFiniteSet(0..m)
    BY FS_Interval
  <2>2. IsFiniteSet(labels) /\ labels \in SUBSET Nat
    <3>1. \A x \in 0..m : x \in Nat
      OBVIOUS
    <3> HIDE DEF labels
    <3>2. IsFiniteSet(labels)
      BY <2>1, FS_Subset
    <3>3. QED
      BY <2>1, <3>1, <3>2
  <2>3. labels # {} /\ \A x : labels # {x}
    <3> HIDE DEF labels
    <3>1. Cardinality({}) = 0
      BY FS_EmptySet
    <3>2. \A x : Cardinality({x}) = 1
      BY FS_Singleton, Zenon
    <3>3. \A x : labels = {x} => Cardinality(labels) < 2
      BY <3>2
    <3>4. labels = {} => Cardinality(labels) < 2
      BY <3>1
    <3>5. QED
      BY <1>3, <3>3, <3>4
  <2>4. /\ Max(labels) \in labels /\ \A y \in labels : y <= Max(labels)
        /\ Min(labels) \in labels
    <3> HIDE DEF labels
    <3>1. QED
      BY <2>1, <2>2, <2>3, LargestIsLargest, LeastIsElement
  <2>5. \A y \in labels : Min(labels) <= y
    <3> HIDE DEF labels
    <3>1. PICK x \in labels : \A y \in labels : x <= y
      BY <2>2, <2>3, LeastElement
    <3>2. QED
      BY <3>1 DEF Min
  <2>6. Min(labels) < Max(labels) /\ Min(labels) \in Nat /\ Max(labels) \in Nat
    <3> HIDE DEF labels
    <3>1. Min(labels) # Max(labels)
      <4>1. SUFFICES ASSUME Min(labels) = Max(labels) PROVE labels = {Min(labels)}
        BY <2>3
      <4>2. \A x \in Nat : \A y \in Nat : x <= y /\ y <= x => y = x
        OBVIOUS
      <4>3. \A y \in labels : y \in Nat /\ Min(labels) <= y /\ y <= Min(labels) /\ Min(labels) \in Nat
        BY <2>2, <2>4, <2>5, <4>1
      <4>4. \A y \in labels : y = Min(labels)
        BY <4>2, <4>3
      <4>5. QED
        BY <2>4, <4>4
    <3>2. Min(labels) \in Nat /\ Max(labels) \in Nat /\ Min(labels) <= Max(labels)
      BY <2>2, <2>4, <2>5
    <3>3. \A x \in Nat : \A y \in Nat : x <= y /\ x # y => x < y
      OBVIOUS
    <3>4. QED
      BY <3>1, <3>2, <3>3
  <2>7. (\E s \in DOMAIN v : bucket[s] = Max(labels)) /\ (\E s \in DOMAIN v : bucket[s] = Min(labels))
    BY <2>4
  <2> HIDE DEF labels
  <2>8. ASSUME NEW s \in DOMAIN v, bucket[s] = Max(labels), NEW o \in DOMAIN v, bucket[o] = Min(labels)
        PROVE  v[o] \prec v[s]
    <3>1. ~(v[s] \preceq v[o])
      BY <2>6, <2>8
    <3>2. QED
      BY <3>1, Above
  <2>9. QED
    BY <1>1, <1>3, <2>7, <2>8 DEF Apart
<1>4. QED
  BY <1>2, <1>3

\* The legs of any scores are apart.
LEMMA LegsApart ==
    ASSUME NEW v, Scored(v), NEW n \in Nat \ {0}
    PROVE  Apart(Legs(v, n), v)
<1>1. Apart(NoLegs, v)
  BY DEF NoLegs, Apart
<1>2. Apart(EndBuckets(Bucket(v, n), 2), v)
  BY BucketRises, EndsApart DEF Scored
<1>3. QED
  BY <1>1, <1>2 DEF Legs

-----------------------------------------------------------------------------
(***************************************************************************)
(* Books.                                                                  *)
(***************************************************************************)

\* A positive number is not Zero.
LEMMA WholeFraction ==
    ASSUME NEW n \in Nat
    PROVE  Frac(n, 1) \in Fraction /\ (n # 0 => Frac(n, 1) # Zero)
<1>1. \A d \in Nat \ {0} : \A m \in Nat : \A e \in Nat \ {0} : Frac(n, d) = Frac(m, e) <=> n * e = m * d
  BY FracEqual
<1>2. 1 \in Nat \ {0} /\ 0 \in Nat
  OBVIOUS
<1>3. Frac(n, 1) = Frac(0, 1) <=> n * 1 = 0 * 1
  BY <1>1, <1>2
<1>4. Frac(n, 1) \in Fraction
  BY <1>2, FracValue
<1>5. QED
  BY <1>3, <1>4 DEF Zero

\* A total is not Zero when one of its terms is not.
LEMMA TotalNotZero ==
    ASSUME NEW U, IsFiniteSet(U), NEW f, \A i \in U : f[i] \in Fraction, NEW y \in U, f[y] # Zero
    PROVE  Total(f, U) \in Fraction /\ Total(f, U) # Zero
<1>1. /\ Total(f, U) \in Fraction /\ Total(f, U \ {y}) \in Fraction
      /\ Total(f, U) = f[y] ++ Total(f, U \ {y})
  BY TotalPick
<1>2. f[y] \preceq Total(f, U) /\ f[y] \in Fraction
  BY <1>1, Grows
<1>3. Zero \in Fraction /\ Zero \preceq f[y]
  <2>1. Zero ++ f[y] = f[y] /\ Zero \in Fraction
    BY <1>2, Units, ZeroAndOne
  <2>2. QED
    BY <1>2, <2>1, Grows
<1>4. Total(f, U) = Zero => f[y] = Zero
  BY <1>2, <1>3, Compare
<1>5. QED
  BY <1>1, <1>4

\* A leg shared by positive pulls is fully invested.
LEMMA SharedIsWhole ==
    ASSUME NEW leg, IsFiniteSet(leg), leg # {}, NEW pull, \A s \in leg : pull[s] \in Nat \ {0}
    PROVE  DOMAIN Shared(leg, pull) = leg /\ Total(Shared(leg, pull), leg) = One
<1> DEFINE part == [s \in leg |-> Frac(pull[s], 1)]
           share == Shared(leg, pull)
           total == Total(part, leg)
<1>1. \A s \in leg : part[s] \in Fraction /\ part[s] # Zero
  BY WholeFraction
<1>2. share = [s \in leg |-> part[s] // total]
  BY DEF Shared
<1> HIDE DEF part, share
<1>3. total \in Fraction /\ total # Zero
  BY <1>1, TotalNotZero
<1>4. \A s \in leg : share[s] \in Fraction /\ part[s] = share[s] ** total
  <2> HIDE DEF total
  <2>1. QED
    BY <1>1, <1>2, <1>3, Quotient
<1>5. Total(share, leg) \in Fraction
  BY <1>4, TotalType
<1>6. Total(part, leg) = Total(share, leg) ** total
  <2> HIDE DEF total
  <2>1. QED
    BY <1>3, <1>4, TotalScale
<1>7. Total(share, leg) = Frac(1, 1)
  <2>1. Total(share, leg) ** total = total
    BY <1>6
  <2> HIDE DEF total
  <2>2. QED
    BY <1>3, <1>5, <2>1, CancelFactor
<1>8. QED
  BY <1>2, <1>7 DEF share, One

\* The tilts: numbers of some of the symbols.
Tilting(pull) == DOMAIN pull \subseteq Symbol /\ \A s \in DOMAIN pull : pull[s] \in Nat

\* Legs that are apart make a sound book, whatever the tilts.
LEMMA TiltedSound ==
    ASSUME NEW v, Scored(v), NEW legs, Apart(legs, v), NEW pull, Tilting(pull)
    PROVE  BookSound(Tilted(legs, pull), v)
<1> DEFINE has == {s \in DOMAIN pull : pull[s] > 0}
           long == legs.long \cap has
           short == legs.short \cap has
           book == Tilted(legs, pull)
<1>1. book = [long |-> Shared(long, pull), short |-> Shared(short, pull)]
  BY DEF Tilted, Book, Pulled
<1>2. \A leg : DOMAIN Shared(leg, pull) = leg
  BY DEF Shared
<1>3. DOMAIN book.long = long /\ DOMAIN book.short = short
  BY <1>1, <1>2
<1>4. ASSUME NEW leg, leg \subseteq DOMAIN v, leg \subseteq has
      PROVE  DOMAIN Shared(leg, pull) = {} \/ Total(Shared(leg, pull), DOMAIN Shared(leg, pull)) = One
  <2>1. IsFiniteSet(leg)
    BY <1>4, FS_Subset DEF Scored
  <2>2. \A s \in leg : pull[s] \in Nat \ {0}
    BY <1>4 DEF Tilting
  <2>3. leg = {} \/ Total(Shared(leg, pull), leg) = One
    BY <2>1, <2>2, SharedIsWhole
  <2>4. QED
    BY <1>2, <2>3
<1>5. long \subseteq DOMAIN v /\ short \subseteq DOMAIN v /\ long \subseteq has /\ short \subseteq has
  BY DEF Apart
<1>6. \A s \in long, o \in short : v[o] \prec v[s]
  BY DEF Apart
<1> HIDE DEF long, short, has
<1>7. \A leg \in {book.long, book.short} : DOMAIN leg = {} \/ Total(leg, DOMAIN leg) = One
  <2>1. /\ DOMAIN Shared(long, pull) = {} \/ Total(Shared(long, pull), DOMAIN Shared(long, pull)) = One
        /\ DOMAIN Shared(short, pull) = {} \/ Total(Shared(short, pull), DOMAIN Shared(short, pull)) = One
    BY <1>4, <1>5
  <2>2. QED
    BY <1>1, <2>1
<1> HIDE DEF book
<1>8. QED
  BY <1>3, <1>6, <1>7 DEF BookSound, book

\* With equal weights nobody is without a pull.
LEMMA AlikeBoth ==
    ASSUME NEW v, Scored(v), NEW legs, Apart(legs, v)
    PROVE  Tilting(Alike) /\ BothLegs(Tilted(legs, Alike))
<1> DEFINE has == {s \in DOMAIN Alike : Alike[s] > 0}
<1>1. DOMAIN Alike = Symbol /\ \A s \in Symbol : Alike[s] = 1
  BY DEF Alike
<1>2. has = Symbol
  BY <1>1
<1>3. legs.long \cap has = legs.long /\ legs.short \cap has = legs.short
  BY <1>2 DEF Apart, Scored
<1>4. Tilted(legs, Alike) = [long |-> Shared(legs.long, Alike), short |-> Shared(legs.short, Alike)]
  BY <1>3 DEF Tilted, Book, Pulled
<1>5. \A leg : DOMAIN Shared(leg, Alike) = leg
  BY DEF Shared
<1>6. DOMAIN Tilted(legs, Alike).long = legs.long /\ DOMAIN Tilted(legs, Alike).short = legs.short
  BY <1>4, <1>5
<1>7. BothLegs(Tilted(legs, Alike))
  BY <1>6 DEF BothLegs, Apart
<1>8. QED
  BY <1>1, <1>7 DEF Tilting

-----------------------------------------------------------------------------
(***************************************************************************)
(* Scores.                                                                 *)
(***************************************************************************)

\* A percentile is a fraction.
LEMMA Percentiles ==
    ASSUME NEW v, IsFiniteSet(DOMAIN v), DOMAIN v \subseteq Symbol
    PROVE  Scored(RankPercentile(v)) /\ DOMAIN RankPercentile(v) = DOMAIN v
<1> DEFINE D == DOMAIN v
           n == Cardinality(D)
           less(s) == {o \in D : v[o] < v[s]}
           equal(s) == {o \in D : v[o] = v[s]}
<1>1. RankPercentile(v) = [s \in D |-> IF n = 1 THEN Frac(1, 2)
          ELSE Frac(2 * Cardinality(less(s)) + Cardinality(equal(s)) - 1, 2 * (n - 1))]
  BY DEF RankPercentile
<1>2. ASSUME NEW s \in D PROVE RankPercentile(v)[s] \in Fraction
  <2>1. \A S \in SUBSET D : IsFiniteSet(S) /\ Cardinality(S) \in Nat
    BY FS_Subset, FS_CardinalityType
  <2>2. Cardinality(less(s)) \in Nat /\ Cardinality(equal(s)) \in Nat /\ IsFiniteSet(equal(s)) /\ n \in Nat
    BY <2>1
  <2>3. s \in equal(s)
    OBVIOUS
  <2>4. Cardinality(equal(s)) # 0 /\ n # 0
    <3> HIDE DEF equal
    <3>1. QED
      BY <2>2, <2>3, FS_EmptySet
  <2>5. PICK l \in Nat, e \in Nat \ {0}, c \in Nat \ {0} :
            l = Cardinality(less(s)) /\ e = Cardinality(equal(s)) /\ c = n
    BY <2>2, <2>4
  <2>6. RankPercentile(v)[s] = IF c = 1 THEN Frac(1, 2) ELSE Frac(2 * l + e - 1, 2 * (c - 1))
    <3> HIDE DEF less, equal, n
    <3>1. QED
      BY <1>1, <2>5
  <2>7. 1 \in Nat /\ 2 \in Nat \ {0} /\ 2 * l + e - 1 \in Nat /\ (c # 1 => 2 * (c - 1) \in Nat \ {0})
    OBVIOUS
  <2>8. Frac(1, 2) \in Fraction /\ (c # 1 => Frac(2 * l + e - 1, 2 * (c - 1)) \in Fraction)
    BY <2>7, FracValue
  <2>9. QED
    BY <2>6, <2>8
<1>3. DOMAIN RankPercentile(v) = D
  BY <1>1
<1>4. QED
  BY <1>2, <1>3 DEF Scored

\* So are the scores of every panel.
LEMMA PanelScored ==
    ASSUME NEW m, NEW f, NEW t \in Friday
    PROVE  Scored(Panel(m, f)[t])
<1>1. \A S \in SUBSET Symbol : IsFiniteSet(S)
  BY UniverseAssumption, FS_Subset
<1>2. DOMAIN PriceValues(m, f, t) \in SUBSET Symbol /\ DOMAIN FilingValues(m, f, t) \in SUBSET Symbol
  BY DEF PriceValues, FilingValues
<1>3. Scored(RankPercentile(PriceValues(m, f, t))) /\ Scored(RankPercentile(FilingValues(m, f, t)))
  BY <1>1, <1>2, Percentiles
<1>4. Panel(m, f)[t] = RankPercentile(PriceValues(m, f, t)) \/ Panel(m, f)[t] = RankPercentile(FilingValues(m, f, t))
  BY DEF Panel, PricePanel, FilingPanel
<1>5. QED
  BY <1>3, <1>4

\* Multiplication by anything but Zero keeps the order strict.
LEMMA CancelAtMost ==
    ASSUME NEW x \in Fraction, NEW y \in Fraction, NEW w \in Fraction, w # Zero, x ** w \preceq y ** w
    PROVE  x \preceq y
<1>1. SUFFICES ASSUME y \prec x PROVE FALSE
  BY Compare
<1>2. y ** w \preceq x ** w /\ x ** w \in Fraction /\ y ** w \in Fraction
  BY <1>1, Compare, MulMonotone, Closed
<1>3. x ** w = y ** w
  BY <1>2, Compare
<1>4. PICK a \in Nat, b \in Nat \ {0} : x = Frac(a, b)
  BY FracOf
<1>5. PICK c \in Nat, e \in Nat \ {0} : y = Frac(c, e)
  BY FracOf
<1>6. PICK g \in Nat, h \in Nat \ {0} : w = Frac(g, h)
  BY FracOf
<1>7. g # 0
  BY <1>6, ZeroOver
<1>8. PICK k \in Nat \ {0} : k = g * h
  BY <1>7, Products
<1>9. a * g \in Nat /\ b * h \in Nat \ {0} /\ c * g \in Nat /\ e * h \in Nat \ {0}
  BY Products
<1>10. Frac(a * g, b * h) = Frac(c * g, e * h)
  BY <1>3, <1>4, <1>5, <1>6, MulFrac
<1>11. (a * g) * (e * h) = (c * g) * (b * h)
  BY <1>9, <1>10, FracEqual
<1>12. (a * e) * k = (c * b) * k /\ a * e \in Nat /\ c * b \in Nat
  <2>1. (a * e) * k = (a * g) * (e * h)
    BY <1>8
  <2>2. (c * b) * k = (c * g) * (b * h)
    BY <1>8
  <2>3. QED
    BY <1>11, <2>1, <2>2
<1>13. x = y
  BY <1>4, <1>5, <1>12, Cancel, FracEqual
<1>14. QED
  BY <1>1, <1>13, Compare

\* A weighted mean of some fractions is one, and lies between them.
LEMMA MeanAmid ==
    ASSUME NEW H, IsFiniteSet(H), H # {}, NEW weight, NEW score, NEW product,
           \A f \in H : /\ weight[f] \in Fraction /\ weight[f] # Zero /\ score[f] \in Fraction
                        /\ product[f] = weight[f] ** score[f]
    PROVE  /\ Total(product, H) // Total(weight, H) \in Fraction
           /\ \E f \in H : score[f] \preceq Total(product, H) // Total(weight, H)
           /\ \E f \in H : Total(product, H) // Total(weight, H) \preceq score[f]
<1> DEFINE W == Total(weight, H)
           N == Total(product, H)
           x == N // W
<1>1. \A f \in H : product[f] \in Fraction
  BY Closed
<1>2. W \in Fraction /\ W # Zero
  BY TotalNotZero
<1>3. N \in Fraction
  BY <1>1, TotalType
<1> HIDE DEF W, N
<1>4. x \in Fraction /\ x ** W = N
  BY <1>2, <1>3, Quotient
<1>5. ASSUME NEW c \in Fraction
      PROVE  LET level == [f \in H |-> weight[f] ** c]
             IN  /\ \A f \in H : level[f] \in Fraction
                 /\ Total(level, H) = c ** W
  <2> DEFINE level == [f \in H |-> weight[f] ** c]
  <2>1. \A f \in H : level[f] = weight[f] ** c /\ level[f] \in Fraction
    BY <1>5, Closed
  <2> HIDE DEF level
  <2>2. Total(level, H) = Total(weight, H) ** c
    BY <1>5, <2>1, TotalScale
  <2>3. Total(level, H) = c ** W
    BY <1>2, <1>5, <2>2, Commutes DEF W
  <2>4. QED
    BY <2>1, <2>3 DEF level
<1>6. \E f \in H : score[f] \preceq x
  <2>1. PICK g \in H : \A f \in H : score[g] \preceq score[f]
    BY Extremes
  <2> DEFINE level == [f \in H |-> weight[f] ** score[g]]
  <2>2. (\A f \in H : level[f] \in Fraction) /\ Total(level, H) = score[g] ** W
    BY <1>5
  <2>3. \A f \in H : level[f] \preceq product[f]
    <3>1. ASSUME NEW f \in H PROVE level[f] \preceq product[f]
      <4>1. score[g] ** weight[f] \preceq score[f] ** weight[f]
        BY <2>1, MulMonotone
      <4>2. QED
        BY <4>1, Commutes
    <3>2. QED
      BY <3>1
  <2> HIDE DEF level
  <2>4. Total(level, H) \preceq N
    BY <1>1, <2>2, <2>3, TotalMonotone DEF N
  <2>5. score[g] ** W \preceq x ** W
    BY <1>4, <2>2, <2>4
  <2>6. score[g] \preceq x
    <3> HIDE DEF x
    <3>1. QED
      BY <1>2, <1>4, <2>5, CancelAtMost
  <2>7. QED
    BY <2>6
<1>7. \E f \in H : x \preceq score[f]
  <2>1. PICK g \in H : \A f \in H : score[f] \preceq score[g]
    BY Extremes
  <2> DEFINE level == [f \in H |-> weight[f] ** score[g]]
  <2>2. (\A f \in H : level[f] \in Fraction) /\ Total(level, H) = score[g] ** W
    BY <1>5
  <2>3. \A f \in H : product[f] \preceq level[f]
    <3>1. ASSUME NEW f \in H PROVE product[f] \preceq level[f]
      <4>1. score[f] ** weight[f] \preceq score[g] ** weight[f]
        BY <2>1, MulMonotone
      <4>2. QED
        BY <4>1, Commutes
    <3>2. QED
      BY <3>1
  <2> HIDE DEF level
  <2>4. N \preceq Total(level, H)
    BY <1>1, <2>2, <2>3, TotalMonotone DEF N
  <2>5. x ** W \preceq score[g] ** W
    BY <1>4, <2>2, <2>4
  <2>6. x \preceq score[g]
    <3> HIDE DEF x
    <3>1. QED
      BY <1>2, <1>4, <2>5, CancelAtMost
  <2>7. QED
    BY <2>6
<1>8. QED
  BY <1>4, <1>6, <1>7 DEF W, N

\* The scores of an ensemble are scores, each between those that its panels have of the symbol.
Backed(ensemble, panels, t) ==
    /\ Scored(ensemble[t])
    /\ \A s \in DOMAIN ensemble[t] :
        Amid(ensemble[t][s], {panels[f][t][s] : f \in {f \in DOMAIN panels : s \in DOMAIN panels[f][t]}})

\* The ensemble of some panels, with equal weights, is backed by them.
LEMMA EnsembleAmid ==
    ASSUME NEW panels, DOMAIN panels \subseteq Factor,
           \A f \in DOMAIN panels : \A t \in Friday : Scored(panels[f][t]),
           NEW t \in Friday
    PROVE  Backed(EnsembleScores(panels, Ones(DOMAIN panels), Coverage), panels, t)
<1> DEFINE sharpe == Ones(DOMAIN panels)
           included == {f \in DOMAIN panels : sharpe[f] > 0 /\ ~IsEmpty(panels[f])}
           weight == [f \in included |-> Frac(sharpe[f], 1)]
           having(s) == {f \in included : s \in DOMAIN panels[f][t]}
           score(s) == [f \in having(s) |-> panels[f][t][s]]
           product(s) == [f \in having(s) |-> weight[f] ** panels[f][t][s]]
           known == {s \in Symbol : Cardinality(having(s)) >= Coverage}
           ensemble == EnsembleScores(panels, sharpe, Coverage)
<1>1. ensemble[t] = [s \in known |-> Total(product(s), having(s)) // Total(weight, having(s))]
  BY DEF EnsembleScores
<1>2. \A f \in included : sharpe[f] = 1
  BY DEF Ones
<1>3. \A f \in included : weight[f] \in Fraction /\ weight[f] # Zero
  <2>1. Frac(1, 1) \in Fraction /\ Frac(1, 1) # Zero
    BY WholeFraction
  <2>2. \A f \in included : weight[f] = Frac(1, 1)
    BY <1>2
  <2>3. QED
    BY <2>1, <2>2
<1>4. ASSUME NEW s \in known
      PROVE  LET x == Total(product(s), having(s)) // Total(weight, having(s))
             IN  /\ x \in Fraction
                 /\ \E f \in having(s) : panels[f][t][s] \preceq x
                 /\ \E f \in having(s) : x \preceq panels[f][t][s]
  <2>1. having(s) \in SUBSET Factor
    OBVIOUS
  <2>2. IsFiniteSet(having(s))
    <3> HIDE DEF having
    <3>1. QED
      BY <2>1, UniverseAssumption, FS_Subset
  <2>3. Cardinality(having(s)) >= Coverage /\ Coverage \in Nat \ {0}
    BY ScriptAssumption
  <2>4. having(s) # {}
    <3> HIDE DEF having
    <3>1. Cardinality({}) = 0
      BY FS_EmptySet
    <3>2. QED
      BY <2>3, <3>1
  <2>5. \A f \in having(s) : f \in included /\ score(s)[f] = panels[f][t][s] /\ product(s)[f] = weight[f] ** score(s)[f]
    OBVIOUS
  <2>6. \A f \in having(s) : score(s)[f] \in Fraction
    BY DEF Scored
  <2> HIDE DEF included, weight, having, score, product, known
  <2>7. \A f \in having(s) : /\ weight[f] \in Fraction /\ weight[f] # Zero /\ score(s)[f] \in Fraction
                             /\ product(s)[f] = weight[f] ** score(s)[f]
    BY <1>3, <2>5, <2>6
  <2>8. /\ Total(product(s), having(s)) // Total(weight, having(s)) \in Fraction
        /\ \E f \in having(s) : score(s)[f] \preceq Total(product(s), having(s)) // Total(weight, having(s))
        /\ \E f \in having(s) : Total(product(s), having(s)) // Total(weight, having(s)) \preceq score(s)[f]
    BY <2>2, <2>4, <2>7, MeanAmid
  <2>9. QED
    BY <2>5, <2>8
<1>5. DOMAIN ensemble[t] = known /\ known \in SUBSET Symbol
  BY <1>1
<1>6. IsFiniteSet(known)
  BY <1>5, UniverseAssumption, FS_Subset
<1>7. \A s \in known : having(s) \subseteq {f \in DOMAIN panels : s \in DOMAIN panels[f][t]}
  OBVIOUS
<1> HIDE DEF known, having, product, weight, ensemble
<1>8. \A s \in known : /\ ensemble[t][s] \in Fraction
                       /\ \E f \in having(s) : panels[f][t][s] \preceq ensemble[t][s]
                       /\ \E f \in having(s) : ensemble[t][s] \preceq panels[f][t][s]
  BY <1>1, <1>4
<1>9. Scored(ensemble[t])
  BY <1>5, <1>6, <1>8 DEF Scored
<1>10. ASSUME NEW s \in known
       PROVE  Amid(ensemble[t][s], {panels[f][t][s] : f \in {f \in DOMAIN panels : s \in DOMAIN panels[f][t]}})
  BY <1>7, <1>8 DEF Amid
<1>11. QED
  BY <1>5, <1>9, <1>10 DEF Backed, ensemble

\* Whatever a market is, the books that are made of it are sound.
LEMMA MarketSound ==
    ASSUME NEW m \in Market
    PROVE  LET panels == RegistryPanels(View(m))
           IN  Sound(View(m), panels, EnsembleScores(panels, Ones(DOMAIN panels), Coverage))
<1> DEFINE seen == View(m)
           panels == RegistryPanels(seen)
           ensemble == EnsembleScores(panels, Ones(DOMAIN panels), Coverage)
<1>1. \A f \in Factor : seen.panels[f] = Panel(m, f)
  BY DEF View
<1>2. \A f \in Factor : \A t \in Friday : Scored(seen.panels[f][t])
  BY <1>1, PanelScored
<1>3. \A t \in Friday : Tilting(seen.vol[t]) /\ Tilting(seen.size[t])
  <2>1. m.size \in [Symbol -> Nat] /\ m.calm \in [Symbol -> Nat]
    BY DEF Market
  <2>2. seen.vol = VolPanel(m) /\ seen.size = SizePanel(m)
    BY DEF View
  <2>3. ASSUME NEW t \in Friday PROVE Tilting(VolPanel(m)[t])
    BY <2>1 DEF VolPanel, Tilting
  <2>4. ASSUME NEW t \in Friday PROVE Tilting(SizePanel(m)[t])
    BY <2>1 DEF SizePanel, Tilting
  <2>5. QED
    BY <2>2, <2>3, <2>4
<1>4. DOMAIN panels \subseteq Factor /\ \A f \in DOMAIN panels : panels[f] = seen.panels[f]
  BY ScriptAssumption DEF RegistryPanels
<1> HIDE DEF seen, panels
<1>5. \A f \in DOMAIN panels : \A t \in Friday : Scored(panels[f][t])
  BY <1>2, <1>4
<1>6. \A t \in Friday : Backed(ensemble, panels, t)
  BY <1>4, <1>5, EnsembleAmid
<1> HIDE DEF ensemble
<1>7. ASSUME NEW t \in Friday, NEW v, Scored(v)
      PROVE  /\ BothLegs(Tilted(Legs(v, Quantiles), Alike))
             /\ \A pull \in {Alike, seen.vol[t], seen.size[t]} : BookSound(Tilted(Legs(v, Quantiles), pull), v)
  <2>1. Apart(Legs(v, Quantiles), v)
    BY <1>7, BoundAssumption, LegsApart
  <2>2. Tilting(Alike) /\ BothLegs(Tilted(Legs(v, Quantiles), Alike))
    BY <1>7, <2>1, AlikeBoth
  <2>3. \A pull \in {Alike, seen.vol[t], seen.size[t]} : Tilting(pull)
    BY <1>3, <2>2
  <2>4. QED
    BY <1>7, <2>1, <2>2, <2>3, TiltedSound
<1>8. \A t \in Friday : \A v \in {seen.panels[f][t] : f \in Factor} \cup {ensemble[t]} : Scored(v)
  BY <1>2, <1>6 DEF Backed
<1>9. Sound(seen, panels, ensemble)
  BY <1>6, <1>7, <1>8 DEF Sound, Backed
<1>10. QED
  BY <1>9 DEF seen, panels, ensemble

\* What a run has seen is a market, so its books are sound.
LEMMA InvBooks ==
    ASSUME Inv
    PROVE  BooksSound
<1>1. SUFFICES ASSUME NEW r \in Run
               PROVE  \A seen \in {View(Seen(r))} : \A panels \in {RegistryPanels(seen)} :
                          Sound(seen, panels, EnsembleScores(panels, Ones(DOMAIN panels), Coverage))
  BY DEF BooksSound
<1>2. Seen(r) \in Market
  BY SeenMarket DEF Inv
<1>3. QED
  BY <1>2, MarketSound

-----------------------------------------------------------------------------
(***************************************************************************)
(* Theorems.                                                               *)
(***************************************************************************)

LEMMA SpecInv == Spec => []Inv
  BY InitInv, StepInv, PTL DEF Spec

\* The runs, the files and the log of the scripts stay within their types: a run is at a
\* step of its own program, only a running or killed run has a file open, and what it
\* logged is of files it made something for.
THEOREM ScriptTypes == Spec => []TypeOK
<1>1. Inv => TypeOK
  BY InvTypes
<1>2. QED
  BY <1>1, SpecInv, PTL

\* Whatever the markets are and whenever prices are ingested: no script sees a day of the
\* holdout ("if end >= date(2024, 1, 1): return 2" in every main), what it scores on a
\* rebalance day is what it would score without any later data, and the forward returns
\* of that day are those of the days after it.
THEOREM NothingPeeks == Spec => []NoPeek
<1>1. Inv => NoPeek
  BY InvNoPeek
<1>2. QED
  BY <1>1, SpecInv, PTL

\* Whatever data are missing and whichever default a metric takes then, none of the
\* scripts writes PASS on fewer than two long-short returns (run_v1_romano_wolf.py
\* excepted).
THEOREM PassesRestOnReturns == Spec => []PassedOnEvidence
<1>1. Inv => PassedOnEvidence
  BY InvPassed
<1>2. QED
  BY <1>1, SpecInv, PTL

\* However many scripts run at the same time and whenever they are killed: what a logged
\* event says of an artefact is what the file says, unless it has been written again or
\* two writers crossed.  append_event comes last in every main.
THEOREM LogIsTrue == Spec => []LogAgreesWithDisk
<1>1. Inv => LogAgreesWithDisk
  BY InvLog
<1>2. QED
  BY <1>1, SpecInv, PTL

\* However often generate_outcome_tracker.py runs, next to itself or to edits, and
\* wherever it is killed: a table that is whole has the operator's last notes, unless an
\* edit or another regeneration fell between its reading and its writing.
THEOREM NotesAreKept == Spec => []NotesSurvive
<1>1. Inv => NotesSurvive
  BY DEF Inv
<1>2. QED
  BY <1>1, SpecInv, PTL

\* Whatever scores tie and whatever names or tilts are missing: the books of
\* compute_long_short_weights, compute_volatility_scaled_weights and
\* compute_cap_tilted_weights are long only what scores above all that they are short,
\* each leg that is there adds up to exactly one, the equally weighted book has both legs
\* or none, and the scores of compute_ensemble_weights lie between those that they are
\* made of.
THEOREM BooksAreSound == Spec => []BooksSound
<1>1. Inv => BooksSound
  BY InvBooks
<1>2. QED
  BY <1>1, SpecInv, PTL

=============================================================================
