---------------------------- MODULE ResearchLog ----------------------------
(***************************************************************************)
(* The hash-chained research log, results/research_log.jsonl, as           *)
(* scripts/append_research_log.py writes it and                            *)
(* scripts/verify_research_log.py judges it.                               *)
(*                                                                         *)
(* A member of Writer is one call of append_event: by the command line, or *)
(* by one of the research scripts.  A retry is another member.  The file   *)
(* is read twice and then written, with no lock: three steps.              *)
(*                                                                         *)
(* sha256 is free of collisions here: a hash is the sequence of entries it *)
(* commits to, and the genesis hash the empty sequence.                    *)
(***************************************************************************)
EXTENDS Naturals, Sequences

CONSTANTS
    Writer,      \* calls of append_event
    Tag,         \* iteration tags
    NoTag,       \* the event carries no tag
    Content,     \* what an event says, its timestamp apart
    Guarded,     \* the calls that pass --expected-prev-hash
    MaxCrash     \* bound: how often the machine fails in the middle of a write

ASSUME TagAssumption == NoTag \notin Tag
ASSUME GuardAssumption == Guarded \subseteq Writer /\ MaxCrash \in Nat

VARIABLES
    serial,      \* is there one writer at a time (fixed from the start)
    exists,      \* is there a file
    lines,       \* its lines
    unended,     \* does the last line lack its newline
    pc,          \* where each call is, or how it ended
    event,       \* the event of each call
    expected,    \* expected_prev_hash of each call
    prev,        \* prev_hash as each call has read it
    crashes      \* machine failures so far

vars == <<serial, exists, lines, unended, pc, event, expected, prev, crashes>>

Genesis == <<>>
Hash(p, e) == Append(p, e)

\* An entry as it is stored: the event and the timestamp of its writer.
Entry(w) == [tag |-> event[w].tag, content |-> event[w].content, timestamp |-> w]
Chained(p, e) == [kind |-> "chained", prev |-> p, entry |-> e, hash |-> Hash(p, e)]
Legacy == [kind |-> "legacy"]    \* written before the chain was introduced
Junk   == [kind |-> "junk"]      \* not JSON

Ended == {"appended", "already_appended", "tag_conflict", "prev_conflict", "exit_2", "crashed"}
Alive(w) == pc[w] \notin Ended \cup {"idle"}

Lines(k) == {i \in DOMAIN lines : lines[i].kind = k}

\* Mutant of LastHash: the link instead of the hash of the last line.
LastLink ==
    IF Lines("chained") = {} THEN Genesis
    ELSE lines[CHOOSE i \in Lines("chained") : \A j \in Lines("chained") : j <= i].prev

\* _last_hash: the hash of the last chained line, over any legacy line.
LastHash ==
    IF Lines("chained") = {} THEN Genesis
    ELSE lines[CHOOSE i \in Lines("chained") : \A j \in Lines("chained") : j <= i].hash

\* Mutant of Carrying: only the last line is looked at.
CarryingLast(tag) == {i \in Lines("chained") : i = Len(lines) /\ lines[i].entry.tag = tag}

\* _find_iteration_tag_match: the lines that carry a tag, unreadable ones skipped.
Carrying(tag) == {i \in Lines("chained") : lines[i].entry.tag = tag}
First(S) == CHOOSE i \in S : \A j \in S : i <= j

\* No legacy line after a chained one, and every chained line names the hash of the line
\* before it and carries the hash of itself.
Linked ==
    /\ \A i \in Lines("chained"), j \in Lines("legacy") : j < i
    /\ \A i \in Lines("chained") :
        /\ lines[i].prev = IF i - 1 \in Lines("chained") THEN lines[i - 1].hash ELSE Genesis
        /\ lines[i].hash = Hash(lines[i].prev, lines[i].entry)

\* Mutant of Verified: unreadable lines are skipped.
VerifiedReadable == exists /\ Linked

\* verify: there is a file, no line of it is unreadable, and the chain holds.
Verified == exists /\ Lines("junk") = {} /\ Linked

TypeOK ==
    /\ serial \in BOOLEAN
    /\ exists \in BOOLEAN
    /\ ~exists => lines = <<>>
    /\ \A i \in DOMAIN lines :
        \/ lines[i] \in {Legacy, Junk}
        \/ \E w \in Writer : lines[i] = Chained(lines[i].prev, Entry(w))
    /\ unended => lines # <<>>
    /\ pc \in [Writer -> {"idle", "tip_read", "checked_tag", "checked_tip"} \cup Ended]
    /\ event \in [Writer -> [tag : Tag \cup {NoTag}, content : Content]]
    /\ crashes \in 0..MaxCrash

Init ==
    /\ serial \in BOOLEAN
    /\ exists \in BOOLEAN
    /\ lines \in IF exists THEN {<<>>, <<Legacy>>} ELSE {<<>>}
    /\ unended = FALSE
    /\ pc = [w \in Writer |-> "idle"]
    /\ event \in [Writer -> [tag : Tag \cup {NoTag}, content : Content]]
    /\ expected = [w \in Writer |-> Genesis]
    /\ prev = [w \in Writer |-> Genesis]
    /\ crashes = 0

Goto(w, place) == pc' = [pc EXCEPT ![w] = place]
Static == UNCHANGED <<serial, event>>

\* The caller decides to append, with the chain tip it believes in.
Begin(w) ==
    /\ pc[w] = "idle"
    /\ serial => \A v \in Writer : ~Alive(v)
    /\ expected' = [expected EXCEPT ![w] = LastHash]
    /\ Goto(w, "tip_read")
    /\ UNCHANGED <<exists, lines, unended, prev, crashes>> /\ Static

\* First read: has the tag been recorded?  Same content is a silent success,
\* other content a conflict.
CheckTag(w) ==
    LET prior == Carrying(event[w].tag)
    IN  /\ pc[w] = "tip_read"
        /\ Goto(w, IF event[w].tag = NoTag \/ prior = {} THEN "checked_tag"
                   ELSE IF lines[First(prior)].entry.content = event[w].content
                        THEN "already_appended" ELSE "tag_conflict")
        /\ UNCHANGED <<exists, lines, unended, expected, prev, crashes>> /\ Static

\* Mutant of CheckTip: unreadable lines are skipped here as well.
CheckTipReadable(w) ==
    /\ pc[w] = "checked_tag"
    /\ IF w \in Guarded /\ LastHash # expected[w] THEN Goto(w, "prev_conflict") /\ UNCHANGED prev
       ELSE Goto(w, "checked_tip") /\ prev' = [prev EXCEPT ![w] = LastHash]
    /\ UNCHANGED <<exists, lines, unended, expected, crashes>> /\ Static

\* Second read: _last_hash, which exits with 2 at an unreadable line, and the
\* comparison with expected_prev_hash.
CheckTip(w) ==
    /\ pc[w] = "checked_tag"
    /\ IF Lines("junk") # {} THEN Goto(w, "exit_2") /\ UNCHANGED prev
       ELSE IF w \in Guarded /\ LastHash # expected[w] THEN Goto(w, "prev_conflict") /\ UNCHANGED prev
       ELSE Goto(w, "checked_tip") /\ prev' = [prev EXCEPT ![w] = LastHash]
    /\ UNCHANGED <<exists, lines, unended, expected, crashes>> /\ Static

\* What the file becomes when a line is added to it: a line that is added to an
\* unended one makes one unreadable line of the two.
Added(line) ==
    IF unended THEN [lines EXCEPT ![Len(lines)] = Junk] ELSE Append(lines, line)

\* Mutant of AppendRecord: the hash leaves prev_hash out.
AppendUnlinked(w) ==
    /\ pc[w] = "checked_tip"
    /\ lines' = Added([Chained(prev[w], Entry(w)) EXCEPT !.hash = Hash(Genesis, Entry(w))])
    /\ exists' = TRUE
    /\ unended' = FALSE
    /\ Goto(w, "appended")
    /\ UNCHANGED <<expected, prev, crashes>> /\ Static

\* open("a") and one write of record and newline.
AppendRecord(w) ==
    /\ pc[w] = "checked_tip"
    /\ lines' = Added(Chained(prev[w], Entry(w)))
    /\ exists' = TRUE
    /\ unended' = FALSE
    /\ Goto(w, "appended")
    /\ UNCHANGED <<expected, prev, crashes>> /\ Static

\* The machine fails in the middle of the write: a fragment is left, or all of the
\* record but its newline.
TornAppend(w) ==
    /\ pc[w] = "checked_tip"
    /\ crashes < MaxCrash
    /\ crashes' = crashes + 1
    /\ \E line \in {Junk, Chained(prev[w], Entry(w))} : lines' = Added(line)
    /\ exists' = TRUE
    /\ unended' = TRUE
    /\ Goto(w, "crashed")
    /\ UNCHANGED <<expected, prev>> /\ Static

\* The process of a call is killed before it writes; open may have created the file.
Killed(w) ==
    /\ Alive(w)
    /\ \/ UNCHANGED exists
       \/ pc[w] = "checked_tip" /\ exists' = TRUE
    /\ Goto(w, "crashed")
    /\ UNCHANGED <<lines, unended, expected, prev, crashes>> /\ Static

Next ==
    \E w \in Writer :
        \/ Begin(w)
        \/ CheckTag(w)
        \/ CheckTip(w)
        \/ AppendRecord(w)
        \/ TornAppend(w)
        \/ Killed(w)

Spec == Init /\ [][Next]_vars

-----------------------------------------------------------------------------
(***************************************************************************)
(* Properties.                                                             *)
(***************************************************************************)

\* Nothing is lost silently: a log the verifier accepts holds the record of every
\* call that returned "appended", exactly once.
VerifiedHoldsAcked ==
    Verified => \A w \in Writer : pc[w] = "appended" =>
        \E i \in DOMAIN lines : \A j \in DOMAIN lines :
            (lines[j] = Chained(prev[w], Entry(w))) <=> (j = i)

\* With one writer at a time and no torn write the verifier accepts whatever file there is.
SerialChainIntact == serial /\ crashes = 0 /\ exists => Verified

\* With one writer at a time an iteration tag is recorded at most once, however
\* often the iteration is retried and whatever a torn write left behind.
SerialTagsOnce ==
    serial => \A i, j \in Lines("chained") :
        lines[i].entry.tag = lines[j].entry.tag /\ lines[i].entry.tag # NoTag => i = j

\* A torn line stops the log: with one writer at a time nothing is added to a file
\* that holds an unreadable line.
JunkStopsAppends == [][serial /\ Lines("junk") # {} => UNCHANGED lines]_vars
=============================================================================
