--------------------------- MODULE MCEvidenceLedger ---------------------------
(***************************************************************************)
(* Instances of EvidenceLedger for TLC.                                    *)
(***************************************************************************)
EXTENDS EvidenceLedger, TLC

CONSTANTS e1, e2, e3, c1, c2

\* Nothing, or a version 2.0 log of two entries with a checkpoint of the first,
\* with its archive or without.
Empty == [events |-> <<>>, sealed |-> 0, archived |-> FALSE]
TwoEntries(archived) ==
  [events |-> <<[id |-> e1, content |-> c1], [id |-> e2, content |-> c1]>>,
   sealed |-> 1, archived |-> archived]
New == {Empty}
NewOrLegacy == {Empty, TwoEntries(TRUE), TwoEntries(FALSE)}

-----------------------------------------------------------------------------
(* Damages for TLC to choose from: what tests/test_evidence_integrity.py     *)
(* does to the files, and the same with every hash computed anew.            *)

S == INSTANCE SequencesExt

\* The end lost, something lost inside, neighbours exchanged, the last one
\* written twice.
Shuffled(s) ==
  S!Prefixes(s) \cup {S!RemoveAt(s, i) : i \in DOMAIN s}
    \cup {[s EXCEPT ![i] = s[i + 1], ![i + 1] = s[i]] : i \in 1..(Len(s) - 1)}
    \cup (IF s = <<>> THEN {} ELSE {Append(s, S!Last(s))})

\* An event with another content, or put in once more under this or another id.
Edited(events) ==
  UNION {{[events EXCEPT ![i].content = c], S!InsertAt(events, i + 1, [events[i] EXCEPT !.id = e])}
           : i \in DOMAIN events, c \in Contents, e \in EventIds}

\* The lines of a history that never was, every hash as it should be.
Chained(events) == [i \in 1..Len(events) |-> LegacyEntry(events, i)]
EventsOf(lines) == [i \in 1..Len(lines) |-> lines[i].event]
Rewritten(lines) ==
  IF Damaged \in S!Range(lines) THEN {}
  ELSE {Chained(events) : events \in Shuffled(EventsOf(lines)) \cup Edited(EventsOf(lines))}

\* What a line may be made to say: nothing that decodes, another content under
\* the old hash, or under a new hash of its own.
Garbled(line) ==
  IF line = Damaged THEN {}
  ELSE {Damaged} \cup UNION
    {{[line EXCEPT !.event.content = c], [line EXCEPT !.event.content = c,
                                         !.hash = Append(line.prev, [line.event EXCEPT !.content = c])]}
       : c \in Contents \ {line.event.content}}

SampleLogs(lines) ==
  Shuffled(lines) \cup Rewritten(lines)
    \cup UNION {{S!ReplaceAt(lines, i, x) : x \in Garbled(lines[i])} : i \in DOMAIN lines}

\* The copies of a log, and the log the archive holds copies of.
Copies(lines) == {EventFile(lines[i]) : i \in DOMAIN lines}
Lines(files) == [i \in 1..Cardinality(files) |-> (CHOOSE f \in files : f.seq = i - 1).data]
InOrder(files) == {f.seq : f \in files} = 0..(Cardinality(files) - 1)

SampleArchives(files) ==
  {files \ {f} : f \in files}
    \cup UNION {{(files \ {f}) \cup {[f EXCEPT !.data = x]} : x \in Garbled(f.data)} : f \in files}
    \cup (IF InOrder(files) THEN {Copies(lines) : lines \in Rewritten(Lines(files))} ELSE {})

\* A checkpoint that is altered fails its signature.
SampleCheckpointLogs(lines) ==
  Shuffled(lines) \cup {S!ReplaceAt(lines, i, Damaged) : i \in DOMAIN lines}

SampleCheckpointArchives(files) ==
  {{}} \cup {files \ {f} : f \in files}
    \cup {(files \ {f}) \cup {[f EXCEPT !.data = Damaged]} : f \in files}
    \cup {files \cup {[f EXCEPT !.seq = Cardinality(files)]} : f \in files}

NoOther(x) == {}

Symmetry == Permutations(EventIds) \cup Permutations(Contents)

=============================================================================
