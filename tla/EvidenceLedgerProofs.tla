------------------------- MODULE EvidenceLedgerProofs -------------------------
(***************************************************************************)
(* Proofs about EvidenceLedger, for every set of events, interval, legacy  *)
(* log and amount of damage.                                               *)
(*   Part 1: type correctness; receipts; the writer keeps its promise.     *)
(*   Part 2: nothing is taken back; memory mirrors the disk; no false      *)
(*           alarm.                                                        *)
(*   Part 3: verified evidence is complete, up to two damages.             *)
(***************************************************************************)
EXTENDS EvidenceLedger, SequenceTheorems, SetLemmas, TLAPS

-----------------------------------------------------------------------------
(* The records an operation builds have their types.                         *)

LEMMA NewEntryType ==
  ASSUME seq \in Nat, lastHash \in Hash, NEW event \in Event
  PROVE  NewEntry(event) \in Entry
BY DEF NewEntry, Entry, Hash

LEMMA DigestType ==
  ASSUME NEW cp \in Checkpoint
  PROVE  DigestOfCheckpoint(cp) \in CpDigest
BY DEF DigestOfCheckpoint, Checkpoint, CpDigest

LEMMA LastDigestType ==
  ASSUME cps \in Seq(Checkpoint)
  PROVE  (IF cps = <<>> THEN <<>> ELSE DigestOfCheckpoint(cps[Len(cps)])) \in CpDigest
<1>1. CASE cps = <<>>
  BY <1>1 DEF CpDigest
<1>2. CASE cps # <<>>
  <2>1. Len(cps) \in 1..Len(cps)
    BY <1>2
  <2>2. cps[Len(cps)] \in Checkpoint
    BY <2>1
  <2> QED  BY <1>2, <2>2, DigestType
<1> QED  BY <1>1, <1>2

LEMMA LeavesType ==
  ASSUME pending \in Seq(Entry)
  PROVE  [i \in 1..Len(pending) |-> pending[i].hash] \in Seq(Hash)
<1>1. \A i \in 1..Len(pending) : pending[i].hash \in Hash
  <2>1. \A i \in 1..Len(pending) : pending[i] \in Entry
    OBVIOUS
  <2> QED  BY <2>1 DEF Entry
<1>2. Len(pending) \in Nat
  OBVIOUS
<1> QED  BY <1>1, <1>2, IsASeq

LEMMA NewCheckpointType ==
  ASSUME pending \in Seq(Entry), pending # <<>>, cps \in Seq(Checkpoint)
  PROVE  NewCheckpoint \in Checkpoint
<1>1. 1 \in 1..Len(pending) /\ Len(pending) \in 1..Len(pending)
  OBVIOUS
<1>2. pending[1] \in Entry /\ pending[Len(pending)] \in Entry
  BY <1>1
<1>3. pending[1].seq \in Nat /\ pending[Len(pending)].seq \in Int
  BY <1>2 DEF Entry
<1> QED  BY <1>3, LeavesType, LastDigestType DEF NewCheckpoint, Checkpoint

LEMMA NewHeadType ==
  ASSUME seq \in Nat, lastHash \in Hash, pending \in Seq(Entry), cps \in Seq(Checkpoint)
  PROVE  NewHead \in SignedHead
BY LeavesType, LastDigestType DEF NewHead, SignedTotal, SignedHead

LEMMA EventFileType ==
  ASSUME NEW entry \in Entry
  PROVE  EventFile(entry) \in EventFiles
BY DEF EventFile, EventFiles, Entry

LEMMA CheckpointFileType ==
  ASSUME NEW cp \in Checkpoint
  PROVE  CheckpointFile(cp) \in CheckpointFiles
BY DEF CheckpointFile, CheckpointFiles, Checkpoint

-----------------------------------------------------------------------------
(* Type correctness.  TypeOK is inductive together with what the place in    *)
(* the lock says of the entry, the batch and the log in hand.                *)

InHand ==
  /\ pc \in {"cpStore", "cpAppend"} => pending # <<>>
  /\ pc \in {"store", "append", "ack"} => cur \in Entry
  /\ pc = "import" => LinesDecode

TypeInv == TypeOK /\ InHand

\* The types of what is on disk.
DiskOK ==
  /\ log \in Seq(Entry \cup {Damaged})
  /\ arc \subseteq EventFiles
  /\ cpLog \in Seq(Checkpoint \cup {Damaged})
  /\ cpArc \subseteq CheckpointFiles
  /\ head \in SignedHead \cup {Absent, Damaged}
  /\ heads \subseteq SignedHead
  /\ marker \in BOOLEAN
  /\ keyFile \in Nat /\ pubFile \in Nat

LEMMA DamagedFileType ==
  /\ \A f \in EventFiles : [f EXCEPT !.data = Damaged] \in EventFiles
  /\ \A f \in CheckpointFiles : [f EXCEPT !.data = Damaged] \in CheckpointFiles
BY DEF EventFiles, CheckpointFiles

LEMMA PartialFileType ==
  ASSUME NEW D, NEW files \in SUBSET [seq : Nat, data : D \cup {Damaged}],
         NEW f \in [seq : Nat, data : D \cup {Damaged}],
         NEW files2 \in PartialFile(files, f)
  PROVE  files2 \subseteq [seq : Nat, data : D \cup {Damaged}]
BY DEF PartialFile

LEMMA PartialLineType ==
  ASSUME NEW D, NEW lines \in Seq(D \cup {Damaged}), NEW line \in D,
         NEW lines2 \in PartialLine(lines, line)
  PROVE  lines2 \in Seq(D \cup {Damaged})
BY DEF PartialLine

\* A write that does not finish leaves well-typed files.
LEMMA PartialWriteType ==
  ASSUME TypeInv, PartialWrite
  PROVE  DiskOK'
<1> USE DEF TypeInv, TypeOK, InHand, DiskOK, eventStore, checkpointStore, anchor, keys
<1>1. CASE /\ pc \in {"idle", "replay", "ack"}
           /\ UNCHANGED <<eventStore, checkpointStore, anchor, keys>>
  BY <1>1
<1>2. CASE /\ pc = "key"
           /\ keyFile' \in {keyFile, pubFile + 1}
           /\ UNCHANGED <<eventStore, checkpointStore, anchor, pubFile>>
  BY <1>2
<1>3. CASE /\ pc = "pub"
           /\ pubFile' \in IF pubFile = 0 /\ ~marker THEN {pubFile, keyFile} ELSE {pubFile}
           /\ UNCHANGED <<eventStore, checkpointStore, anchor, keyFile>>
  BY <1>3
<1>4. CASE /\ pc = "import"
           /\ \/ \E i \in Unstored : /\ IsFirst(i, Unstored)
                                     /\ arc' \in PartialFile(arc, EventFile(log[i]))
              \/ Unstored = {} /\ UNCHANGED arc
           /\ UNCHANGED <<log, checkpointStore, anchor, keys>>
  <2>1. arc' \subseteq EventFiles
    <3>1. CASE UNCHANGED arc
      BY <3>1
    <3>2. CASE \E i \in Unstored : arc' \in PartialFile(arc, EventFile(log[i]))
      <4>1. PICK i \in 1..Len(log) : arc' \in PartialFile(arc, EventFile(log[i]))
        BY <3>2 DEF Unstored
      <4>2. log[i] \in Entry
        BY <1>4 DEF LinesDecode
      <4>3. EventFile(log[i]) \in EventFiles
        BY <4>2, EventFileType
      <4> QED  BY <4>1, <4>3, PartialFileType DEF EventFiles
    <3> QED  BY <1>4, <3>1, <3>2
  <2> QED  BY <1>4, <2>1
<1>5. CASE /\ pc = "importCp"
           /\ \/ \E k \in UnstoredCheckpoints :
                   /\ IsFirst(k, UnstoredCheckpoints)
                   /\ cpArc' \in PartialFile(cpArc, CheckpointFile(cps[k]))
              \/ UnstoredCheckpoints = {} /\ UNCHANGED cpArc
           /\ UNCHANGED <<eventStore, cpLog, anchor, keys>>
  <2>1. cpArc' \subseteq CheckpointFiles
    <3>1. CASE UNCHANGED cpArc
      BY <3>1
    <3>2. CASE \E k \in UnstoredCheckpoints : cpArc' \in PartialFile(cpArc, CheckpointFile(cps[k]))
      <4>1. PICK k \in 1..Len(cps) : cpArc' \in PartialFile(cpArc, CheckpointFile(cps[k]))
        BY <3>2 DEF UnstoredCheckpoints
      <4>2. cps[k] \in Checkpoint
        OBVIOUS
      <4>3. CheckpointFile(cps[k]) \in CheckpointFiles
        BY <4>2, CheckpointFileType
      <4> QED  BY <4>1, <4>3, PartialFileType DEF CheckpointFiles
    <3> QED  BY <1>5, <3>1, <3>2
  <2> QED  BY <1>5, <2>1
<1>6. CASE /\ pc = "store"
           /\ arc' \in IF FilesAt(cur.seq) = {} THEN PartialFile(arc, EventFile(cur)) ELSE {arc}
           /\ UNCHANGED <<log, checkpointStore, anchor, keys>>
  <2>1. EventFile(cur) \in EventFiles
    BY <1>6, EventFileType
  <2>2. arc' \subseteq EventFiles
    BY <1>6, <2>1, PartialFileType DEF EventFiles
  <2> QED  BY <1>6, <2>2
<1>7. CASE /\ pc = "append"
           /\ log' \in PartialLine(log, cur)
           /\ UNCHANGED <<arc, checkpointStore, anchor, keys>>
  <2>1. log' \in Seq(Entry \cup {Damaged})
    BY <1>7, PartialLineType
  <2> QED  BY <1>7, <2>1
<1>8. CASE /\ pc = "cpStore"
           /\ cpArc' \in IF CheckpointFilesAt(Len(cps)) = {}
                         THEN PartialFile(cpArc, CheckpointFile(NewCheckpoint)) ELSE {cpArc}
           /\ UNCHANGED <<eventStore, cpLog, anchor, keys>>
  <2>1. CheckpointFile(NewCheckpoint) \in CheckpointFiles
    BY <1>8, NewCheckpointType, CheckpointFileType
  <2>2. cpArc' \subseteq CheckpointFiles
    BY <1>8, <2>1, PartialFileType DEF CheckpointFiles
  <2> QED  BY <1>8, <2>2
<1>9. CASE /\ pc = "cpAppend"
           /\ cpLog' \in PartialLine(cpLog, NewCheckpoint)
           /\ UNCHANGED <<eventStore, cpArc, anchor, keys>>
  <2>1. cpLog' \in Seq(Checkpoint \cup {Damaged})
    BY <1>9, NewCheckpointType, PartialLineType
  <2> QED  BY <1>9, <2>1
<1>10. CASE /\ pc \in {"head", "initHead"}
            /\ \/ UNCHANGED <<head, heads>>
               \/ /\ knownHead # Absent => head = knownHead
                  /\ SignHead
            /\ UNCHANGED <<eventStore, checkpointStore, marker, keys>>
  BY <1>10, NewHeadType DEF SignHead
<1>11. CASE /\ pc = "marker"
            /\ marker' \in {marker, TRUE}
            /\ UNCHANGED <<eventStore, checkpointStore, head, heads, keys>>
  BY <1>11
<1> QED  BY <1>1, <1>2, <1>3, <1>4, <1>5, <1>6, <1>7, <1>8, <1>9, <1>10, <1>11 DEF PartialWrite

LEMMA LegacyEntryType ==
  ASSUME NEW legacy \in Installations, NEW i \in 1..Len(legacy.events)
  PROVE  LegacyEntry(legacy.events, i) \in Entry
<1> DEFINE events == legacy.events
<1>1. events \in Seq(Event) /\ events[i] \in Event
  BY LegacyAssumption
<1>2. SubSeq(events, 1, i - 1) \in Seq(Event) /\ SubSeq(events, 1, i) \in Seq(Event)
  BY <1>1, SubSeqProperties
<1> QED  BY <1>1, <1>2 DEF LegacyEntry, Entry, Hash

LEMMA TypeInit == Init => TypeInv
<1> SUFFICES ASSUME NEW legacy \in Installations, Found(legacy) PROVE TypeInv
  BY DEF Init
<1> DEFINE events == legacy.events
<1> USE BoundsAssumption, LegacyAssumption
<1>1. \A i \in 1..Len(events) : LegacyEntry(events, i) \in Entry
  BY LegacyEntryType
<1>2. legacy.sealed # 0 => LegacyCheckpoint(legacy) \in Checkpoint
  <2>1. \A i \in 1..legacy.sealed : SubSeq(events, 1, i) \in Hash
    BY SubSeqProperties DEF Hash
  <2>2. legacy.sealed \in Nat
    OBVIOUS
  <2>3. ASSUME NEW k \in Nat, \A i \in 1..k : SubSeq(events, 1, i) \in Hash
        PROVE  [i \in 1..k |-> SubSeq(events, 1, i)] \in Seq(Hash)
    BY <2>3, IsASeq
  <2>4. [i \in 1..legacy.sealed |-> SubSeq(events, 1, i)] \in Seq(Hash)
    BY <2>1, <2>2, <2>3
  <2> QED  BY <2>4 DEF LegacyCheckpoint, Checkpoint, CpDigest
<1>3. log \in Seq(Entry \cup {Damaged})
  BY <1>1, IsASeq DEF Found
<1>4. arc \subseteq EventFiles
  BY <1>1, EventFileType DEF Found
<1>5. cpLog \in Seq(Checkpoint \cup {Damaged}) /\ cpArc \subseteq CheckpointFiles
  <2>1. CASE legacy.sealed = 0
    BY <2>1 DEF Found
  <2>2. CASE legacy.sealed # 0
    <3>1. LegacyCheckpoint(legacy) \in Checkpoint
      BY <1>2, <2>2
    <3>2. CheckpointFile(LegacyCheckpoint(legacy)) \in CheckpointFiles
      BY <3>1, CheckpointFileType
    <3>3. cpLog = <<LegacyCheckpoint(legacy)>> /\ cpArc \subseteq {CheckpointFile(LegacyCheckpoint(legacy))}
      BY <2>2 DEF Found
    <3> QED  BY <3>1, <3>2, <3>3
  <2> QED  BY <2>1, <2>2
<1>6. lastHash \in Hash /\ pending \in Seq(Entry) /\ cps \in Seq(Checkpoint)
  BY DEF Found, Hash
<1>7. /\ marker \in BOOLEAN /\ expectsAnchor \in BOOLEAN /\ error \in BOOLEAN
      /\ startupError \in BOOLEAN /\ interrupted \in BOOLEAN
  BY Zenon DEF Found
<1>8. /\ head \in SignedHead \cup {Absent, Damaged} /\ heads \subseteq SignedHead
      /\ keyFile \in Nat /\ pubFile \in Nat /\ seq \in Nat /\ pc = "down" /\ cur = Absent
      /\ ids = {} /\ knownHead = Absent /\ acked = {} /\ damage \in 0..MaxDamage
  BY DEF Found
<1> QED  BY <1>3, <1>4, <1>5, <1>6, <1>7, <1>8 DEF TypeInv, TypeOK, InHand

LEMMA ReplayType ==
  ASSUME TypeInv, Replay
  PROVE  TypeInv'
<1> USE DEF TypeInv, TypeOK, InHand, eventStore, checkpointStore, anchor, keys, memory, history
<1>1. CASE ~VerifyOK
  BY <1>1 DEF Replay, WhenUnverified
<1>2. CASE VerifyOK
  <2>1. LinesDecode /\ \A k \in 1..Len(cpLog) : cpLog[k] # Damaged
    BY <1>2 DEF VerifyOK, CheckpointsOK
  <2>2. \A i \in 1..Len(log) : log[i] \in Entry
    BY <2>1 DEF LinesDecode
  <2>3. log \in Seq(Entry)
    BY <2>2, IsASeq
  <2>4. cpLog \in Seq(Checkpoint)
    BY <2>1, IsASeq
  <2>5. lastHash' \in Hash
    <3>1. CASE log = <<>>
      BY <3>1, <1>2 DEF Replay, WhenUnverified, Hash
    <3>2. CASE log # <<>>
      <4>1. log[Len(log)] \in Entry
        BY <3>2, <2>2
      <4>2. log[Len(log)].hash \in Hash
        BY <4>1 DEF Entry
      <4> QED  BY <3>2, <4>2, <1>2 DEF Replay, WhenUnverified
    <3> QED  BY <3>1, <3>2
  <2>6. pending' \in Seq(Entry)
    <3>1. Covered \in Int /\ Covered + 1 >= 1
      <4>1. CASE cpLog = <<>>
        BY <4>1 DEF Covered
      <4>2. CASE cpLog # <<>>
        <5> DEFINE last == cpLog[Len(cpLog)]
        <5>1. last \in Checkpoint
          BY <2>4, <4>2
        <5>2. CheckpointOK(Len(cpLog))
          BY <1>2, <4>2 DEF VerifyOK, CheckpointsOK
        <5>3. last.end = last.start + Len(last.leaves) - 1
          BY <5>2 DEF CheckpointOK
        <5>4. last.start \in Nat /\ Len(last.leaves) \in Nat
          BY <5>1 DEF Checkpoint
        <5>5. Covered = last.end + 1
          BY <4>2 DEF Covered
        <5> HIDE DEF last
        <5>6. last.end \in Int /\ last.end + 1 >= 0
          BY <5>3, <5>4
        <5> QED  BY <5>5, <5>6
      <4> QED  BY <4>1, <4>2
    <3>2. SubSeq(log, Covered + 1, Len(log)) \in Seq(Entry)
      BY <3>1, <2>3, SubSeqProperties
    <3> QED  BY <3>2, <1>2 DEF Replay, WhenUnverified, Unsealed
  <2>7. ids' \subseteq [id : EventIds, seq : Nat]
    <3>1. \A i \in 1..Len(log) :
            [id |-> log[i].event.id, seq |-> log[i].seq] \in [id : EventIds, seq : Nat]
      BY <2>2 DEF Entry, Event
    <3>2. ids' = {[id |-> log[i].event.id, seq |-> log[i].seq] : i \in 1..Len(log)}
      BY <1>2 DEF Replay, WhenUnverified, IdsOfLog
    <3> HIDE DEF TypeInv, TypeOK, InHand
    <3> QED  BY <3>1, <3>2
  <2>8. knownHead' \in SignedHead \cup {Absent}
    BY <1>2 DEF Replay, WhenUnverified, VerifyOK, BaselineOK
  <2>9. UNCHANGED <<log, arc, cpLog, cpArc, head, heads, marker, keyFile, pubFile, cur,
                    expectsAnchor, error, startupError, acked, damage, interrupted>>
        /\ seq' = Len(log) /\ cps' = cpLog /\ pc' \in {"idle", "import"}
    BY <1>2 DEF Replay, WhenUnverified
  <2>10. LinesDecode'
    BY <2>1, <2>9 DEF LinesDecode
  <2>11. seq' \in Nat /\ cps' \in Seq(Checkpoint) /\ InHand'
    BY <2>4, <2>9, <2>10
  <2>12. /\ marker' \in BOOLEAN /\ expectsAnchor' \in BOOLEAN /\ error' \in BOOLEAN
         /\ startupError' \in BOOLEAN /\ interrupted' \in BOOLEAN
    BY <2>9
  <2>13. /\ log' \in Seq(Entry \cup {Damaged}) /\ cpLog' \in Seq(Checkpoint \cup {Damaged})
         /\ arc' \subseteq EventFiles /\ cpArc' \subseteq CheckpointFiles
         /\ head' \in SignedHead \cup {Absent, Damaged}
         /\ heads' \subseteq SignedHead
         /\ keyFile' \in Nat /\ pubFile' \in Nat
    BY <2>9
  <2>14. /\ pc' \in {"down", "idle"} \cup StartupPcs \cup OperationPcs
         /\ cur' \in Entry \cup {Absent} /\ acked' \subseteq Entry /\ damage' \in 0..MaxDamage
    BY <2>9 DEF StartupPcs
  <2> HIDE DEF InHand
  <2> QED  BY <2>5, <2>6, <2>7, <2>8, <2>11, <2>12, <2>13, <2>14
<1> QED  BY <1>1, <1>2

LEMMA StartupType ==
  ASSUME TypeInv, Startup
  PROVE  TypeInv'
<1> USE DEF TypeInv, TypeOK, InHand, StartupPcs, eventStore, checkpointStore, anchor, keys,
            memory, flags, history
<1>1. CASE Start
  <2>1. expectsAnchor' \in BOOLEAN
    BY <1>1, Zenon DEF Start, AnchorExpected
  <2>2. error' \in BOOLEAN /\ startupError' \in BOOLEAN /\ pc' \in {"pub", "key", "replay"}
    BY <1>1 DEF Start
  <2> QED  BY <1>1, <2>1, <2>2 DEF Start
<1>2. CASE WriteKey
  BY <1>2 DEF WriteKey
<1>3. CASE LoadPublicKey
  <2>1. error' \in BOOLEAN /\ startupError' \in BOOLEAN
    BY <1>3, Zenon DEF LoadPublicKey
  <2>2. pubFile' \in Nat
    BY <1>3 DEF LoadPublicKey
  <2> QED  BY <1>3, <2>1, <2>2 DEF LoadPublicKey
<1>4. CASE Replay
  BY <1>4, ReplayType
<1>5. CASE ImportEntry
  <2>1. PICK i \in 1..Len(log) : arc' = arc \cup {EventFile(log[i])}
    BY <1>5 DEF ImportEntry, Unstored
  <2>2. log[i] \in Entry
    BY <1>5 DEF ImportEntry, LinesDecode
  <2>3. arc' \subseteq EventFiles
    BY <2>1, <2>2, EventFileType
  <2>4. LinesDecode'
    BY <1>5 DEF ImportEntry, LinesDecode
  <2> QED  BY <1>5, <2>3, <2>4 DEF ImportEntry
<1>6. CASE ImportEntriesDone
  BY <1>6 DEF ImportEntriesDone
<1>7. CASE ImportCheckpoint
  <2>1. PICK k \in 1..Len(cps) : cpArc' = cpArc \cup {CheckpointFile(cps[k])}
    BY <1>7 DEF ImportCheckpoint, UnstoredCheckpoints
  <2>2. cpArc' \subseteq CheckpointFiles
    BY <2>1, CheckpointFileType
  <2> QED  BY <1>7, <2>2 DEF ImportCheckpoint
<1>8. CASE ImportCheckpointsDone
  BY <1>8 DEF ImportCheckpointsDone
<1>9. CASE WriteFirstHead
  BY <1>9, NewHeadType DEF WriteFirstHead, SignHead
<1>10. CASE WriteMarker
  BY <1>10 DEF WriteMarker
<1> QED  BY <1>1, <1>2, <1>3, <1>4, <1>5, <1>6, <1>7, <1>8, <1>9, <1>10 DEF Startup

LEMMA ProgressType ==
  ASSUME TypeInv, Progress
  PROVE  TypeInv'
<1> USE DEF TypeInv, TypeOK, InHand, OperationPcs, eventStore, checkpointStore, anchor, keys,
            memory, flags, history
<1>1. ASSUME NEW condition, Refuse(condition)
      PROVE  TypeInv'
  BY <1>1 DEF Refuse
<1>2. CASE StoreEvent
  <2>1. CASE arc' = arc \cup {EventFile(cur)} /\ pc' = "append"
             /\ UNCHANGED <<log, checkpointStore, anchor, keys, cur, memory, flags, history>>
    <3>1. EventFile(cur) \in EventFiles
      BY <1>2, EventFileType DEF StoreEvent
    <3> QED  BY <1>2, <2>1, <3>1 DEF StoreEvent
  <2> QED  BY <1>1, <1>2, <2>1 DEF StoreEvent
<1>3. CASE AppendEvent
  <2>1. cur \in Entry
    BY <1>3 DEF AppendEvent
  <2>2. log' \in Seq(Entry \cup {Damaged}) /\ pending' \in Seq(Entry)
    BY <1>3, <2>1 DEF AppendEvent
  <2>5. pending' # <<>>
    BY <1>3, <2>1, AppendProperties DEF AppendEvent
  <2>3. ids' \subseteq [id : EventIds, seq : Nat] /\ lastHash' \in Hash /\ seq' \in Nat
    BY <1>3, <2>1 DEF AppendEvent, Entry, Event
  <2>4. pc' \in {"cpStore", "head"}
    BY <1>3 DEF AppendEvent, AfterAppend
  <2> QED  BY <1>3, <2>1, <2>2, <2>3, <2>4, <2>5 DEF AppendEvent
<1>4. CASE StoreCheckpoint
  <2>1. CASE cpArc' = cpArc \cup {CheckpointFile(NewCheckpoint)} /\ pc' = "cpAppend"
             /\ UNCHANGED <<eventStore, cpLog, anchor, keys, cur, memory, flags, history>>
    <3>1. CheckpointFile(NewCheckpoint) \in CheckpointFiles
      BY <1>4, NewCheckpointType, CheckpointFileType DEF StoreCheckpoint
    <3> QED  BY <1>4, <2>1, <3>1 DEF StoreCheckpoint
  <2> QED  BY <1>1, <1>4, <2>1 DEF StoreCheckpoint
<1>5. CASE AppendCheckpoint
  <2>1. NewCheckpoint \in Checkpoint
    BY <1>5, NewCheckpointType DEF AppendCheckpoint
  <2>2. cpLog' \in Seq(Checkpoint \cup {Damaged}) /\ cps' \in Seq(Checkpoint)
    BY <1>5, <2>1 DEF AppendCheckpoint
  <2> QED  BY <1>5, <2>2 DEF AppendCheckpoint, NextBatch
<1>6. CASE WriteHead
  <2>1. CASE SignHead /\ knownHead' = NewHead
             /\ pc' = (IF cur = Absent THEN "idle" ELSE "ack")
             /\ UNCHANGED <<eventStore, checkpointStore, marker, keys, cur, seq, lastHash,
                            pending, cps, ids, flags, history>>
    BY <2>1, NewHeadType DEF SignHead
  <2> QED  BY <1>1, <1>6, <2>1 DEF WriteHead
<1>7. CASE Reply
  BY <1>7 DEF Reply
<1> QED  BY <1>2, <1>3, <1>4, <1>5, <1>6, <1>7 DEF Progress

LEMMA RecordType ==
  ASSUME TypeInv, NEW event \in Event, RecordNew(event) \/ RecordAgain(event)
  PROVE  TypeInv'
<1> USE DEF TypeInv, TypeOK, InHand, OperationPcs, eventStore, checkpointStore, anchor, keys,
            memory, flags, history
<1>1. CASE RecordNew(event)
  BY <1>1, NewEntryType DEF RecordNew
<1>2. CASE RecordAgain(event)
  <2>1. acked' \subseteq Entry
    BY <1>2 DEF RecordAgain, FilesAt, EventFiles
  <2>2. error' \in BOOLEAN
    BY <1>2 DEF RecordAgain
  <2>3. pc = "idle"
    BY <1>2 DEF RecordAgain, MayRecord
  <2> QED  BY <1>2, <2>1, <2>2, <2>3 DEF RecordAgain
<1> QED  BY <1>1, <1>2

LEMMA DamageType ==
  ASSUME TypeInv, Damage
  PROVE  TypeInv'
<1>0. ASSUME DiskOK' PROVE TypeInv'
  <2>1. damage' \in 0..MaxDamage
    BY BoundsAssumption DEF Damage, TypeInv, TypeOK
  <2>2. InHand'
    BY DEF Damage, InHand
  <2>3. UNCHANGED <<pc, cur, seq, lastHash, pending, cps, ids, knownHead, expectsAnchor, error,
                    startupError, acked, interrupted>>
    BY DEF Damage, memory, flags
  <2>4. TypeOK'
    BY <1>0, <2>1, <2>3 DEF DiskOK, TypeInv, TypeOK
  <2> QED  BY <2>2, <2>4 DEF TypeInv
<1> USE DEF eventStore, checkpointStore, anchor, keys
<1>1. CASE DamageLog
  BY <1>0, <1>1 DEF DamageLog, DiskOK, TypeInv, TypeOK
<1>2. CASE DamageArchive
  BY <1>0, <1>2 DEF DamageArchive, DiskOK, TypeInv, TypeOK
<1>3. CASE DamageCheckpoints
  <2>1. cpLog' \in Seq(Checkpoint \cup {Damaged}) /\ cpArc' \subseteq CheckpointFiles
    BY <1>3 DEF DamageCheckpoints, TypeInv, TypeOK
  <2>2. DiskOK'
    BY <1>3, <2>1 DEF DamageCheckpoints, DiskOK, TypeInv, TypeOK
  <2> QED  BY <1>0, <2>2
<1>4. CASE DamageAnchor
  <2>1. /\ head' \in SignedHead \cup {Absent, Damaged} /\ heads' \subseteq SignedHead
        /\ keyFile' \in Nat /\ pubFile' \in Nat
    BY <1>4 DEF DamageAnchor, TypeInv, TypeOK
  <2>2. marker' \in BOOLEAN
    BY <1>4, Zenon DEF DamageAnchor, TypeInv, TypeOK
  <2>3. UNCHANGED <<log, arc, cpLog, cpArc>>
    BY <1>4 DEF DamageAnchor, Damage
  <2>4. DiskOK'
    BY <2>1, <2>2, <2>3 DEF DiskOK, TypeInv, TypeOK
  <2> QED  BY <1>0, <2>4
<1> QED  BY <1>1, <1>2, <1>3, <1>4 DEF Damage

LEMMA InterruptionType ==
  ASSUME TypeInv, WriteFails \/ Crash
  PROVE  TypeInv'
<1>1. DiskOK'
  BY PartialWriteType DEF WriteFails, Crash
<1>2. CASE WriteFails
  <2>1. startupError' \in BOOLEAN /\ error' \in BOOLEAN
    BY <1>2, Zenon DEF WriteFails
  <2>2. pc' \in {"replay", "idle"} /\ cur' = Absent /\ interrupted' \in BOOLEAN
    BY <1>2 DEF WriteFails
  <2> QED  BY <1>1, <1>2, <2>1, <2>2 DEF WriteFails, DiskOK, TypeInv, TypeOK, InHand, memory, StartupPcs
<1>3. CASE Crash
  <2>1. interrupted' \in BOOLEAN
    BY <1>3, Zenon DEF Crash
  <2>2. expectsAnchor' \in BOOLEAN /\ error' \in BOOLEAN /\ startupError' \in BOOLEAN
    BY <1>3, Zenon DEF Crash
  <2> QED  BY <1>1, <1>3, <2>1, <2>2 DEF Crash, DiskOK, TypeInv, TypeOK, InHand, Hash
<1> QED  BY <1>2, <1>3

LEMMA TypeStep == TypeInv /\ [Next]_vars => TypeInv'
<1> SUFFICES ASSUME TypeInv, [Next]_vars PROVE TypeInv'
  OBVIOUS
<1>1. CASE Seal
  BY <1>1 DEF Seal, TypeInv, TypeOK, InHand, OperationPcs, eventStore, checkpointStore, anchor,
              keys, memory, flags, history
<1>2. CASE Verify
  BY <1>2 DEF Verify, TypeInv, TypeOK, InHand, eventStore, checkpointStore, anchor, keys,
              memory, history
<1>3. CASE UNCHANGED vars
  BY <1>3 DEF vars, TypeInv, TypeOK, InHand, LinesDecode
<1> QED  BY <1>1, <1>2, <1>3, StartupType, ProgressType, RecordType, DamageType,
            InterruptionType DEF Next

\* Every reachable state is well typed, whatever is damaged.
THEOREM TypeCorrect == Spec => []TypeOK
<1>1. TypeInv => TypeOK
  BY DEF TypeInv
<1> QED  BY <1>1, TypeInit, TypeStep, PTL DEF Spec

-----------------------------------------------------------------------------
(* Receipts.  The invariant that carries their durability: as long as no     *)
(* file is damaged from outside, every line that decodes is at its place and *)
(* has an identifier of its own, an archived file of its number holds that   *)
(* very line (or is torn), receipts are lines the head counts, and the       *)
(* memory of a process that is collecting mirrors the log.                   *)

Places ==
  /\ pc \notin {"idle", "replay"} => ~error
  /\ pc = "replay" /\ error => startupError
  /\ pc \notin OperationPcs => cur = Absent

LogSound ==
  /\ \A i \in 1..Len(log) : log[i] # Damaged => log[i].seq = i - 1
  /\ \A i, j \in 1..Len(log) :
       log[i] # Damaged /\ log[j] # Damaged /\ log[i].event.id = log[j].event.id => i = j

ArchiveSound ==
  \A f \in arc :
    (f.seq < Len(log) /\ log[f.seq + 1] # Damaged) => f.data \in {Damaged, log[f.seq + 1]}

IsRecorded(r) == r.seq < Len(log) /\ log[r.seq + 1] = r /\ EventFile(r) \in arc
IsSigned(r) == head \in SignedHead /\ r.seq < head.total

MemorySound ==
  (pc \notin {"down", "key", "pub", "replay"} /\ ~error) =>
    /\ LinesDecode
    /\ seq = Len(log)
    /\ ids = IdsOfLog
    /\ pc \in {"idle", "marker"} \cup OperationPcs => knownHead \in SignedHead

EntrySound ==
  /\ pc \in {"store", "append"} =>
       /\ cur.seq = Len(log)
       /\ \A i \in 1..Len(log) : log[i].event.id # cur.event.id
  /\ pc = "append" => EventFile(cur) \in arc /\ \A f \in arc : f.seq = cur.seq => f = EventFile(cur)
  /\ pc \in {"cpStore", "cpAppend", "head", "ack"} /\ cur # Absent => IsRecorded(cur)
  /\ pc = "ack" => IsSigned(cur)

ReceiptsSound == \A r \in acked : IsRecorded(r) /\ IsSigned(r)

EvidenceSound ==
  /\ LogSound /\ ArchiveSound /\ ReceiptsSound
  /\ MemorySound
  /\ EntrySound

EvidenceInv == TypeInv /\ Places /\ (damage = 0 => EvidenceSound)

LEMMA PlacesStep == TypeInv /\ Places /\ [Next]_vars => Places'
<1> SUFFICES ASSUME TypeInv, Places, [Next]_vars PROVE Places'
  OBVIOUS
<1> USE DEF Places, OperationPcs, StartupPcs
<1>1. CASE Startup
  <2>1. CASE Start
    BY <2>1 DEF Start, Startup
  <2>2. CASE LoadPublicKey
    BY <2>2 DEF LoadPublicKey
  <2>3. CASE Replay
    <3>1. VerifyOK => ~startupError
      BY DEF VerifyOK
    <3> QED  BY <2>3, <3>1 DEF Replay, WhenUnverified, flags
  <2>4. CASE WriteMarker
    BY <2>4 DEF WriteMarker
  <2> QED  BY <1>1, <2>1, <2>2, <2>3, <2>4 DEF Startup, WriteKey, ImportEntry, ImportEntriesDone,
              ImportCheckpoint, ImportCheckpointsDone, WriteFirstHead, flags
<1>2. CASE \E event \in Event : RecordNew(event) \/ RecordAgain(event)
  BY <1>2 DEF RecordNew, RecordAgain, MayRecord, flags
<1>3. CASE Progress
  <2>1. ASSUME NEW condition, Refuse(condition) PROVE Places'
    BY <2>1 DEF Refuse
  <2> QED  BY <1>3, <2>1 DEF Progress, StoreEvent, AppendEvent, AfterAppend, StoreCheckpoint,
              AppendCheckpoint, WriteHead, Reply, flags
<1>4. CASE Seal \/ Verify
  BY <1>4 DEF Seal, Verify, flags
<1>5. CASE WriteFails \/ Crash
  BY <1>5 DEF WriteFails, Crash
<1>6. CASE Damage
  BY <1>6 DEF Damage, flags
<1>7. CASE UNCHANGED vars
  BY <1>7 DEF vars
<1> QED  BY <1>1, <1>2, <1>3, <1>4, <1>5, <1>6, <1>7 DEF Next

-----------------------------------------------------------------------------
(* What the evidence on disk keeps when it is left alone or added to.        *)

LEMMA Untouched ==
  ASSUME LogSound, ArchiveSound, ReceiptsSound, UNCHANGED <<log, arc, head, acked>>
  PROVE  LogSound' /\ ArchiveSound' /\ ReceiptsSound'
BY DEF LogSound, ArchiveSound, ReceiptsSound, IsRecorded, IsSigned

LEMMA LineAdded ==
  ASSUME TypeInv, NEW line \in Entry \cup {Damaged}, log' = Append(log, line)
  PROVE  /\ Len(log) \in Nat /\ Len(log') = Len(log) + 1
         /\ \A i \in 1..Len(log) : log'[i] = log[i]
         /\ log'[Len(log) + 1] = line
BY DEF TypeInv, TypeOK

\* A recorded entry stays recorded while lines and files are only added.
LEMMA RecordedStays ==
  ASSUME TypeInv, NEW r \in Entry, IsRecorded(r), arc \subseteq arc',
         Len(log) \in Nat, Len(log') \in Nat, Len(log) <= Len(log'),
         \A i \in 1..Len(log) : log'[i] = log[i]
  PROVE  IsRecorded(r)'
<1>1. r.seq \in Nat /\ r.seq + 1 \in 1..Len(log)
  BY DEF IsRecorded, Entry
<1> QED  BY <1>1 DEF IsRecorded, EventFile

LEMMA SignedStays ==
  ASSUME NEW r \in Entry, IsSigned(r), UNCHANGED head
  PROVE  IsSigned(r)'
BY DEF IsSigned

\* A new head that counts the whole log signs every receipt.
LEMMA HeadRenewed ==
  ASSUME TypeInv, ReceiptsSound, seq = Len(log), head' = NewHead, UNCHANGED <<log, arc, acked>>
  PROVE  /\ ReceiptsSound'
         /\ \A r \in Entry : IsRecorded(r) => IsSigned(r)'
<1>1. NewHead \in SignedHead /\ NewHead.total = seq
  BY NewHeadType DEF TypeInv, TypeOK, NewHead, SignedTotal
<1>2. \A r \in Entry : IsRecorded(r) => IsSigned(r)'
  BY <1>1 DEF IsRecorded, IsSigned
<1>3. acked \subseteq Entry
  BY DEF TypeInv, TypeOK
<1> QED  BY <1>2, <1>3 DEF ReceiptsSound, IsRecorded

\* A file that does not contradict the log is added to the archive.
LEMMA FileAdded ==
  ASSUME TypeInv, LogSound, ArchiveSound, ReceiptsSound, UNCHANGED <<log, head, acked>>,
         NEW f \in EventFiles, arc' \in {arc, arc \cup {f}},
         (f.seq < Len(log) /\ log[f.seq + 1] # Damaged) => f.data \in {Damaged, log[f.seq + 1]}
  PROVE  LogSound' /\ ArchiveSound' /\ ReceiptsSound'
<1>1. LogSound'
  BY DEF LogSound
<1>2. ArchiveSound'
  BY DEF ArchiveSound
<1>3. ReceiptsSound'
  <2>1. arc \subseteq arc' /\ acked \subseteq Entry
    BY DEF TypeInv, TypeOK
  <2> QED  BY <2>1 DEF ReceiptsSound, IsRecorded, IsSigned
<1> QED  BY <1>1, <1>2, <1>3

\* The line of an entry that is archived and whose identifier is new, or a
\* torn line, is added to the log.
LEMMA LineAddedSound ==
  ASSUME TypeInv, LogSound, ArchiveSound, ReceiptsSound, EntrySound, pc = "append",
         NEW line \in {cur, Damaged}, log' = Append(log, line), UNCHANGED <<arc, head, acked>>
  PROVE  /\ LogSound' /\ ArchiveSound' /\ ReceiptsSound'
         /\ \A r \in Entry : r = cur /\ r = line => IsRecorded(r)'
<1> DEFINE n == Len(log) + 1
<1>1. cur \in Entry /\ line \in Entry \cup {Damaged}
  BY DEF TypeInv, InHand
<1>2. /\ Len(log) \in Nat /\ Len(log') = n /\ log'[n] = line
      /\ \A i \in 1..Len(log) : log'[i] = log[i]
  BY <1>1, LineAdded
<1>3. cur.seq = Len(log) /\ \A i \in 1..Len(log) : log[i].event.id # cur.event.id
  BY DEF EntrySound
<1>4. EventFile(cur) \in arc /\ \A f \in arc : f.seq = cur.seq => f = EventFile(cur)
  BY DEF EntrySound
<1>5. \A i \in 1..n : i \in 1..Len(log) \/ i = n
  BY <1>2
<1>6. LogSound'
  <2>1. \A i \in 1..n : log'[i] # Damaged => log'[i].seq = i - 1
    BY <1>2, <1>3, <1>5 DEF LogSound
  <2>2. ASSUME NEW i \in 1..n, NEW j \in 1..n, log'[i] # Damaged, log'[j] # Damaged,
               log'[i].event.id = log'[j].event.id
        PROVE  i = j
    BY <1>2, <1>3, <1>5, <2>2 DEF LogSound
  <2>3. 1..Len(log') = 1..n
    BY <1>2
  <2>4. \A i \in 1..Len(log') : log'[i] # Damaged => log'[i].seq = i - 1
    BY <2>1, <2>3, Zenon
  <2>5. \A i, j \in 1..Len(log') :
          log'[i] # Damaged /\ log'[j] # Damaged /\ log'[i].event.id = log'[j].event.id => i = j
    <3> SUFFICES ASSUME NEW i \in 1..Len(log'), NEW j \in 1..Len(log'),
                        log'[i] # Damaged, log'[j] # Damaged,
                        log'[i].event.id = log'[j].event.id
                 PROVE  i = j
      BY Zenon
    <3>1. i \in 1..n /\ j \in 1..n
      BY <2>3, Zenon
    <3> QED  BY <2>2, <3>1, Zenon
  <2> QED  BY <2>4, <2>5, Zenon DEF LogSound
<1>7. ArchiveSound'
  <2> SUFFICES ASSUME NEW f \in arc, f.seq < n, log'[f.seq + 1] # Damaged
               PROVE  f.data \in {Damaged, log'[f.seq + 1]}
    BY <1>2 DEF ArchiveSound
  <2>1. f.seq \in Nat
    BY DEF TypeInv, TypeOK, EventFiles
  <2>2. CASE f.seq < Len(log)
    <3>1. log'[f.seq + 1] = log[f.seq + 1]
      BY <1>2, <2>1, <2>2
    <3> QED  BY <2>2, <3>1 DEF ArchiveSound
  <2>3. CASE f.seq = Len(log)
    <3>1. f.data = cur
      BY <1>3, <1>4, <2>3 DEF EventFile
    <3> QED  BY <1>2, <2>3, <3>1
  <2> QED  BY <1>2, <2>1, <2>2, <2>3
<1>8. ReceiptsSound'
  <2> SUFFICES ASSUME NEW r \in acked PROVE IsRecorded(r)' /\ IsSigned(r)'
    BY DEF ReceiptsSound
  <2>1. r \in Entry /\ IsRecorded(r) /\ IsSigned(r)
    BY DEF TypeInv, TypeOK, ReceiptsSound
  <2> QED  BY <1>2, <2>1, RecordedStays, SignedStays
<1>9. \A r \in Entry : r = cur /\ r = line => IsRecorded(r)'
  BY <1>2, <1>3, <1>4 DEF IsRecorded, EventFile
<1> QED  BY <1>6, <1>7, <1>8, <1>9

\* A write that does not finish leaves sound evidence behind.
LEMMA PartialWriteSound ==
  ASSUME EvidenceInv, damage = 0, PartialWrite, UNCHANGED acked
  PROVE  LogSound' /\ ArchiveSound' /\ ReceiptsSound'
<1> USE DEF eventStore, checkpointStore, anchor
<1>1. TypeInv /\ Places /\ LogSound /\ ArchiveSound /\ ReceiptsSound /\ MemorySound /\ EntrySound
  BY DEF EvidenceInv, EvidenceSound
<1>2. CASE UNCHANGED <<log, arc, head>>
  BY <1>1, <1>2, Untouched
<1>3. CASE pc = "import" /\ UNCHANGED <<log, head>>
  <2>1. ASSUME NEW i \in 1..Len(log), arc' \in PartialFile(arc, EventFile(log[i]))
        PROVE  LogSound' /\ ArchiveSound' /\ ReceiptsSound'
    <3>1. log[i] \in Entry /\ log[i].seq = i - 1 /\ i - 1 \in Nat /\ Len(log) \in Nat
      BY <1>1, <1>3 DEF TypeInv, TypeOK, InHand, LinesDecode, LogSound
    <3> DEFINE f == EventFile(log[i])
               torn == [f EXCEPT !.data = Damaged]
    <3>2. f \in EventFiles /\ f.seq = i - 1 /\ f.data = log[i]
      BY <3>1, EventFileType DEF EventFile
    <3>3. torn \in EventFiles /\ torn.seq = i - 1 /\ torn.data = Damaged
      BY <3>2 DEF EventFiles
    <3>4. log[f.seq + 1] = log[i] /\ log[torn.seq + 1] = log[i]
      BY <3>1, <3>2, <3>3
    <3>5. arc' \in {arc, arc \cup {torn}} \/ arc' \in {arc, arc \cup {f}}
      BY <2>1 DEF PartialFile
    <3> HIDE DEF f, torn
    <3> QED  BY <1>1, <1>3, <3>2, <3>3, <3>4, <3>5, FileAdded
  <2>2. \/ UNCHANGED arc
        \/ \E i \in 1..Len(log) : arc' \in PartialFile(arc, EventFile(log[i]))
    BY <1>3 DEF PartialWrite, Unstored
  <2> QED  BY <1>1, <1>2, <1>3, <2>1, <2>2
<1>4. CASE pc = "store" /\ UNCHANGED <<log, head>>
  <2>1. cur \in Entry /\ cur.seq = Len(log) /\ Len(log) \in Nat
    BY <1>1, <1>4 DEF TypeInv, TypeOK, InHand, EntrySound
  <2> DEFINE f == EventFile(cur)
             torn == [f EXCEPT !.data = Damaged]
  <2>2. f \in EventFiles /\ f.seq = Len(log)
    BY <2>1, EventFileType DEF EventFile
  <2>3. torn \in EventFiles /\ torn.seq = Len(log)
    BY <2>2 DEF EventFiles
  <2>4. arc' \in {arc, arc \cup {torn}} \/ arc' \in {arc, arc \cup {f}}
    BY <1>4 DEF PartialWrite, PartialFile
  <2> HIDE DEF f, torn
  <2> QED  BY <1>1, <1>4, <2>1, <2>2, <2>3, <2>4, FileAdded
<1>5. CASE pc = "append" /\ UNCHANGED <<arc, head>>
  <2>1. log' \in PartialLine(log, cur)
    BY <1>5 DEF PartialWrite
  <2>2. \/ UNCHANGED log
        \/ \E line \in {cur, Damaged} : log' = Append(log, line)
    BY <2>1 DEF PartialLine
  <2> QED  BY <1>1, <1>2, <1>5, <2>2, LineAddedSound
<1>6. CASE pc \in {"head", "initHead"} /\ head' = NewHead /\ UNCHANGED <<log, arc>>
  <2>1. seq = Len(log)
    BY <1>1, <1>6 DEF Places, MemorySound
  <2>2. ReceiptsSound'
    BY <1>1, <1>6, <2>1, HeadRenewed
  <2> QED  BY <1>1, <1>6, <2>2 DEF LogSound, ArchiveSound
<1>7. \/ UNCHANGED <<log, arc, head>>
      \/ pc = "import" /\ UNCHANGED <<log, head>>
      \/ pc = "store" /\ UNCHANGED <<log, head>>
      \/ pc = "append" /\ UNCHANGED <<arc, head>>
      \/ pc \in {"head", "initHead"} /\ head' = NewHead /\ UNCHANGED <<log, arc>>
  BY DEF PartialWrite, SignHead
<1> QED  BY <1>2, <1>3, <1>4, <1>5, <1>6, <1>7

-----------------------------------------------------------------------------
(* The steps of the evidence writer.                                         *)

LEMMA InvUnfolds ==
  ASSUME EvidenceInv, damage = 0
  PROVE  /\ TypeInv /\ Places /\ LogSound /\ ArchiveSound /\ ReceiptsSound
         /\ MemorySound /\ EntrySound
BY DEF EvidenceInv, EvidenceSound

LEMMA SameIds ==
  ASSUME UNCHANGED log
  PROVE  IdsOfLog' = IdsOfLog /\ (LinesDecode => LinesDecode')
BY DEF IdsOfLog, LinesDecode

LEMMA ReplaySound ==
  ASSUME EvidenceInv, damage = 0, Replay
  PROVE  EvidenceSound'
<1>1. UNCHANGED <<log, arc, head, acked, startupError>> /\ pc' \in {"idle", "import"}
  BY DEF Replay, WhenUnverified, eventStore, anchor, history
<1>2. LogSound' /\ ArchiveSound' /\ ReceiptsSound' /\ EntrySound'
  BY <1>1, InvUnfolds, Untouched DEF EntrySound
<1>3. MemorySound'
  <2>1. CASE ~VerifyOK
    BY <2>1 DEF Replay, WhenUnverified, MemorySound
  <2>2. CASE VerifyOK
    <3>1. LinesDecode /\ head # Damaged /\ (Anchored => head # Absent)
      BY <2>2 DEF VerifyOK, BaselineOK
    <3>2. LinesDecode' /\ seq' = Len(log') /\ ids' = IdsOfLog'
      BY <1>1, <2>2, <3>1, SameIds DEF Replay, WhenUnverified
    <3>3. pc' = "idle" => knownHead' \in SignedHead
      <4>1. pc' = "idle" => Anchored /\ knownHead' = head
        BY <2>2 DEF Replay, WhenUnverified, Anchored
      <4> QED  BY <3>1, <4>1, InvUnfolds DEF TypeInv, TypeOK
    <3> QED  BY <1>1, <3>2, <3>3 DEF MemorySound, OperationPcs
  <2> QED  BY <2>1, <2>2
<1> QED  BY <1>2, <1>3 DEF EvidenceSound

LEMMA StartupSound ==
  ASSUME EvidenceInv, damage = 0, Startup
  PROVE  EvidenceSound'
<1> USE DEF eventStore, checkpointStore, anchor, keys, memory, flags, history
<1>1. ASSUME Start \/ WriteKey \/ LoadPublicKey
      PROVE  EvidenceSound'
  <2>1. UNCHANGED <<log, arc, head, acked>> /\ pc' \in {"pub", "key", "replay"}
    BY <1>1 DEF Start, WriteKey, LoadPublicKey
  <2> QED  BY <2>1, InvUnfolds, Untouched DEF EvidenceSound, MemorySound, EntrySound
<1>2. CASE Replay
  BY <1>2, ReplaySound
<1>3. CASE ImportEntry
  <2>1. PICK i \in 1..Len(log) : FilesAt(i - 1) = {} /\ arc' = arc \cup {EventFile(log[i])}
    BY <1>3 DEF ImportEntry, Unstored
  <2>2. log[i] \in Entry /\ log[i].seq = i - 1 /\ Len(log) \in Nat
    BY <1>3, InvUnfolds DEF ImportEntry, TypeInv, TypeOK, InHand, LinesDecode, LogSound
  <2> DEFINE f == EventFile(log[i])
  <2>3. f \in EventFiles /\ f.seq = i - 1 /\ f.data = log[i] /\ log[f.seq + 1] = log[i]
    BY <2>2, EventFileType DEF EventFile
  <2>4. UNCHANGED <<log, head, acked, pc, error, seq, ids, knownHead>> /\ pc = "import"
    BY <1>3 DEF ImportEntry
  <2> HIDE DEF f
  <2>5. LogSound' /\ ArchiveSound' /\ ReceiptsSound'
    BY <2>1, <2>3, <2>4, InvUnfolds, FileAdded DEF f
  <2>6. MemorySound' /\ EntrySound'
    BY <2>4, SameIds, InvUnfolds DEF MemorySound, EntrySound
  <2> QED  BY <2>5, <2>6 DEF EvidenceSound
<1>4. ASSUME ImportEntriesDone \/ ImportCheckpoint \/ ImportCheckpointsDone
      PROVE  EvidenceSound'
  <2>1. /\ UNCHANGED <<log, arc, head, acked, error, seq, ids, knownHead>>
        /\ pc \in {"import", "importCp"} /\ pc' \in {"importCp", "initHead"}
    BY <1>4 DEF ImportEntriesDone, ImportCheckpoint, ImportCheckpointsDone
  <2>2. MemorySound' /\ EntrySound'
    BY <2>1, SameIds, InvUnfolds DEF MemorySound, EntrySound, OperationPcs
  <2> QED  BY <2>1, <2>2, InvUnfolds, Untouched DEF EvidenceSound
<1>5. CASE WriteFirstHead
  <2>1. /\ UNCHANGED <<log, arc, acked, error, seq, ids>> /\ head' = NewHead
        /\ pc = "initHead" /\ pc' = "marker" /\ knownHead' = NewHead
    BY <1>5 DEF WriteFirstHead, SignHead
  <2>2. seq = Len(log) /\ NewHead \in SignedHead
    BY <2>1, InvUnfolds, NewHeadType DEF Places, MemorySound, TypeInv, TypeOK
  <2>3. ReceiptsSound'
    BY <2>1, <2>2, InvUnfolds, HeadRenewed
  <2>4. LogSound' /\ ArchiveSound'
    BY <2>1, InvUnfolds DEF LogSound, ArchiveSound
  <2>5. MemorySound' /\ EntrySound'
    BY <2>1, <2>2, SameIds, InvUnfolds DEF MemorySound, EntrySound, OperationPcs
  <2> QED  BY <2>3, <2>4, <2>5 DEF EvidenceSound
<1>6. CASE WriteMarker
  <2>1. /\ UNCHANGED <<log, arc, head, acked, seq, ids, knownHead>>
        /\ pc = "marker" /\ pc' = "idle"
    BY <1>6 DEF WriteMarker
  <2>2. ~error
    BY <2>1, InvUnfolds DEF Places
  <2>3. MemorySound' /\ EntrySound'
    BY <2>1, <2>2, SameIds, InvUnfolds DEF MemorySound, EntrySound, OperationPcs
  <2> QED  BY <2>1, <2>3, InvUnfolds, Untouched DEF EvidenceSound
<1> QED  BY <1>1, <1>2, <1>3, <1>4, <1>5, <1>6 DEF Startup

LEMMA RecordNewSound ==
  ASSUME EvidenceInv, damage = 0, NEW event \in Event, RecordNew(event)
  PROVE  EvidenceSound'
<1> USE DEF eventStore, anchor, memory, flags, history
<1>1. /\ UNCHANGED <<log, arc, head, acked, error, seq, ids, knownHead>>
      /\ pc = "idle" /\ ~error /\ pc' = "store" /\ cur' = NewEntry(event)
      /\ ~Recorded(event.id)
  BY DEF RecordNew, MayRecord
<1>2. LinesDecode /\ seq = Len(log) /\ ids = IdsOfLog /\ knownHead \in SignedHead
  BY <1>1, InvUnfolds DEF MemorySound
<1>3. \A i \in 1..Len(log) : log[i].event.id # event.id
  <2> SUFFICES ASSUME NEW i \in 1..Len(log) PROVE log[i].event.id # event.id
    OBVIOUS
  <2> DEFINE k == [id |-> log[i].event.id, seq |-> log[i].seq]
  <2>1. k \in ids
    BY <1>2 DEF IdsOfLog
  <2>2. k.id # event.id
    BY <1>1, <2>1 DEF Recorded
  <2> QED  BY <2>2
<1>4. cur'.seq = Len(log) /\ cur'.event = event
  BY <1>1, <1>2 DEF NewEntry
<1>5. MemorySound'
  BY <1>1, <1>2, SameIds DEF MemorySound
<1>6. EntrySound'
  BY <1>1, <1>3, <1>4 DEF EntrySound
<1> QED  BY <1>1, <1>5, <1>6, InvUnfolds, Untouched DEF EvidenceSound

LEMMA RecordAgainSound ==
  ASSUME EvidenceInv, damage = 0, NEW event \in Event, RecordAgain(event)
  PROVE  EvidenceSound'
<1> USE DEF eventStore, anchor, memory
<1>1. UNCHANGED <<log, arc, head, seq, ids, knownHead, pc, cur>> /\ pc = "idle" /\ ~error
  BY DEF RecordAgain, MayRecord
<1>2. /\ LinesDecode /\ seq = Len(log) /\ ids = IdsOfLog /\ knownHead \in SignedHead
      /\ Len(log) \in Nat
  BY <1>1, InvUnfolds DEF MemorySound, TypeInv, TypeOK
<1>3. LogSound' /\ ArchiveSound' /\ MemorySound' /\ EntrySound'
  BY <1>1, <1>2, SameIds, InvUnfolds DEF LogSound, ArchiveSound, MemorySound, EntrySound, OperationPcs
<1>4. ReceiptsSound'
  <2>1. CASE UNCHANGED acked
    BY <1>1, <2>1, InvUnfolds, Untouched
  <2>2. CASE \E k \in ids : \E f \in FilesAt(k.seq) :
               f.data # Damaged /\ VerifyOK /\ acked' = acked \cup {f.data}
    <3>1. PICK i \in 1..Len(log), f \in arc :
            f.seq = log[i].seq /\ f.data # Damaged /\ VerifyOK /\ acked' = acked \cup {f.data}
      BY <1>2, <2>2 DEF IdsOfLog, FilesAt
    <3>2. log[i] # Damaged /\ log[i].seq = i - 1 /\ i - 1 \in Nat /\ i - 1 < Len(log)
      BY <1>2, InvUnfolds DEF LinesDecode, LogSound
    <3>3. log[f.seq + 1] = log[i] /\ f.data = log[i]
      BY <3>1, <3>2, InvUnfolds DEF ArchiveSound
    <3>4. f \in EventFiles
      BY InvUnfolds DEF TypeInv, TypeOK
    <3>5. EventFile(log[i]) = f
      BY <3>1, <3>2, <3>3, <3>4 DEF EventFile, EventFiles
    <3>6. IsRecorded(log[i])
      BY <3>2, <3>3, <3>1, <3>5 DEF IsRecorded
    <3>7. head \in SignedHead /\ head.total = Len(log)
      BY <1>2, <3>1, InvUnfolds, MarkersAssumption DEF VerifyOK, BaselineOK, HeadOK
    <3>8. IsSigned(log[i])
      BY <3>2, <3>7 DEF IsSigned
    <3> QED  BY <1>1, <3>1, <3>3, <3>6, <3>8, InvUnfolds DEF ReceiptsSound, IsRecorded, IsSigned
  <2> QED  BY <2>1, <2>2 DEF RecordAgain
<1> QED  BY <1>3, <1>4 DEF EvidenceSound

LEMMA ProgressSound ==
  ASSUME EvidenceInv, damage = 0, Progress
  PROVE  EvidenceSound'
<1> USE DEF eventStore, checkpointStore, anchor, memory, flags, history
<1>1. ASSUME NEW condition, Refuse(condition)
      PROVE  EvidenceSound'
  <2>1. UNCHANGED <<log, arc, head, acked>> /\ error' = TRUE /\ pc' = "idle"
    BY <1>1 DEF Refuse
  <2> QED  BY <2>1, InvUnfolds, Untouched DEF EvidenceSound, MemorySound, EntrySound
<1>2. ASSUME StoreEvent, arc' = arc \cup {EventFile(cur)}, pc' = "append",
             FilesAt(cur.seq) \subseteq {EventFile(cur)},
             UNCHANGED <<log, checkpointStore, anchor, keys, cur, memory, flags, history>>
      PROVE  EvidenceSound'
  <2>1. pc = "store" /\ UNCHANGED <<log, head, acked, cur, error, seq, ids, knownHead>>
    BY <1>2 DEF StoreEvent
  <2>2. cur \in Entry /\ cur.seq = Len(log) /\ Len(log) \in Nat
    BY <2>1, InvUnfolds DEF TypeInv, TypeOK, InHand, EntrySound
  <2>3. EventFile(cur) \in EventFiles /\ EventFile(cur).seq = Len(log)
    BY <2>2, EventFileType DEF EventFile
  <2>4. LogSound' /\ ArchiveSound' /\ ReceiptsSound'
    BY <1>2, <2>1, <2>2, <2>3, InvUnfolds, FileAdded
  <2>5. MemorySound'
    BY <1>2, <2>1, SameIds, InvUnfolds DEF MemorySound, OperationPcs
  <2>6. \A f \in arc' : f.seq = cur.seq => f = EventFile(cur)
    BY <1>2 DEF FilesAt
  <2>7. EventFile(cur)' = EventFile(cur)
    BY <2>1 DEF EventFile
  <2>8. EntrySound'
    BY <1>2, <2>1, <2>6, <2>7, InvUnfolds DEF EntrySound
  <2> QED  BY <2>4, <2>5, <2>8 DEF EvidenceSound
<1>3. CASE StoreEvent
  BY <1>1, <1>2, <1>3 DEF StoreEvent
<1>4. CASE AppendEvent
  <2>1. /\ pc = "append" /\ pc' \in {"cpStore", "head"}
        /\ log' = Append(log, cur) /\ seq' = seq + 1
        /\ ids' = ids \cup {[id |-> cur.event.id, seq |-> cur.seq]}
        /\ UNCHANGED <<arc, head, acked, cur, error, knownHead>>
    BY <1>4 DEF AppendEvent, AfterAppend
  <2>2. cur \in Entry /\ ~error
    BY <2>1, InvUnfolds DEF TypeInv, InHand, Places
  <2>3. /\ LogSound' /\ ArchiveSound' /\ ReceiptsSound'
        /\ \A r \in Entry : r = cur => IsRecorded(r)'
    BY <2>1, InvUnfolds, LineAddedSound
  <2>4. /\ Len(log) \in Nat /\ Len(log') = Len(log) + 1 /\ log'[Len(log) + 1] = cur
        /\ \A i \in 1..Len(log) : log'[i] = log[i]
    BY <2>1, <2>2, InvUnfolds, LineAdded
  <2>5. LinesDecode /\ seq = Len(log) /\ ids = IdsOfLog /\ knownHead \in SignedHead
    BY <2>1, <2>2, InvUnfolds DEF MemorySound, OperationPcs
  <2>6. LinesDecode'
    <3>1. cur # Damaged
      BY <2>2, MarkersAssumption
    <3>2. \A i \in 1..Len(log') : i \in 1..Len(log) \/ i = Len(log) + 1
      BY <2>4
    <3> QED  BY <2>4, <2>5, <3>1, <3>2 DEF LinesDecode
  <2>7. ids' = IdsOfLog'
    <3>1. 1..Len(log') = (1..Len(log)) \cup {Len(log) + 1}
      BY <2>4
    <3>2. IdsOfLog' = {[id |-> log'[i].event.id, seq |-> log'[i].seq] : i \in 1..Len(log')}
      BY DEF IdsOfLog
    <3>3. IdsOfLog' = {[id |-> log'[i].event.id, seq |-> log'[i].seq] : i \in 1..Len(log)}
                        \cup {[id |-> cur.event.id, seq |-> cur.seq]}
      BY <2>4, <3>1, <3>2
    <3>4. {[id |-> log'[i].event.id, seq |-> log'[i].seq] : i \in 1..Len(log)} = IdsOfLog
      BY <2>4 DEF IdsOfLog
    <3> QED  BY <2>1, <2>5, <3>3, <3>4
  <2>8. MemorySound'
    BY <2>1, <2>4, <2>5, <2>6, <2>7 DEF MemorySound
  <2>9. EntrySound'
    BY <2>1, <2>2, <2>3 DEF EntrySound, IsRecorded, EventFile
  <2> QED  BY <2>3, <2>8, <2>9 DEF EvidenceSound
<1>5. ASSUME UNCHANGED <<log, arc, head, acked, cur, error, seq, ids, knownHead>>,
             pc \in {"cpStore", "cpAppend"}, pc' \in {"cpAppend", "head"}
      PROVE  EvidenceSound'
  <2>1. MemorySound'
    BY <1>5, SameIds, InvUnfolds DEF MemorySound, OperationPcs
  <2>2. EntrySound'
    BY <1>5, InvUnfolds DEF EntrySound, IsRecorded, EventFile
  <2> QED  BY <1>5, <2>1, <2>2, InvUnfolds, Untouched DEF EvidenceSound
<1>6. CASE StoreCheckpoint
  BY <1>1, <1>5, <1>6 DEF StoreCheckpoint
<1>7. CASE AppendCheckpoint
  BY <1>5, <1>7 DEF AppendCheckpoint
<1>8. ASSUME pc = "head", head' = NewHead, knownHead' = NewHead,
             pc' = (IF cur = Absent THEN "idle" ELSE "ack"),
             UNCHANGED <<log, arc, acked, cur, error, seq, ids>>
      PROVE  EvidenceSound'
  <2>1. ~error /\ seq = Len(log) /\ NewHead \in SignedHead /\ cur \in Entry \cup {Absent}
    BY <1>8, InvUnfolds, NewHeadType DEF Places, MemorySound, TypeInv, TypeOK
  <2>2. ReceiptsSound' /\ \A r \in Entry : IsRecorded(r) => IsSigned(r)'
    BY <1>8, <2>1, InvUnfolds, HeadRenewed
  <2>3. LogSound' /\ ArchiveSound'
    BY <1>8, InvUnfolds DEF LogSound, ArchiveSound
  <2>4. MemorySound'
    BY <1>8, <2>1, SameIds, InvUnfolds DEF MemorySound, OperationPcs
  <2>5. EntrySound'
    <3>1. CASE cur = Absent
      BY <1>8, <3>1 DEF EntrySound
    <3>2. CASE cur # Absent
      <4>1. cur \in Entry /\ IsRecorded(cur)
        BY <1>8, <2>1, <3>2, InvUnfolds DEF EntrySound
      <4>2. NewHead \in SignedHead /\ cur.seq < NewHead.total
        BY <2>1, <4>1 DEF IsRecorded, NewHead, SignedTotal
      <4>3. IsRecorded(cur)' /\ IsSigned(cur)'
        BY <1>8, <4>1, <4>2 DEF IsRecorded, IsSigned, EventFile
      <4> QED  BY <1>8, <3>2, <4>3 DEF EntrySound
    <3> QED  BY <3>1, <3>2
  <2> QED  BY <2>2, <2>3, <2>4, <2>5 DEF EvidenceSound
<1>9. CASE WriteHead
  BY <1>1, <1>8, <1>9 DEF WriteHead, SignHead
<1>10. CASE Reply
  <2>1. /\ pc = "ack" /\ pc' = "idle" /\ acked' = acked \cup {cur}
        /\ UNCHANGED <<log, arc, head, error, seq, ids, knownHead>>
    BY <1>10 DEF Reply
  <2>2. cur \in Entry /\ IsRecorded(cur) /\ IsSigned(cur)
    BY <2>1, InvUnfolds, MarkersAssumption DEF EntrySound, TypeInv, InHand
  <2>3. ReceiptsSound'
    BY <2>1, <2>2, InvUnfolds DEF ReceiptsSound, IsRecorded, IsSigned
  <2>4. LogSound' /\ ArchiveSound'
    BY <2>1, InvUnfolds DEF LogSound, ArchiveSound
  <2>5. MemorySound' /\ EntrySound'
    BY <2>1, SameIds, InvUnfolds DEF MemorySound, EntrySound, OperationPcs
  <2> QED  BY <2>3, <2>4, <2>5 DEF EvidenceSound
<1> QED  BY <1>3, <1>4, <1>6, <1>7, <1>9, <1>10 DEF Progress

LEMMA EvidenceInit == Init => EvidenceInv
<1> SUFFICES ASSUME NEW legacy \in Installations, Found(legacy) PROVE EvidenceInv
  BY DEF Init
<1> DEFINE events == legacy.events
<1>1. TypeInv
  BY TypeInit DEF Init
<1>2. pc = "down" /\ ~error /\ cur = Absent /\ acked = {}
  BY DEF Found
<1>3. Len(log) = Len(events) /\ \A i \in 1..Len(log) : log[i] = LegacyEntry(events, i)
  BY LegacyAssumption DEF Found
<1>4. LogSound
  <2>1. Len(events) \in Nat
    BY LegacyAssumption
  <2>2. \A i \in 1..Len(log) : log[i].seq = i - 1 /\ log[i].event = events[i]
    <3>1. \A i \in 1..Len(log) :
            LegacyEntry(events, i).seq = i - 1 /\ LegacyEntry(events, i).event = events[i]
      BY DEF LegacyEntry
    <3> QED  BY <1>3, <3>1
  <2>3. \A i, j \in 1..Len(log) : log[i].event.id = log[j].event.id => i = j
    BY <1>3, <2>2, LegacyAssumption
  <2> QED  BY <2>2, <2>3 DEF LogSound
<1>5. ArchiveSound
  <2> SUFFICES ASSUME NEW f \in arc PROVE f.data = log[f.seq + 1]
    BY DEF ArchiveSound
  <2>1. PICK i \in 1..legacy.sealed : f = EventFile(LegacyEntry(events, i))
    BY DEF Found
  <2>2. f.seq = i - 1 /\ f.data = LegacyEntry(events, i)
    BY <2>1 DEF EventFile, LegacyEntry
  <2>3. i \in 1..Len(log)
    BY <1>3, LegacyAssumption
  <2> QED  BY <1>3, <2>2, <2>3
<1>6. Places /\ ReceiptsSound /\ MemorySound /\ EntrySound
  BY <1>2 DEF Places, ReceiptsSound, MemorySound, EntrySound
<1> QED  BY <1>1, <1>4, <1>5, <1>6 DEF EvidenceInv, EvidenceSound

LEMMA EvidenceStep == EvidenceInv /\ [Next]_vars => EvidenceInv'
<1> SUFFICES ASSUME EvidenceInv, [Next]_vars PROVE EvidenceInv'
  OBVIOUS
<1>1. TypeInv' /\ Places'
  BY TypeStep, PlacesStep DEF EvidenceInv
<1>2. SUFFICES ASSUME damage' = 0 PROVE EvidenceSound'
  BY <1>1 DEF EvidenceInv
<1>3. damage = 0 /\ ~Damage
  <2>1. damage \in Nat
    BY BoundsAssumption DEF EvidenceInv, TypeInv, TypeOK
  <2>2. CASE Damage
    BY <1>2, <2>1, <2>2 DEF Damage
  <2>3. CASE ~Damage
    BY <1>2, <2>3, Zenon DEF Next, vars, Startup, Start, WriteKey, LoadPublicKey, Replay,
       WhenUnverified, ImportEntry,
       ImportEntriesDone, ImportCheckpoint, ImportCheckpointsDone, WriteFirstHead, WriteMarker,
       RecordNew, RecordAgain, Progress, StoreEvent, AppendEvent, StoreCheckpoint,
       AppendCheckpoint, WriteHead, Reply, Refuse, Seal, Verify, WriteFails, Crash, history
  <2> QED  BY <2>2, <2>3
<1>4. CASE Startup
  BY <1>3, <1>4, StartupSound
<1>5. CASE \E event \in Event : RecordNew(event) \/ RecordAgain(event)
  BY <1>3, <1>5, RecordNewSound, RecordAgainSound
<1>6. CASE Progress
  BY <1>3, <1>6, ProgressSound
<1>7. CASE Seal
  <2>1. /\ UNCHANGED <<log, arc, head, acked, cur, error, seq, ids, knownHead>>
        /\ pc = "idle" /\ pc' = "cpStore" /\ cur = Absent
    BY <1>3, <1>7, InvUnfolds DEF Seal, Places, OperationPcs, eventStore, anchor, memory, flags, history
  <2>2. MemorySound' /\ EntrySound'
    BY <1>3, <2>1, SameIds, InvUnfolds DEF MemorySound, EntrySound, OperationPcs
  <2> QED  BY <1>3, <2>1, <2>2, InvUnfolds, Untouched DEF EvidenceSound
<1>8. CASE Verify
  <2>1. UNCHANGED <<log, arc, head, acked, pc>> /\ pc = "idle" /\ error' = TRUE
    BY <1>8 DEF Verify, eventStore, anchor, history
  <2> QED  BY <1>3, <2>1, InvUnfolds, Untouched DEF EvidenceSound, MemorySound, EntrySound
<1>9. CASE WriteFails \/ Crash
  <2>1. PartialWrite /\ UNCHANGED acked
    BY <1>9 DEF WriteFails, Crash
  <2>2. pc' \in {"replay", "idle", "down"} /\ (pc' = "idle" => error' = TRUE)
    BY <1>9 DEF WriteFails, Crash
  <2>3. MemorySound' /\ EntrySound'
    BY <2>2 DEF MemorySound, EntrySound
  <2> QED  BY <1>3, <2>1, <2>3, PartialWriteSound DEF EvidenceSound
<1>10. CASE UNCHANGED vars
  <2>1. UNCHANGED <<log, arc, head, acked, pc, cur, error, seq, ids, knownHead>>
    BY <1>10 DEF vars
  <2>2. MemorySound' /\ EntrySound'
    BY <1>3, <2>1, SameIds, InvUnfolds DEF MemorySound, EntrySound, IsRecorded, IsSigned, EventFile
  <2> QED  BY <1>3, <2>1, <2>2, InvUnfolds, Untouched DEF EvidenceSound
<1> QED  BY <1>3, <1>4, <1>5, <1>6, <1>7, <1>8, <1>9, <1>10 DEF Next

LEMMA EvidenceAlways == Spec => []EvidenceInv
BY EvidenceInit, EvidenceStep, PTL DEF Spec

\* A receipt survives every crash, failed write, pause and restart: its entry
\* stays in the log, in the archive and under the signed head, as long as no
\* file is damaged from outside.
THEOREM ReceiptsAreDurable == Spec => []ReceiptsDurable
<1>1. EvidenceInv => ReceiptsDurable
  BY DEF EvidenceInv, EvidenceSound, ReceiptsSound, IsRecorded, IsSigned, ReceiptsDurable
<1> QED  BY <1>1, EvidenceAlways, PTL

\* Two receipts for one event_id are the same receipt, whatever happened
\* between the two offers.
THEOREM RetriesAgree == Spec => []ReceiptsAgree
<1>1. EvidenceInv => ReceiptsAgree
  <2> SUFFICES ASSUME EvidenceInv, damage = 0, NEW r \in acked, NEW s \in acked,
                      r.event.id = s.event.id
               PROVE  r = s
    BY DEF ReceiptsAgree
  <2>1. r \in Entry /\ s \in Entry /\ IsRecorded(r) /\ IsRecorded(s)
    BY InvUnfolds DEF TypeInv, TypeOK, ReceiptsSound
  <2>2. r.seq + 1 \in 1..Len(log) /\ s.seq + 1 \in 1..Len(log)
    BY <2>1, InvUnfolds DEF IsRecorded, Entry, TypeInv, TypeOK
  <2>3. log[r.seq + 1] = r /\ log[s.seq + 1] = s /\ r # Damaged /\ s # Damaged
    BY <2>1, MarkersAssumption DEF IsRecorded
  <2>4. r.seq + 1 = s.seq + 1
    BY <2>2, <2>3, InvUnfolds DEF LogSound
  <2> QED  BY <2>3, <2>4
<1> QED  BY <1>1, EvidenceAlways, PTL

-----------------------------------------------------------------------------
(* The writer implements EvidencePromise when nothing outside the program    *)
(* damages its files: crashes, failed writes, restarts, checkpoints and the  *)
(* import are steps of the promise or leave it alone.                        *)

\* Without damage only the last line of the log may be torn.

TornLast == \A i \in 1..(Len(log) - 1) : log[i] # Damaged

RefinementInv == EvidenceInv /\ damage = 0 /\ TornLast

\* What a step does to the two variables the promise is about.
Leaves == UNCHANGED <<log, acked>>
AddsEntry == pc = "append" /\ log' = Append(log, cur) /\ UNCHANGED acked
AddsTornLine == pc = "append" /\ log' = Append(log, Damaged) /\ UNCHANGED acked
AddsReceipt == LinesDecode /\ UNCHANGED log /\ \E r \in Entry : acked' = acked \cup {r}

LEMMA StepsOfLedger ==
  ASSUME EvidenceInv, EvidenceInv', damage = 0, [Next]_vars, ~Damage
  PROVE  Leaves \/ AddsEntry \/ AddsTornLine \/ AddsReceipt
<1> USE DEF Leaves, eventStore, checkpointStore, anchor, keys, memory, flags, history
<1>1. CASE Startup
  BY <1>1, Zenon DEF Startup, Start, WriteKey, LoadPublicKey, Replay, ImportEntry, ImportEntriesDone,
     ImportCheckpoint, ImportCheckpointsDone, WriteFirstHead, WriteMarker
<1>2. ASSUME NEW event \in Event, RecordNew(event) PROVE Leaves
  BY <1>2 DEF RecordNew
<1>3. ASSUME NEW event \in Event, RecordAgain(event) PROVE Leaves \/ AddsReceipt
  <2>1. UNCHANGED log
    BY <1>3 DEF RecordAgain
  <2>2. CASE UNCHANGED acked
    BY <2>1, <2>2
  <2>3. CASE \E k \in ids : \E f \in FilesAt(k.seq) : VerifyOK /\ acked' = acked \cup {f.data}
    <3>1. PICK r : VerifyOK /\ acked' = acked \cup {r}
      BY <2>3
    <3>2. r \in Entry /\ LinesDecode
      BY <3>1 DEF EvidenceInv, TypeInv, TypeOK, VerifyOK
    <3> QED  BY <2>1, <3>1, <3>2 DEF AddsReceipt
  <2> QED  BY <1>3, <2>2, <2>3 DEF RecordAgain
<1>4. ASSUME NEW condition, Refuse(condition) PROVE Leaves
  BY <1>4 DEF Refuse
<1>5. CASE StoreEvent \/ StoreCheckpoint \/ AppendCheckpoint \/ WriteHead
  <2>1. CASE StoreEvent
    BY <1>4, <2>1 DEF StoreEvent
  <2>2. CASE StoreCheckpoint
    BY <1>4, <2>2 DEF StoreCheckpoint
  <2>3. CASE AppendCheckpoint
    BY <2>3 DEF AppendCheckpoint
  <2>4. CASE WriteHead
    BY <1>4, <2>4 DEF WriteHead, SignHead
  <2> QED  BY <1>5, <2>1, <2>2, <2>3, <2>4
<1>6. CASE AppendEvent
  BY <1>6 DEF AppendEvent, AddsEntry
<1>7. CASE Reply
  <2>1. cur \in Entry /\ LinesDecode
    BY <1>7, InvUnfolds DEF Reply, TypeInv, InHand, Places, MemorySound, OperationPcs
  <2> QED  BY <1>7, <2>1 DEF Reply, AddsReceipt
<1>8. CASE Seal \/ Verify
  BY <1>8 DEF Seal, Verify
<1>9. CASE WriteFails \/ Crash
  <2>1. PartialWrite /\ UNCHANGED acked
    BY <1>9 DEF WriteFails, Crash
  <2>2. UNCHANGED log \/ (pc = "append" /\ log' \in PartialLine(log, cur))
    BY <2>1 DEF PartialWrite, SignHead
  <2> QED  BY <2>1, <2>2 DEF PartialLine, AddsEntry, AddsTornLine
<1>10. CASE UNCHANGED vars
  BY <1>10 DEF vars
<1> QED  BY <1>1, <1>2, <1>3, <1>5, <1>6, <1>7, <1>8, <1>9, <1>10 DEF Next, Progress

-----------------------------------------------------------------------------
(* Each of them is a step of the promise, or a stutter.                      *)

LEMMA LeavesStutters ==
  ASSUME Leaves
  PROVE  UNCHANGED Promise!pvars
BY DEF Leaves, Promise!pvars, LedgerOfLog, Readable, LinesDecode, Receipts

LEMMA AppendDecodes ==
  ASSUME EvidenceInv, damage = 0, pc = "append"
  PROVE  /\ LinesDecode /\ cur \in Entry /\ cur # Damaged
         /\ \A i \in 1..Len(log) : log[i].event.id # cur.event.id
BY InvUnfolds, MarkersAssumption DEF TypeInv, InHand, Places, MemorySound, EntrySound, OperationPcs

LEMMA EntryAccepts ==
  ASSUME EvidenceInv, damage = 0, AddsEntry
  PROVE  cur.event \in Event /\ Promise!Accept(cur.event)
<1>1. /\ LinesDecode /\ cur \in Entry /\ cur # Damaged
      /\ \A i \in 1..Len(log) : log[i].event.id # cur.event.id
  BY AppendDecodes DEF AddsEntry
<1>2. /\ Len(log) \in Nat /\ Len(log') = Len(log) + 1
      /\ \A i \in 1..Len(log) : log'[i] = log[i]
      /\ log'[Len(log) + 1] = cur
  BY <1>1, LineAdded DEF AddsEntry, EvidenceInv
<1>3. Readable = Len(log) /\ LedgerOfLog = [i \in 1..Len(log) |-> log[i].event]
  BY <1>1 DEF Readable, LedgerOfLog
<1>4. Readable' = Len(log) + 1
  <2>1. \A i \in 1..(Len(log) + 1) : i \in 1..Len(log) \/ i = Len(log) + 1
    BY <1>2
  <2>2. LinesDecode'
    BY <1>1, <1>2, <2>1 DEF LinesDecode
  <2> QED  BY <1>2, <2>2 DEF Readable
<1>5. LedgerOfLog \in Seq(Event) /\ Len(LedgerOfLog) = Len(log) /\ cur.event \in Event
  <2>1. \A i \in 1..Len(log) : log[i].event \in Event
    BY <1>1 DEF LinesDecode, EvidenceInv, TypeInv, TypeOK, Entry
  <2>2. [i \in 1..Len(log) |-> log[i].event] \in Seq(Event)
    BY <1>2, <2>1, IsASeq
  <2> QED  BY <1>1, <1>2, <1>3, <2>2 DEF Entry
<1>6. LedgerOfLog' = Append(LedgerOfLog, cur.event)
  <2>1. LedgerOfLog' = [i \in 1..(Len(log) + 1) |-> log'[i].event]
    BY <1>4 DEF LedgerOfLog
  <2>2. \A i \in 1..(Len(log) + 1) :
          log'[i].event = IF i = Len(log) + 1 THEN cur.event ELSE LedgerOfLog[i]
    BY <1>2, <1>3
  <2>3. Append(LedgerOfLog, cur.event) =
          [i \in 1..(Len(log) + 1) |-> IF i = Len(log) + 1 THEN cur.event ELSE LedgerOfLog[i]]
    BY <1>5, SMT
  <2> QED  BY <2>1, <2>2, <2>3
<1>7. \A i \in 1..Len(LedgerOfLog) : LedgerOfLog[i].id # cur.event.id
  BY <1>1, <1>3, <1>5
<1>8. UNCHANGED Receipts
  BY DEF AddsEntry, Receipts
<1> QED  BY <1>5, <1>6, <1>7, <1>8 DEF Promise!Accept

LEMMA TornLineStutters ==
  ASSUME EvidenceInv, damage = 0, AddsTornLine
  PROVE  UNCHANGED Promise!pvars
<1>1. LinesDecode
  BY AppendDecodes DEF AddsTornLine
<1>2. /\ Len(log) \in Nat /\ Len(log') = Len(log) + 1
      /\ \A i \in 1..Len(log) : log'[i] = log[i]
      /\ log'[Len(log) + 1] = Damaged
  BY LineAdded DEF AddsTornLine, EvidenceInv
<1>3. Readable = Len(log) /\ Readable' = Len(log)
  <2>1. Len(log) + 1 \in 1..Len(log') /\ ~LinesDecode'
    BY <1>2 DEF LinesDecode
  <2> QED  BY <1>1, <1>2, <2>1 DEF Readable
<1>4. LedgerOfLog' = LedgerOfLog
  BY <1>2, <1>3 DEF LedgerOfLog
<1>5. Receipts' = Receipts
  BY DEF AddsTornLine, Receipts
<1> QED  BY <1>4, <1>5 DEF Promise!pvars

LEMMA ReceiptAcknowledges ==
  ASSUME EvidenceInv, EvidenceInv', damage' = 0, AddsReceipt
  PROVE  \E i \in 1..Len(LedgerOfLog) : Promise!Acknowledge(i)
<1>1. PICK r \in Entry : acked' = acked \cup {r}
  BY DEF AddsReceipt
<1>2. r.seq \in Nat /\ r.seq < Len(log) /\ log[r.seq + 1] = r /\ Len(log) \in Nat
  <2>1. IsRecorded(r)'
    BY <1>1 DEF EvidenceInv, EvidenceSound, ReceiptsSound
  <2>2. r.seq < Len(log) /\ log[r.seq + 1] = r
    BY <2>1 DEF IsRecorded, AddsReceipt
  <2> QED  BY <2>2 DEF Entry, EvidenceInv, TypeInv, TypeOK
<1>3. LedgerOfLog = [i \in 1..Len(log) |-> log[i].event] /\ Len(LedgerOfLog) = Len(log)
  BY <1>2 DEF LedgerOfLog, Readable, AddsReceipt
<1>4. r.seq + 1 \in 1..Len(LedgerOfLog) /\ LedgerOfLog[r.seq + 1] = r.event
  BY <1>2, <1>3
<1>5. Receipts' = Receipts \cup {[seq |-> (r.seq + 1) - 1, event |-> LedgerOfLog[r.seq + 1]]}
  <2>1. (r.seq + 1) - 1 = r.seq
    BY <1>2
  <2>2. Receipts' = Receipts \cup {[seq |-> r.seq, event |-> r.event]}
    BY <1>1 DEF Receipts
  <2> QED  BY <1>4, <2>1, <2>2
<1>6. UNCHANGED LedgerOfLog
  BY DEF AddsReceipt, LedgerOfLog, Readable, LinesDecode
<1> QED  BY <1>4, <1>5, <1>6 DEF Promise!Acknowledge

-----------------------------------------------------------------------------

LEMMA RefinementInit == Init => RefinementInv /\ Promise!PInit
<1> SUFFICES ASSUME NEW legacy \in Installations, Found(legacy)
             PROVE  RefinementInv /\ Promise!PInit
  BY DEF Init
<1> DEFINE events == legacy.events
<1>1. EvidenceInv /\ damage = 0 /\ acked = {}
  BY EvidenceInit DEF Init, Found
<1>2. /\ events \in Seq(Event) /\ Len(events) \in Nat
      /\ \A i, j \in 1..Len(events) : events[i].id = events[j].id => i = j
  BY LegacyAssumption
<1>3. Len(log) = Len(events) /\ \A i \in 1..Len(log) : log[i] = LegacyEntry(events, i)
  BY <1>2 DEF Found
<1>4. LinesDecode
  BY <1>3, LegacyEntryType, MarkersAssumption DEF LinesDecode
<1>5. TornLast
  <2>1. \A i \in 1..(Len(log) - 1) : i \in 1..Len(log)
    BY <1>2, <1>3
  <2> QED  BY <1>4, <2>1 DEF LinesDecode, TornLast
<1>6. LedgerOfLog = events
  <2>1. LedgerOfLog = [i \in 1..Len(events) |-> log[i].event]
    BY <1>3, <1>4 DEF LedgerOfLog, Readable
  <2>2. \A i \in 1..Len(events) : log[i].event = events[i]
    <3>1. \A i \in 1..Len(events) : LegacyEntry(events, i).event = events[i]
      BY DEF LegacyEntry
    <3> QED  BY <1>3, <3>1
  <2>3. events = [i \in 1..Len(events) |-> events[i]]
    BY <1>2
  <2> QED  BY <2>1, <2>2, <2>3
<1>7. Receipts = {}
  BY <1>1 DEF Receipts
<1>8. Promise!PInit
  BY <1>2, <1>6, <1>7 DEF Promise!PInit, Promise!PEvent, Event
<1> QED  BY <1>1, <1>5, <1>8 DEF RefinementInv

LEMMA RefinementStep ==
  ASSUME MaxDamage = 0, RefinementInv, [Next]_vars
  PROVE  RefinementInv' /\ [Promise!PNext]_(Promise!pvars)
<1>1. EvidenceInv /\ damage = 0 /\ TornLast /\ EvidenceInv'
  BY EvidenceStep DEF RefinementInv
<1>2. damage' = 0 /\ ~Damage
  BY <1>1 DEF EvidenceInv, TypeInv, TypeOK, Damage
<1>3. CASE Leaves
  <2>1. TornLast'
    BY <1>1, <1>3 DEF Leaves, TornLast
  <2> QED  BY <1>1, <1>2, <1>3, <2>1, LeavesStutters DEF RefinementInv
<1>4. ASSUME LinesDecode, NEW line \in Entry \cup {Damaged}, log' = Append(log, line)
      PROVE  TornLast'
  <2>1. /\ Len(log') - 1 = Len(log) /\ \A i \in 1..Len(log) : log'[i] = log[i]
    BY <1>1, <1>4, LineAdded DEF EvidenceInv
  <2> QED  BY <1>4, <2>1 DEF TornLast, LinesDecode
<1>5. CASE AddsEntry
  <2>1. TornLast'
    BY <1>1, <1>4, <1>5, AppendDecodes DEF AddsEntry
  <2>2. Promise!PNext
    BY <1>1, <1>5, EntryAccepts DEF Promise!PNext, Promise!PEvent, Event
  <2> QED  BY <1>1, <1>2, <2>1, <2>2 DEF RefinementInv
<1>6. CASE AddsTornLine
  <2>1. TornLast'
    BY <1>1, <1>4, <1>6, AppendDecodes DEF AddsTornLine
  <2> QED  BY <1>1, <1>2, <1>6, <2>1, TornLineStutters DEF RefinementInv
<1>7. CASE AddsReceipt
  <2>1. TornLast'
    BY <1>1, <1>7 DEF AddsReceipt, TornLast
  <2>2. Promise!PNext
    BY <1>1, <1>2, <1>7, ReceiptAcknowledges DEF Promise!PNext
  <2> QED  BY <1>1, <1>2, <2>1, <2>2 DEF RefinementInv
<1> QED  BY <1>1, <1>2, <1>3, <1>5, <1>6, <1>7, StepsOfLedger

\* The writer is the promised append-only ledger: an event becomes part of it
\* when its line is whole, at most once, and every receipt names its place.
THEOREM WriterImplementsPromise ==
  ASSUME MaxDamage = 0
  PROVE  Spec => ImplementsPromise
<1>1. RefinementInv /\ [Next]_vars => RefinementInv' /\ [Promise!PNext]_(Promise!pvars)
  BY RefinementStep
<1> QED  BY <1>1, RefinementInit, PTL DEF Spec, ImplementsPromise, Promise!PSpec

-----------------------------------------------------------------------------
(* Part 2.  What stays true of the files: no step of the program takes       *)
(* evidence back; a process that collects has in memory what is on disk; and *)
(* verify_chain accuses nobody of what the program did itself: undamaged     *)
(* evidence verifies between two operations, unless a sequence of writes was *)
(* cut short.                                                                *)
(*                                                                           *)
(* NoFalseAlarm is not inductive.  IntactInv says what every comparison of   *)
(* VerifyOK rests on, also in the middle of an operation: that each line is  *)
(* linked to the line before and has its digest, that each checkpoint seals  *)
(* the lines it spans, and that the archive and the head hold what the log   *)
(* holds, but for the one write that is under way.                           *)

-----------------------------------------------------------------------------
(* Nothing is taken back.  The head never counts more than the log has, so   *)
(* a head that counts the whole log does not decrease.                       *)

HeadBehind == (damage = 0 /\ head \in SignedHead) => head.total <= Len(log)

LEMMA SamePrefix ==
  ASSUME NEW S, NEW s \in Seq(S)
  PROVE  IsPrefixOf(s, s)
BY SubSeqFull, LenProperties DEF IsPrefixOf

LEMMA LongerPrefix ==
  ASSUME NEW S, NEW s \in Seq(S), NEW line \in S
  PROVE  IsPrefixOf(s, Append(s, line))
<1> DEFINE t == Append(s, line)
<1>1. /\ t \in Seq(S) /\ Len(s) \in Nat /\ Len(t) = Len(s) + 1
      /\ \A i \in 1..Len(s) : t[i] = s[i]
  OBVIOUS
<1>2. /\ SubSeq(t, 1, Len(s)) \in Seq(S)
      /\ Len(SubSeq(t, 1, Len(s))) = Len(s)
      /\ \A i \in 1..Len(s) : SubSeq(t, 1, Len(s))[i] = t[i]
  BY <1>1, SubSeqProperties
<1>3. SubSeq(t, 1, Len(s)) = s
  BY <1>1, <1>2, SeqEqual
<1> QED  BY <1>1, <1>3 DEF IsPrefixOf

\* What a step other than Damage may do to the evidence.
LinesGrow ==
  /\ log' = log \/ (pc = "append" /\ log' \in {Append(log, cur), Append(log, Damaged)})
  /\ cpLog' = cpLog
     \/ (pc = "cpAppend" /\ cpLog' \in {Append(cpLog, NewCheckpoint), Append(cpLog, Damaged)})
FilesGrow == arc \subseteq arc' /\ cpArc \subseteq cpArc'
HeadMoves == head' = head \/ (pc \in {"head", "initHead"} /\ head' = NewHead /\ UNCHANGED log)

LEMMA StepsGrow ==
  ASSUME [Next]_vars, ~Damage
  PROVE  LinesGrow /\ FilesGrow /\ HeadMoves
<1> USE DEF LinesGrow, FilesGrow, HeadMoves, eventStore, checkpointStore, anchor
<1>1. CASE Startup
  <2>1. CASE Start \/ WriteKey \/ LoadPublicKey \/ Replay
    BY <2>1 DEF Start, WriteKey, LoadPublicKey, Replay
  <2>2. CASE ImportEntry \/ ImportEntriesDone \/ ImportCheckpoint \/ ImportCheckpointsDone
    BY <2>2 DEF ImportEntry, ImportEntriesDone, ImportCheckpoint, ImportCheckpointsDone
  <2>3. CASE WriteFirstHead \/ WriteMarker
    BY <2>3 DEF WriteFirstHead, WriteMarker, SignHead
  <2> QED  BY <1>1, <2>1, <2>2, <2>3 DEF Startup
<1>2. CASE \E event \in Event : RecordNew(event) \/ RecordAgain(event)
  BY <1>2 DEF RecordNew, RecordAgain
<1>3. ASSUME NEW condition, Refuse(condition) PROVE LinesGrow /\ FilesGrow /\ HeadMoves
  BY <1>3 DEF Refuse
<1>4. CASE Progress
  <2>1. CASE StoreEvent
    BY <1>3, <2>1 DEF StoreEvent
  <2>2. CASE AppendEvent
    BY <2>2 DEF AppendEvent
  <2>3. CASE StoreCheckpoint
    BY <1>3, <2>3 DEF StoreCheckpoint
  <2>4. CASE AppendCheckpoint
    BY <2>4 DEF AppendCheckpoint
  <2>5. CASE WriteHead
    BY <1>3, <2>5 DEF WriteHead, SignHead
  <2>6. CASE Reply
    BY <2>6 DEF Reply
  <2> QED  BY <1>4, <2>1, <2>2, <2>3, <2>4, <2>5, <2>6 DEF Progress
<1>5. CASE Seal \/ Verify
  BY <1>5 DEF Seal, Verify
<1>6. CASE WriteFails \/ Crash
  <2>1. PartialWrite
    BY <1>6 DEF WriteFails, Crash
  <2>2. LinesGrow
    BY <2>1 DEF PartialWrite, PartialLine
  <2>3. FilesGrow
    BY <2>1 DEF PartialWrite, PartialFile
  <2>4. HeadMoves
    BY <2>1 DEF PartialWrite, SignHead
  <2> QED  BY <2>2, <2>3, <2>4
<1>7. CASE UNCHANGED vars
  BY <1>7 DEF vars
<1> QED  BY <1>1, <1>2, <1>4, <1>5, <1>6, <1>7 DEF Next

\* A process that writes a head is collecting: its memory mirrors the log.
LEMMA HeadCounts ==
  ASSUME EvidenceInv, damage = 0, pc \in {"head", "initHead"}
  PROVE  NewHead \in SignedHead /\ NewHead.total = Len(log) /\ Len(log) \in Nat
<1>1. seq = Len(log)
  BY InvUnfolds DEF Places, MemorySound
<1>2. NewHead \in SignedHead
  BY NewHeadType DEF EvidenceInv, TypeInv, TypeOK
<1> QED  BY <1>1, <1>2 DEF NewHead, SignedTotal, EvidenceInv, TypeInv, TypeOK

LEMMA LogLonger ==
  ASSUME TypeInv, LinesGrow
  PROVE  /\ IsPrefixOf(log, log') /\ IsPrefixOf(cpLog, cpLog')
         /\ Len(log) \in Nat /\ Len(log') \in Nat /\ Len(log) <= Len(log')
<1>1. log \in Seq(Entry \cup {Damaged}) /\ cpLog \in Seq(Checkpoint \cup {Damaged})
  BY DEF TypeInv, TypeOK
<1>2. pc = "append" => cur \in Entry
  BY DEF TypeInv, InHand
<1>3. pc = "cpAppend" => NewCheckpoint \in Checkpoint
  BY NewCheckpointType DEF TypeInv, TypeOK, InHand
<1>4. IsPrefixOf(log, log') /\ log' \in Seq(Entry \cup {Damaged})
  <2>1. CASE log' = log
    BY <1>1, <2>1, SamePrefix
  <2>2. ASSUME NEW line \in Entry \cup {Damaged}, log' = Append(log, line)
        PROVE  IsPrefixOf(log, log') /\ log' \in Seq(Entry \cup {Damaged})
    <3>1. IsPrefixOf(log, Append(log, line))
      BY <1>1, LongerPrefix
    <3> QED  BY <1>1, <2>2, <3>1
  <2> QED  BY <1>2, <2>1, <2>2 DEF LinesGrow
<1>5. IsPrefixOf(cpLog, cpLog')
  <2>1. CASE cpLog' = cpLog
    BY <1>1, <2>1, SamePrefix
  <2>2. ASSUME NEW line \in Checkpoint \cup {Damaged}, cpLog' = Append(cpLog, line)
        PROVE  IsPrefixOf(cpLog, cpLog')
    <3>1. IsPrefixOf(cpLog, Append(cpLog, line))
      BY <1>1, LongerPrefix
    <3> QED  BY <2>2, <3>1
  <2> QED  BY <1>3, <2>1, <2>2 DEF LinesGrow
<1> QED  BY <1>1, <1>4, <1>5 DEF IsPrefixOf

LEMMA GrowthStep ==
  ASSUME EvidenceInv, HeadBehind, [Next]_vars, damage' = damage
  PROVE  /\ HeadBehind'
         /\ IsPrefixOf(log, log') /\ arc \subseteq arc'
         /\ IsPrefixOf(cpLog, cpLog') /\ cpArc \subseteq cpArc'
         /\ (head \in SignedHead /\ damage = 0) => head' \in SignedHead /\ head.total <= head'.total
<1>1. ~Damage
  <2>1. damage \in Nat
    BY BoundsAssumption DEF EvidenceInv, TypeInv, TypeOK
  <2> QED  BY <2>1 DEF Damage
<1>2. LinesGrow /\ FilesGrow /\ HeadMoves
  BY <1>1, StepsGrow
<1>3. /\ IsPrefixOf(log, log') /\ IsPrefixOf(cpLog, cpLog')
      /\ Len(log) \in Nat /\ Len(log') \in Nat /\ Len(log) <= Len(log')
  BY <1>2, LogLonger DEF EvidenceInv
<1>4. ASSUME damage = 0, head \in SignedHead
      PROVE  head' \in SignedHead /\ head.total <= head'.total
  <2>1. head.total \in Nat /\ head.total <= Len(log)
    BY <1>4 DEF HeadBehind, SignedHead
  <2> QED  BY <1>2, <1>4, <2>1, HeadCounts DEF HeadMoves
<1>5. HeadBehind'
  <2> SUFFICES ASSUME damage = 0, head' \in SignedHead PROVE head'.total <= Len(log')
    BY DEF HeadBehind
  <2>1. CASE head' = head
    <3>1. head.total \in Nat /\ head.total <= Len(log)
      BY <2>1 DEF HeadBehind, SignedHead
    <3> QED  BY <1>3, <2>1, <3>1
  <2>2. CASE pc \in {"head", "initHead"} /\ head' = NewHead /\ UNCHANGED log
    BY <2>2, HeadCounts
  <2> QED  BY <1>2, <2>1, <2>2 DEF HeadMoves
<1> QED  BY <1>2, <1>3, <1>4, <1>5 DEF FilesGrow

\* Nothing but Damage changes the count of damaged artifacts.
LEMMA DamageStays ==
  ASSUME EvidenceInv, [Next]_vars, damage' = 0
  PROVE  damage = 0 /\ ~Damage
<1>1. damage \in Nat
  BY BoundsAssumption DEF EvidenceInv, TypeInv, TypeOK
<1>2. CASE Damage
  BY <1>1, <1>2 DEF Damage
<1>3. CASE ~Damage
  BY <1>3, Zenon DEF Next, vars, Startup, Start, WriteKey, LoadPublicKey, Replay,
     ImportEntry, ImportEntriesDone, ImportCheckpoint, ImportCheckpointsDone, WriteFirstHead,
     WriteMarker, RecordNew, RecordAgain, Progress, StoreEvent, AppendEvent, StoreCheckpoint,
     AppendCheckpoint, WriteHead, Reply, Refuse, Seal, Verify, WriteFails, Crash, history
<1> QED  BY <1>2, <1>3

LEMMA HeadBehindStep == EvidenceInv /\ HeadBehind /\ [Next]_vars => HeadBehind'
<1> SUFFICES ASSUME EvidenceInv, HeadBehind, [Next]_vars, damage' = 0 PROVE HeadBehind'
  BY DEF HeadBehind
<1> QED  BY DamageStays, GrowthStep

\* The program never removes or rewrites evidence: lines and files are only
\* added, and the signed total never decreases, whatever was damaged before.
THEOREM EvidenceIsKept == Spec => EvidenceOnlyGrows
<1>1. Init => HeadBehind
  BY MarkersAssumption DEF Init, Found, HeadBehind
<1>2. EvidenceInv /\ HeadBehind /\ [Next]_vars =>
        [damage' = damage =>
           /\ IsPrefixOf(log, log') /\ arc \subseteq arc'
           /\ IsPrefixOf(cpLog, cpLog') /\ cpArc \subseteq cpArc'
           /\ (head \in SignedHead /\ damage = 0) =>
                head' \in SignedHead /\ head.total <= head'.total]_vars
  BY GrowthStep
<1> QED  BY <1>1, <1>2, HeadBehindStep, EvidenceAlways, PTL DEF Spec, EvidenceOnlyGrows

-----------------------------------------------------------------------------
(* What a collecting process has in memory is what is on disk.               *)

Boot == {"down", "key", "pub", "replay"}
Collecting == pc \notin Boot /\ ~error

Mirror ==
  (damage = 0 /\ Collecting) =>
    /\ cps = cpLog /\ knownHead = head
    /\ Covered \in 0..Len(log)
    /\ pending = Unsealed

\* What a step of a process that goes on collecting may do to either side.
KeepsBoth ==
  /\ Collecting
  /\ UNCHANGED <<log, cpLog, cps, pending>>
  /\ UNCHANGED <<head, knownHead>> \/ knownHead' = head'
Rebuilds ==
  /\ VerifyOK
  /\ cps' = cpLog /\ pending' = Unsealed /\ knownHead' = head
  /\ UNCHANGED <<log, cpLog, head>>

LEMMA StepsOfMemory ==
  ASSUME TypeInv, Places, [Next]_vars, ~Damage, Collecting'
  PROVE  KeepsBoth \/ Rebuilds \/ AppendEvent \/ AppendCheckpoint
<1> USE DEF KeepsBoth, Collecting, Boot, eventStore, checkpointStore, anchor, memory, flags, history
<1>1. CASE Startup
  <2>1. CASE Start \/ WriteKey \/ LoadPublicKey
    BY <2>1 DEF Start, WriteKey, LoadPublicKey
  <2>2. CASE Replay
    BY <2>2 DEF Replay, Rebuilds
  <2>3. CASE ImportEntry \/ ImportEntriesDone \/ ImportCheckpoint \/ ImportCheckpointsDone
    BY <2>3 DEF ImportEntry, ImportEntriesDone, ImportCheckpoint, ImportCheckpointsDone
  <2>4. CASE WriteFirstHead
    BY <2>4 DEF WriteFirstHead, SignHead
  <2>5. CASE WriteMarker
    <3>1. ~error
      BY <2>5, Zenon DEF WriteMarker
    <3> QED  BY <2>5, <3>1 DEF WriteMarker
  <2> QED  BY <1>1, <2>1, <2>2, <2>3, <2>4, <2>5 DEF Startup
<1>2. CASE \E event \in Event : RecordNew(event) \/ RecordAgain(event)
  BY <1>2 DEF RecordNew, RecordAgain, MayRecord
<1>3. ASSUME NEW condition, Refuse(condition) PROVE FALSE
  BY <1>3 DEF Refuse
<1>4. CASE Progress
  <2> USE DEF Places, OperationPcs
  <2>1. CASE StoreEvent
    BY <1>3, <2>1 DEF StoreEvent
  <2>2. CASE StoreCheckpoint
    BY <1>3, <2>2 DEF StoreCheckpoint
  <2>3. CASE WriteHead
    BY <1>3, <2>3 DEF WriteHead, SignHead
  <2>4. CASE Reply
    BY <2>4 DEF Reply
  <2> QED  BY <1>4, <2>1, <2>2, <2>3, <2>4 DEF Progress
<1>5. CASE Seal \/ Verify
  BY <1>5 DEF Seal, Verify
<1>6. CASE WriteFails \/ Crash
  BY <1>6 DEF WriteFails, Crash
<1>7. CASE UNCHANGED vars
  BY <1>7 DEF vars
<1> QED  BY <1>1, <1>2, <1>4, <1>5, <1>6, <1>7 DEF Next

LEMMA CoveredIsLocal ==
  ASSUME UNCHANGED <<log, cpLog>>
  PROVE  Covered' = Covered /\ Unsealed' = Unsealed
BY DEF Covered, Unsealed

LEMMA RebuildsMirror ==
  ASSUME TypeInv, Rebuilds
  PROVE  Mirror'
<1>1. cpLog \in Seq(Checkpoint \cup {Damaged}) /\ Len(log) \in Nat
  BY DEF TypeInv, TypeOK
<1>2. CheckpointsOK
  BY DEF Rebuilds, VerifyOK
<1>3. Covered \in 0..Len(log)
  <2>1. CASE cpLog = <<>>
    BY <1>1, <2>1 DEF Covered
  <2>2. CASE cpLog # <<>>
    <3> DEFINE cp == cpLog[Len(cpLog)]
    <3>1. Len(cpLog) \in 1..Len(cpLog)
      BY <1>1, <2>2
    <3>2. cp \in Checkpoint
      BY <1>1, <1>2, <3>1 DEF CheckpointsOK
    <3>3. cp.start \in Nat /\ cp.leaves \in Seq(Hash) /\ cp.end \in Int
      BY <3>2 DEF Checkpoint
    <3>4. cp.leaves # <<>> /\ cp.end = cp.start + Len(cp.leaves) - 1
      BY <1>2, <3>1 DEF CheckpointsOK, CheckpointOK
    <3>5. cp.end >= 0
      BY <3>3, <3>4
    <3>6. Covered = cp.end + 1 /\ Covered <= Len(log)
      BY <1>2, <2>2 DEF Covered, CheckpointsOK
    <3> QED  BY <1>1, <3>3, <3>5, <3>6
  <2> QED  BY <2>1, <2>2
<1> QED  BY <1>3, CoveredIsLocal DEF Rebuilds, Mirror

LEMMA SubSeqOfAppend ==
  ASSUME NEW S, NEW s \in Seq(S), NEW x \in S, NEW c \in 0..Len(s)
  PROVE  SubSeq(Append(s, x), c + 1, Len(s) + 1) = Append(SubSeq(s, c + 1, Len(s)), x)
<1> DEFINE t == Append(s, x)
           l == SubSeq(t, c + 1, Len(s) + 1)
           u == SubSeq(s, c + 1, Len(s))
<1>1. /\ t \in Seq(S) /\ Len(s) \in Nat /\ Len(t) = Len(s) + 1
      /\ t[Len(s) + 1] = x /\ \A i \in 1..Len(s) : t[i] = s[i]
  OBVIOUS
<1>2. \A i \in (c + 1)..(Len(s) + 1) : t[i] \in S
  BY <1>1
<1>3. /\ l \in Seq(S) /\ Len(l) = Len(s) + 1 - c
      /\ \A i \in 1..(Len(s) + 1 - c) : l[i] = t[c + i]
  BY <1>1, <1>2, SubSeqProperties
<1>4. \A i \in (c + 1)..Len(s) : s[i] \in S
  BY <1>1
<1>5. /\ u \in Seq(S) /\ Len(u) = Len(s) - c
      /\ \A i \in 1..(Len(s) - c) : u[i] = s[c + i]
  BY <1>1, <1>4, SubSeqProperties
<1>6. /\ Append(u, x) \in Seq(S) /\ Len(Append(u, x)) = Len(s) + 1 - c
      /\ Append(u, x)[Len(s) + 1 - c] = x
      /\ \A i \in 1..(Len(s) - c) : Append(u, x)[i] = u[i]
  BY <1>1, <1>5
<1>7. \A i \in 1..(Len(s) + 1 - c) : l[i] = Append(u, x)[i]
  BY <1>1, <1>3, <1>5, <1>6
<1> QED  BY <1>3, <1>6, <1>7, SeqEqual

LEMMA EventMirrored ==
  ASSUME EvidenceInv, damage = 0, Mirror, AppendEvent
  PROVE  Mirror'
<1>1. pc = "append" /\ cur \in Entry /\ ~error
  BY DEF AppendEvent, EvidenceInv, TypeInv, InHand, Places
<1>2. /\ cps = cpLog /\ knownHead = head /\ Covered \in 0..Len(log) /\ pending = Unsealed
  BY <1>1 DEF Mirror, Collecting, Boot
<1>3. log \in Seq(Entry \cup {Damaged}) /\ Len(log) \in Nat
  BY DEF EvidenceInv, TypeInv, TypeOK
<1>4. /\ log' = Append(log, cur) /\ pending' = Append(pending, cur)
      /\ UNCHANGED <<cpLog, cps, head, knownHead>>
  BY DEF AppendEvent, checkpointStore, anchor
<1>5. Covered' = Covered /\ Len(log') = Len(log) + 1
  BY <1>3, <1>4 DEF Covered
<1>6. Unsealed' = Append(Unsealed, cur)
  <2>1. SubSeq(Append(log, cur), Covered + 1, Len(log) + 1)
          = Append(SubSeq(log, Covered + 1, Len(log)), cur)
    <3> DEFINE S == Entry \cup {Damaged}
    <3>1. log \in Seq(S) /\ cur \in S
      BY <1>1, <1>3
    <3> HIDE DEF S
    <3> QED  BY <1>2, <3>1, SubSeqOfAppend
  <2> QED  BY <1>4, <1>5, <2>1 DEF Unsealed
<1> QED  BY <1>2, <1>3, <1>4, <1>5, <1>6 DEF Mirror

\* The new checkpoint covers the whole log, and the batch is empty again.
LEMMA CheckpointMirrored ==
  ASSUME EvidenceInv, damage = 0, Mirror, AppendCheckpoint
  PROVE  Mirror'
<1>1. pc = "cpAppend" /\ pending # <<>> /\ ~error
  BY DEF AppendCheckpoint, EvidenceInv, TypeInv, InHand, Places
<1>2. /\ cps = cpLog /\ knownHead = head /\ Covered \in 0..Len(log) /\ pending = Unsealed
  BY <1>1 DEF Mirror, Collecting, Boot
<1>3. /\ log \in Seq(Entry \cup {Damaged}) /\ Len(log) \in Nat
      /\ cpLog \in Seq(Checkpoint \cup {Damaged}) /\ pending \in Seq(Entry)
  BY DEF EvidenceInv, TypeInv, TypeOK
<1>4. LinesDecode /\ LogSound
  BY <1>1, InvUnfolds DEF MemorySound
<1>5. Covered < Len(log) /\ pending[Len(pending)] = log[Len(log)]
  <2>1. Covered < Len(log)
    <3>1. Covered = Len(log) => Unsealed = <<>>
      BY <1>3, SubSeqEmpty DEF Unsealed
    <3> QED  BY <1>1, <1>2, <1>3, <3>1
  <2>2. \A i \in (Covered + 1)..Len(log) : log[i] \in Entry \cup {Damaged}
    BY <1>2, <1>3
  <2>3. /\ Len(Unsealed) = Len(log) - Covered
        /\ \A i \in 1..(Len(log) - Covered) : Unsealed[i] = log[Covered + i]
    BY <1>2, <1>3, <2>1, <2>2, SubSeqProperties DEF Unsealed
  <2> QED  BY <1>2, <1>3, <2>1, <2>3
<1>6. NewCheckpoint.end = Len(log) - 1
  <2>1. log[Len(log)].seq = Len(log) - 1
    BY <1>2, <1>3, <1>4, <1>5 DEF LinesDecode, LogSound
  <2> QED  BY <1>5, <2>1 DEF NewCheckpoint
<1>7. /\ cpLog' = Append(cpLog, NewCheckpoint) /\ cps' = Append(cps, NewCheckpoint)
      /\ pending' = <<>> /\ UNCHANGED <<log, head, knownHead>>
  BY DEF AppendCheckpoint, NextBatch, eventStore, anchor
<1>8. Covered' = Len(log)
  <2>1. NewCheckpoint \in Checkpoint
    BY <1>1, NewCheckpointType DEF EvidenceInv, TypeInv, TypeOK
  <2>2. cpLog' # <<>> /\ cpLog'[Len(cpLog')] = NewCheckpoint
    <3> DEFINE S == Checkpoint \cup {Damaged}
    <3>1. cpLog \in Seq(S) /\ NewCheckpoint \in S
      BY <1>3, <2>1
    <3>2. ASSUME NEW cp \in S, NEW s \in Seq(S)
          PROVE  Append(s, cp) # <<>> /\ Append(s, cp)[Len(Append(s, cp))] = cp
      OBVIOUS
    <3> HIDE DEF S
    <3> QED  BY <1>7, <3>1, <3>2
  <2> QED  BY <1>3, <1>6, <2>2 DEF Covered
<1>9. Unsealed' = <<>>
  <2>1. SubSeq(log, Len(log) + 1, Len(log)) = <<>>
    BY <1>3, SubSeqEmpty
  <2> QED  BY <1>7, <1>8, <2>1 DEF Unsealed
<1> QED  BY <1>2, <1>3, <1>7, <1>8, <1>9 DEF Mirror

LEMMA MirrorStep == EvidenceInv /\ Mirror /\ [Next]_vars => Mirror'
<1> SUFFICES ASSUME EvidenceInv, Mirror, [Next]_vars, damage' = 0, Collecting' PROVE Mirror'
  BY DEF Mirror
<1>1. damage = 0 /\ ~Damage
  BY DamageStays
<1>2. CASE KeepsBoth
  BY <1>1, <1>2, CoveredIsLocal DEF KeepsBoth, Mirror
<1>3. CASE Rebuilds
  BY <1>3, RebuildsMirror DEF EvidenceInv
<1>4. CASE AppendEvent
  BY <1>1, <1>4, EventMirrored
<1>5. CASE AppendCheckpoint
  BY <1>1, <1>5, CheckpointMirrored
<1> QED  BY <1>1, <1>2, <1>3, <1>4, <1>5, StepsOfMemory DEF EvidenceInv

\* What collection goes on top of is sound: between two operations, a process
\* that collects has in memory the length, the identifiers, the batch, the
\* checkpoints and the head that are on disk, through crashes, failed writes
\* and restarts.
THEOREM MemoryIsTrue == Spec => []MemoryMatchesDisk
<1>1. Init => Mirror
  BY DEF Init, Found, Mirror, Collecting, Boot
<1>2. EvidenceInv /\ Mirror => MemoryMatchesDisk
  <2> SUFFICES ASSUME EvidenceInv, Mirror, damage = 0, pc = "idle", ~error
               PROVE  /\ seq = Len(log) /\ cps = cpLog /\ knownHead = head
                      /\ ids = {[id |-> log[i].event.id, seq |-> i - 1] : i \in 1..Len(log)}
                      /\ pending = SubSeq(log, Covered + 1, Len(log))
    BY DEF MemoryMatchesDisk
  <2>1. cps = cpLog /\ knownHead = head /\ pending = SubSeq(log, Covered + 1, Len(log))
    BY DEF Mirror, Collecting, Boot, Unsealed
  <2>2. LinesDecode /\ LogSound /\ seq = Len(log) /\ ids = IdsOfLog
    BY InvUnfolds DEF MemorySound
  <2>3. \A i \in 1..Len(log) : log[i].seq = i - 1
    BY <2>2 DEF LinesDecode, LogSound
  <2>4. IdsOfLog = {[id |-> log[i].event.id, seq |-> i - 1] : i \in 1..Len(log)}
    BY <2>3 DEF IdsOfLog
  <2> QED  BY <2>1, <2>2, <2>4
<1> QED  BY <1>1, <1>2, MirrorStep, EvidenceAlways, PTL DEF Spec

-----------------------------------------------------------------------------
(* No false alarm.  While nothing is damaged and no sequence of writes is    *)
(* cut short, everything verify_chain compares agrees: the lines with each   *)
(* other, the checkpoints with the lines, the archive with both and, except  *)
(* while an operation renews it, the signed head.                            *)

Clean == damage = 0 /\ ~interrupted

LastOfLog == IF log = <<>> THEN <<>> ELSE log[Len(log)].hash
FilesOfLog == {EventFile(log[i]) : i \in 1..Len(log)}
FilesOfCps == {CheckpointFile(cpLog[k]) : k \in 1..Len(cpLog)}

LineLinked(i) ==
  /\ log[i] # Damaged
  /\ log[i].prev = IF i = 1 THEN <<>> ELSE log[i - 1].hash
  /\ log[i].hash = Digest(log[i])
Linked == \A i \in 1..Len(log) : LineLinked(i)

CheckpointSealed(k) ==
  LET cp == cpLog[k] IN
  /\ cp # Damaged
  /\ cp.cpSeq = k - 1
  /\ cp.start = IF k = 1 THEN 0 ELSE cpLog[k - 1].end + 1
  /\ cp.leaves # <<>>
  /\ cp.end = cp.start + Len(cp.leaves) - 1
  /\ cp.prev = IF k = 1 THEN <<>> ELSE DigestOfCheckpoint(cpLog[k - 1])
  /\ cp.end < Len(log)
  /\ \A j \in 1..Len(cp.leaves) : Digest(log[cp.start + j]) = cp.leaves[j]
Sealed == \A k \in 1..Len(cpLog) : CheckpointSealed(k)

HeadCurrent == HeadOK /\ head.cpCount = Len(cpLog)

Unimported ==
  /\ head = Absent
  /\ ~marker /\ ~expectsAnchor
  /\ pc \in Boot \cup {"import", "importCp", "initHead"}
  /\ arc \subseteq FilesOfLog /\ cpArc \subseteq FilesOfCps
  /\ pc \in {"importCp", "initHead"} => FilesOfLog \subseteq arc
  /\ pc = "initHead" => FilesOfCps \subseteq cpArc
  /\ pubFile = IF pc \in {"down", "key", "pub"} THEN 0 ELSE keyFile
  /\ pc = "key" => keyFile = 0
  /\ keyFile = 0 => pc \in {"down", "key"} /\ log = <<>> /\ cpLog = <<>> /\ arc = {}

Imported ==
  /\ head \in SignedHead
  /\ pc \notin {"key", "import", "importCp", "initHead"}
  /\ keyFile # 0 /\ pubFile = keyFile
  /\ arc = IF pc = "append" THEN FilesOfLog \cup {EventFile(cur)} ELSE FilesOfLog
  /\ cpArc = IF pc = "cpAppend" THEN FilesOfCps \cup {CheckpointFile(NewCheckpoint)}
             ELSE FilesOfCps
  /\ pc \notin {"cpStore", "cpAppend", "head"} => HeadCurrent

InMemory ==
  /\ ~error /\ ~startupError
  /\ pc \in Boot => knownHead = Absent
  /\ pc \notin Boot => lastHash = LastOfLog
  /\ pc \in {"store", "append"} => cur.prev = LastOfLog /\ cur.hash = Digest(cur)

Intact == Linked /\ Sealed /\ InMemory /\ (Unimported \/ Imported)
IntactInv == Clean => Intact

-----------------------------------------------------------------------------
(* What is intact verifies.                                                  *)

LEMMA FilesCounted ==
  ASSUME TypeInv, LogSound, Linked
  PROVE  IsFiniteSet(FilesOfLog) /\ Cardinality(FilesOfLog) = Len(log)
<1> DEFINE f == [i \in 1..Len(log) |-> EventFile(log[i])]
<1>1. Len(log) \in Nat
  BY DEF TypeInv, TypeOK
<1>2. \A i \in 1..Len(log) : f[i].seq = i - 1
  BY DEF LogSound, Linked, LineLinked, EventFile
<1>3. FilesOfLog = {f[i] : i \in 1..Len(log)}
  BY DEF FilesOfLog
<1>4. \A i, j \in 1..Len(log) : f[i] = f[j] => i = j
  BY <1>2
<1> HIDE DEF f
<1> QED  BY <1>1, <1>3, <1>4, CountOfImage

LEMMA CheckpointFilesCounted ==
  ASSUME TypeInv, Sealed
  PROVE  IsFiniteSet(FilesOfCps) /\ Cardinality(FilesOfCps) = Len(cpLog)
<1> DEFINE f == [k \in 1..Len(cpLog) |-> CheckpointFile(cpLog[k])]
<1>1. Len(cpLog) \in Nat
  BY DEF TypeInv, TypeOK
<1>2. \A k \in 1..Len(cpLog) : f[k].seq = k - 1
  BY DEF Sealed, CheckpointSealed, CheckpointFile
<1>3. FilesOfCps = {f[k] : k \in 1..Len(cpLog)}
  BY DEF FilesOfCps
<1>4. \A k, l \in 1..Len(cpLog) : f[k] = f[l] => k = l
  BY <1>2
<1> HIDE DEF f
<1> QED  BY <1>1, <1>3, <1>4, CountOfImage

\* The file of each number is the file of that line.
LEMMA FilesAtPlaces ==
  ASSUME TypeInv, LogSound, Linked, arc \subseteq FilesOfLog, NEW i \in 1..Len(log)
  PROVE  /\ FilesAt(i - 1) \subseteq {EventFile(log[i])}
         /\ FilesOfLog \subseteq arc => FilesAt(i - 1) # {}
<1>1. \A j \in 1..Len(log) : EventFile(log[j]).seq = j - 1
  BY DEF LogSound, Linked, LineLinked, EventFile
<1>2. EventFile(log[i]) \in FilesOfLog
  BY DEF FilesOfLog
<1>3. ASSUME NEW f \in FilesAt(i - 1) PROVE f = EventFile(log[i])
  <2>1. PICK j \in 1..Len(log) : f = EventFile(log[j])
    BY <1>3 DEF FilesAt, FilesOfLog
  <2> QED  BY <1>1, <1>3, <2>1 DEF FilesAt
<1> QED  BY <1>1, <1>2, <1>3 DEF FilesAt

LEMMA CheckpointFilesAtPlaces ==
  ASSUME TypeInv, Sealed, cpArc \subseteq FilesOfCps, NEW k \in 1..Len(cpLog)
  PROVE  /\ CheckpointFilesAt(k - 1) \subseteq {CheckpointFile(cpLog[k])}
         /\ FilesOfCps \subseteq cpArc => CheckpointFilesAt(k - 1) # {}
<1>1. \A l \in 1..Len(cpLog) : CheckpointFile(cpLog[l]).seq = l - 1
  BY DEF Sealed, CheckpointSealed, CheckpointFile
<1>2. CheckpointFile(cpLog[k]) \in FilesOfCps
  BY DEF FilesOfCps
<1>3. ASSUME NEW f \in CheckpointFilesAt(k - 1) PROVE f = CheckpointFile(cpLog[k])
  <2>1. PICK l \in 1..Len(cpLog) : f = CheckpointFile(cpLog[l])
    BY <1>3 DEF CheckpointFilesAt, FilesOfCps
  <2> QED  BY <1>1, <1>3, <2>1 DEF CheckpointFilesAt
<1> QED  BY <1>1, <1>2, <1>3 DEF CheckpointFilesAt

LEMMA CoveredWithin ==
  ASSUME TypeInv, Sealed
  PROVE  Covered \in 0..Len(log)
<1>1. cpLog \in Seq(Checkpoint \cup {Damaged}) /\ Len(log) \in Nat
  BY DEF TypeInv, TypeOK
<1>2. CASE cpLog = <<>>
  BY <1>1, <1>2 DEF Covered
<1>3. CASE cpLog # <<>>
  <2> DEFINE cp == cpLog[Len(cpLog)]
  <2>1. Len(cpLog) \in 1..Len(cpLog)
    BY <1>1, <1>3
  <2>2. cp \in Checkpoint /\ CheckpointSealed(Len(cpLog))
    <3>1. CheckpointSealed(Len(cpLog))
      BY <2>1 DEF Sealed
    <3>2. cp # Damaged
      BY <3>1 DEF CheckpointSealed
    <3> QED  BY <1>1, <2>1, <3>1, <3>2
  <2>3. cp.start \in Nat /\ cp.leaves \in Seq(Hash) /\ cp.end \in Int
    BY <2>2 DEF Checkpoint
  <2>4. cp.leaves # <<>> /\ cp.end = cp.start + Len(cp.leaves) - 1 /\ cp.end < Len(log)
    BY <2>2 DEF CheckpointSealed
  <2> HIDE DEF cp
  <2>5. cp.end >= 0
    BY <2>3, <2>4
  <2>6. Covered = cp.end + 1
    BY <1>3 DEF Covered, cp
  <2> QED  BY <1>1, <2>3, <2>4, <2>5, <2>6
<1> QED  BY <1>2, <1>3

\* The two kinds of evidence verify_chain finds in order: not yet imported,
\* with no more files than lines, or complete under a current head.
NothingAnchored ==
  /\ head = Absent /\ ~marker /\ knownHead = Absent /\ ~expectsAnchor
  /\ arc \subseteq FilesOfLog /\ cpArc \subseteq FilesOfCps
AllAnchored ==
  /\ head \in SignedHead /\ pubFile # 0
  /\ arc = FilesOfLog /\ cpArc = FilesOfCps
  /\ HeadCurrent

LEMMA IntactVerifies ==
  ASSUME TypeInv, LogSound, Linked, Sealed, ~startupError,
         knownHead # Absent => head = knownHead,
         NothingAnchored \/ AllAnchored
  PROVE  VerifyOK
<1>1. /\ Len(log) \in Nat /\ Len(cpLog) \in Nat
      /\ arc \subseteq FilesOfLog /\ cpArc \subseteq FilesOfCps
  BY DEF TypeInv, TypeOK, NothingAnchored, AllAnchored
<1>2. Anchored => head \in SignedHead /\ pubFile # 0 /\ arc = FilesOfLog /\ cpArc = FilesOfCps
  BY DEF Anchored, NothingAnchored, AllAnchored
<1>3. BaselineOK
  BY <1>2, MarkersAssumption DEF BaselineOK, NothingAnchored, AllAnchored
<1>4. LinesDecode
  BY DEF LinesDecode, Linked, LineLinked
<1>5. IsFiniteSet(FilesOfLog) /\ Cardinality(FilesOfLog) = Len(log)
  BY FilesCounted
<1>6. IsFiniteSet(FilesOfCps) /\ Cardinality(FilesOfCps) = Len(cpLog)
  BY CheckpointFilesCounted
<1>7. /\ Cardinality(arc) <= Len(log) /\ Cardinality(cpArc) <= Len(cpLog)
      /\ Cardinality(cpArc) \in Nat
  BY <1>1, <1>5, <1>6, FS_Subset, FS_CardinalityType
<1>8. CheckpointsOK
  <2>1. Len(cpLog) = ExpectedCheckpoints
    BY <1>1, <1>7, MarkersAssumption
       DEF ExpectedCheckpoints, NothingAnchored, AllAnchored, HeadCurrent
  <2>2. Anchored => Cardinality(cpArc) = ExpectedCheckpoints
    BY <1>2, <1>6, <2>1
  <2>3. \A k \in 1..Len(cpLog) : CheckpointOK(k) /\ cpLog[k] # Damaged
    BY <1>1, <1>2, CheckpointFilesAtPlaces DEF Sealed, CheckpointSealed, CheckpointOK
  <2>4. \A k \in 1..Len(cpLog) : \A j \in 1..Len(cpLog[k].leaves) :
          Digest(log[cpLog[k].start + j]) = cpLog[k].leaves[j]
    BY DEF Sealed, CheckpointSealed
  <2>5. Covered <= Len(log)
    BY <1>1, CoveredWithin
  <2> QED  BY <2>1, <2>2, <2>3, <2>4, <2>5 DEF CheckpointsOK
<1>9. EntriesOK
  <2>1. Anchored => Cardinality(arc) = Len(log)
    BY <1>2, <1>5
  <2>2. ASSUME NEW i \in 1..Len(log) PROVE EntryOK(i)
    <3>1. log[i].seq = i - 1 /\ LineLinked(i)
      BY DEF Linked, LineLinked, LogSound
    <3>2. \A j \in 1..(i - 1) : log[j].event.id # log[i].event.id
      BY <1>1 DEF Linked, LineLinked, LogSound
    <3>3. FilesAt(i - 1) \subseteq {EventFile(log[i])} /\ (Anchored => FilesAt(i - 1) # {})
      BY <1>1, <1>2, FilesAtPlaces
    <3> QED  BY <3>1, <3>2, <3>3 DEF EntryOK, LineLinked
  <2> QED  BY <1>7, <2>1, <2>2 DEF EntriesOK
<1>10. head # Absent => HeadOK
  BY DEF NothingAnchored, AllAnchored, HeadCurrent
<1> QED  BY <1>3, <1>4, <1>8, <1>9, <1>10 DEF VerifyOK

-----------------------------------------------------------------------------
(* What keeps the evidence intact.                                           *)

LEMMA LinesTyped ==
  ASSUME TypeInv
  PROVE  /\ Linked => log \in Seq(Entry) /\ \A i \in 1..Len(log) : log[i] \in Entry
         /\ Sealed => cpLog \in Seq(Checkpoint) /\ \A k \in 1..Len(cpLog) : cpLog[k] \in Checkpoint
<1>1. log \in Seq(Entry \cup {Damaged}) /\ cpLog \in Seq(Checkpoint \cup {Damaged})
  BY DEF TypeInv, TypeOK
<1>2. ASSUME Linked PROVE \A i \in 1..Len(log) : log[i] \in Entry
  BY <1>1, <1>2 DEF Linked, LineLinked
<1>3. ASSUME Sealed PROVE \A k \in 1..Len(cpLog) : cpLog[k] \in Checkpoint
  BY <1>1, <1>3 DEF Sealed, CheckpointSealed
<1> QED  BY <1>1, <1>2, <1>3, IsASeq

LEMMA LinesStay ==
  ASSUME UNCHANGED <<log, cpLog>>
  PROVE  /\ Linked => Linked'
         /\ Sealed => Sealed'
         /\ FilesOfLog' = FilesOfLog /\ FilesOfCps' = FilesOfCps
         /\ LastOfLog' = LastOfLog /\ Covered' = Covered
<1>1. Linked => Linked'
  BY DEF Linked, LineLinked
<1>2. Sealed => Sealed'
  BY DEF Sealed, CheckpointSealed
<1> QED  BY <1>1, <1>2 DEF FilesOfLog, FilesOfCps, LastOfLog, Covered

LEMMA HeadStays ==
  ASSUME UNCHANGED <<log, cpLog, head>>, HeadCurrent
  PROVE  HeadCurrent'
<1>1. Covered' = Covered
  BY DEF Covered
<1> QED  BY <1>1 DEF HeadCurrent, HeadOK

\* A signature over the memory of a process that collects is a signature over
\* what is on disk.
LEMMA HeadWritten ==
  ASSUME TypeInv, LogSound, Linked, Sealed,
         cps = cpLog, pending = Unsealed, seq = Len(log), lastHash = LastOfLog,
         head' = NewHead, UNCHANGED <<log, cpLog>>
  PROVE  head' \in SignedHead /\ HeadCurrent'
<1>1. NewHead \in SignedHead
  BY NewHeadType DEF TypeInv, TypeOK
<1>2. Len(log) \in Nat /\ Covered \in 0..Len(log) /\ Covered' = Covered
  BY CoveredWithin DEF TypeInv, TypeOK, Covered
<1>3. /\ log \in Seq(Entry) /\ \A i \in 1..Len(log) : log[i] \in Entry
  BY LinesTyped
<1>4. /\ Len(Unsealed) = Len(log) - Covered
      /\ \A j \in 1..(Len(log) - Covered) : Unsealed[j] = log[Covered + j]
  <2>1. \A i \in (Covered + 1)..Len(log) : log[i] \in Entry
    BY <1>2, <1>3
  <2> QED  BY <1>2, <1>3, <2>1, SubSeqProperties DEF Unsealed
<1>5. /\ NewHead.total = Len(log) /\ NewHead.lastHash = LastOfLog
      /\ NewHead.cpCount = Len(cpLog)
      /\ NewHead.lastCp = IF cpLog = <<>> THEN <<>> ELSE DigestOfCheckpoint(cpLog[Len(cpLog)])
  BY DEF NewHead, SignedTotal
<1>6. /\ Len(NewHead.pending) = Len(log) - Covered
      /\ \A j \in 1..(Len(log) - Covered) : NewHead.pending[j] = log[Covered + j].hash
  <2>1. NewHead.pending = [i \in 1..Len(pending) |-> pending[i].hash]
    BY DEF NewHead
  <2>2. Len(pending) = Len(log) - Covered /\ Len(log) - Covered \in Nat
    BY <1>2, <1>4
  <2> QED  BY <1>4, <2>1, <2>2
<1>7. \A j \in 1..(Len(log) - Covered) : Digest(log[Covered + j]) = NewHead.pending[j]
  <2> SUFFICES ASSUME NEW j \in 1..(Len(log) - Covered)
               PROVE  Digest(log[Covered + j]) = log[Covered + j].hash
    BY <1>6
  <2>1. Covered + j \in 1..Len(log)
    BY <1>2
  <2> QED  BY <2>1 DEF Linked, LineLinked
<1>8. \A entry : Digest(entry)' = Digest(entry)
  BY DEF Digest
<1>9. HeadOK'
  <2>1. head'.total = Covered' + Len(head'.pending) /\ head'.total = Len(log')
    BY <1>2, <1>5, <1>6
  <2>2. \A j \in 1..Len(head'.pending) : Digest(log'[Covered' + j]) = head'.pending[j]
    BY <1>2, <1>6, <1>7
  <2>3. head'.lastHash = IF log' = <<>> THEN <<>> ELSE log'[Len(log')].hash
    BY <1>5 DEF LastOfLog
  <2>4. head'.lastCp = IF cpLog' = <<>> THEN <<>> ELSE DigestOfCheckpoint(cpLog'[Len(cpLog')])
    BY <1>5
  <2> QED  BY <2>1, <2>2, <2>3, <2>4 DEF HeadOK, Digest, DigestOfCheckpoint
<1> QED  BY <1>1, <1>5, <1>9 DEF HeadCurrent

\* The line of an entry that names the last hash is linked to the log.
LEMMA LineLinksOn ==
  ASSUME TypeInv, Linked, Sealed, pc = "append", log' = Append(log, cur), UNCHANGED cpLog,
         cur.prev = LastOfLog, cur.hash = Digest(cur)
  PROVE  /\ Linked' /\ Sealed'
         /\ FilesOfLog' = FilesOfLog \cup {EventFile(cur)}
         /\ LastOfLog' = cur.hash
<1> DEFINE n == Len(log) + 1
<1>1. cur \in Entry /\ cur # Damaged
  BY MarkersAssumption DEF TypeInv, InHand
<1>2. /\ Len(log) \in Nat /\ Len(log') = n /\ log'[n] = cur
      /\ \A i \in 1..Len(log) : log'[i] = log[i]
  BY <1>1, LineAdded
<1>3. \A i \in 1..n : i \in 1..Len(log) \/ i = n
  BY <1>2
<1>4. ASSUME NEW i \in 1..n PROVE LineLinked(i)'
  <2>1. CASE i \in 1..Len(log)
    <3>1. LineLinked(i)
      BY <2>1 DEF Linked
    <3>2. i # 1 => i - 1 \in 1..Len(log)
      BY <1>2, <2>1
    <3> QED  BY <1>2, <2>1, <3>1, <3>2 DEF LineLinked, Digest
  <2>2. CASE i = n
    <3>1. CASE log = <<>>
      <4>1. i = 1
        BY <2>2, <3>1
      <4> QED  BY <1>1, <1>2, <2>2, <3>1, <4>1 DEF LineLinked, LastOfLog, Digest
    <3>2. CASE log # <<>>
      <4>1. i # 1 /\ i - 1 = Len(log) /\ Len(log) \in 1..Len(log)
        BY <1>2, <2>2, <3>2 DEF TypeInv, TypeOK
      <4>2. log'[i - 1] = log[Len(log)]
        BY <1>2, <4>1
      <4> QED  BY <1>1, <1>2, <2>2, <3>2, <4>1, <4>2 DEF LineLinked, LastOfLog, Digest
    <3> QED  BY <3>1, <3>2
  <2> QED  BY <1>3, <2>1, <2>2
<1>5. ASSUME NEW k \in 1..Len(cpLog) PROVE CheckpointSealed(k)'
  <2>1. CheckpointSealed(k)
    BY <1>5 DEF Sealed
  <2> DEFINE cp == cpLog[k]
  <2>2. cp \in Checkpoint
    BY <1>5, LinesTyped
  <2>3. cp.start \in Nat /\ cp.end \in Int /\ Len(cp.leaves) \in Nat
    BY <2>2 DEF Checkpoint
  <2>4. cp.end = cp.start + Len(cp.leaves) - 1 /\ cp.end < Len(log)
    BY <2>1 DEF CheckpointSealed
  <2>5. \A j \in 1..Len(cp.leaves) : cp.start + j \in 1..Len(log)
    BY <1>2, <2>3, <2>4
  <2>6. \A j \in 1..Len(cp.leaves) : Digest(log'[cp.start + j]) = cp.leaves[j]
    BY <1>2, <2>1, <2>5 DEF CheckpointSealed
  <2>7. cp.end < Len(log')
    BY <1>2, <2>3, <2>4
  <2> QED  BY <2>1, <2>6, <2>7 DEF CheckpointSealed, Digest, DigestOfCheckpoint
<1>6. FilesOfLog' = FilesOfLog \cup {EventFile(cur)}
  <2>1. {EventFile(log'[i]) : i \in 1..n} = {EventFile(log'[i]) : i \in 1..Len(log)} \cup {EventFile(log'[n])}
    BY <1>2, <1>3
  <2>2. {EventFile(log'[i]) : i \in 1..Len(log)} = FilesOfLog
    BY <1>2 DEF FilesOfLog
  <2> QED  BY <1>2, <2>1, <2>2 DEF FilesOfLog, EventFile
<1>7. LastOfLog' = cur.hash
  <2>1. log' # <<>>
    BY <1>1, <1>2
  <2> QED  BY <1>2, <2>1 DEF LastOfLog
<1> QED  BY <1>2, <1>4, <1>5, <1>6, <1>7 DEF Linked, Sealed

\* A checkpoint over the unsealed lines continues the checkpoints.
LEMMA CheckpointSealsOn ==
  ASSUME TypeInv, LogSound, Linked, Sealed,
         cps = cpLog, pending = Unsealed, pending # <<>>,
         cpLog' = Append(cpLog, NewCheckpoint), UNCHANGED log
  PROVE  /\ Linked' /\ Sealed'
         /\ FilesOfCps' = FilesOfCps \cup {CheckpointFile(NewCheckpoint)}
<1> DEFINE n == Len(cpLog) + 1
           new == NewCheckpoint
<1>1. /\ Len(log) \in Nat /\ Covered \in 0..Len(log)
      /\ cpLog \in Seq(Checkpoint \cup {Damaged}) /\ Len(cpLog) \in Nat
  BY CoveredWithin DEF TypeInv, TypeOK
<1>2. log \in Seq(Entry) /\ \A i \in 1..Len(log) : log[i] \in Entry
  BY LinesTyped
<1>3. /\ Covered < Len(log)
      /\ Len(pending) = Len(log) - Covered
      /\ \A j \in 1..(Len(log) - Covered) : pending[j] = log[Covered + j]
  <2>1. Covered = Len(log) => Unsealed = <<>>
    BY <1>1, SubSeqEmpty DEF Unsealed
  <2>2. \A i \in (Covered + 1)..Len(log) : log[i] \in Entry
    BY <1>1, <1>2
  <2> QED  BY <1>1, <1>2, <2>1, <2>2, SubSeqProperties DEF Unsealed
<1>4. /\ new \in Checkpoint /\ new # Damaged
      /\ cpLog' = Append(cpLog, new)
  BY NewCheckpointType, MarkersAssumption DEF TypeInv, TypeOK
<1>5. /\ Len(cpLog') = n /\ cpLog'[n] = new
      /\ \A k \in 1..Len(cpLog) : cpLog'[k] = cpLog[k]
  <2> DEFINE S == Checkpoint \cup {Damaged}
  <2>1. cpLog \in Seq(S) /\ new \in S
    BY <1>1, <1>4
  <2> HIDE DEF S, new
  <2> QED  BY <1>4, <2>1
<1>6. \A k \in 1..n : k \in 1..Len(cpLog) \/ k = n
  BY <1>1
<1>7. /\ new.cpSeq = Len(cpLog) /\ new.start = Covered /\ new.end = Len(log) - 1
      /\ Len(new.leaves) = Len(log) - Covered
      /\ \A j \in 1..(Len(log) - Covered) : new.leaves[j] = log[Covered + j].hash
      /\ new.prev = IF cpLog = <<>> THEN <<>> ELSE DigestOfCheckpoint(cpLog[Len(cpLog)])
  <2>1. new.cpSeq = Len(cpLog)
    BY DEF NewCheckpoint
  <2>2. new.prev = IF cpLog = <<>> THEN <<>> ELSE DigestOfCheckpoint(cpLog[Len(cpLog)])
    BY DEF NewCheckpoint
  <2>3. new.leaves = [i \in 1..Len(pending) |-> pending[i].hash]
    BY DEF NewCheckpoint
  <2>4. new.start = pending[1].seq /\ new.end = pending[Len(pending)].seq
    BY DEF NewCheckpoint
  <2>5. \A i \in 1..Len(log) : log[i].seq = i - 1
    BY DEF LogSound, Linked, LineLinked
  <2>6. pending[1] = log[Covered + 1] /\ pending[Len(pending)] = log[Len(log)]
    BY <1>1, <1>3
  <2> HIDE DEF new
  <2>7. new.start = Covered /\ new.end = Len(log) - 1
    <3>1. Covered + 1 \in 1..Len(log) /\ Len(log) \in 1..Len(log)
      BY <1>1, <1>3
    <3>2. log[Covered + 1].seq = Covered /\ log[Len(log)].seq = Len(log) - 1
      BY <1>1, <2>5, <3>1
    <3> QED  BY <2>4, <2>6, <3>2
  <2>8. /\ Len(new.leaves) = Len(log) - Covered
        /\ \A j \in 1..(Len(log) - Covered) : new.leaves[j] = log[Covered + j].hash
    <3>1. new.leaves = [i \in 1..(Len(log) - Covered) |-> pending[i].hash]
      BY <1>3, <2>3
    <3>2. Len(log) - Covered \in Nat
      BY <1>1
    <3>3. Len(new.leaves) = Len(log) - Covered
      BY <3>1, <3>2
    <3> QED  BY <1>3, <3>1, <3>3
  <2> QED  BY <2>1, <2>2, <2>7, <2>8
<1> HIDE DEF new
<1>8. Linked'
  BY DEF Linked, LineLinked
<1>9. ASSUME NEW k \in 1..Len(cpLog) PROVE CheckpointSealed(k)'
  <2>1. CheckpointSealed(k) /\ cpLog'[k] = cpLog[k]
    BY <1>5, <1>9 DEF Sealed
  <2>2. k # 1 => cpLog'[k - 1] = cpLog[k - 1]
    BY <1>1, <1>5, <1>9
  <2> QED  BY <2>1, <2>2 DEF CheckpointSealed, Digest, DigestOfCheckpoint
<1>10. ASSUME NEW k \in 1..n, k = n PROVE CheckpointSealed(k)'
  <2>1. \A j \in 1..Len(new.leaves) : Digest(log[new.start + j]) = new.leaves[j]
    <3>1. \A j \in 1..(Len(log) - Covered) : Covered + j \in 1..Len(log)
      BY <1>1
    <3> QED  BY <1>7, <3>1 DEF Linked, LineLinked
  <2>2. new.leaves # <<>> /\ new.end = new.start + Len(new.leaves) - 1 /\ new.end < Len(log)
    <3>1. Len(new.leaves) > 0
      BY <1>1, <1>3, <1>7
    <3> QED  BY <1>1, <1>7, <3>1
  <2>3. new.start = IF n = 1 THEN 0 ELSE cpLog'[n - 1].end + 1
    <3>1. CASE cpLog = <<>>
      BY <1>7, <3>1 DEF Covered
    <3>2. CASE cpLog # <<>>
      <4>1. n # 1 /\ n - 1 = Len(cpLog) /\ Len(cpLog) \in 1..Len(cpLog)
        BY <1>1, <3>2
      <4> QED  BY <1>5, <1>7, <3>2, <4>1 DEF Covered
    <3> QED  BY <3>1, <3>2
  <2>4. new.prev = IF n = 1 THEN <<>> ELSE DigestOfCheckpoint(cpLog'[n - 1])
    <3>1. CASE cpLog = <<>>
      BY <1>7, <3>1
    <3>2. CASE cpLog # <<>>
      <4>1. n # 1 /\ n - 1 = Len(cpLog) /\ Len(cpLog) \in 1..Len(cpLog)
        BY <1>1, <3>2
      <4> QED  BY <1>5, <1>7, <3>2, <4>1
    <3> QED  BY <3>1, <3>2
  <2>5. new.cpSeq = n - 1 /\ n - 1 \in Nat
    BY <1>1, <1>7
  <2>6. cpLog'[k] = new /\ (k = 1 <=> n = 1) /\ k - 1 = n - 1
    BY <1>5, <1>10
  <2>7. \A e : Digest(e)' = Digest(e)
    BY DEF Digest
  <2>8. \A j \in 1..Len(new.leaves) : Digest(log'[new.start + j]) = new.leaves[j]
    BY <2>1
  <2>9. new.end < Len(log') /\ new.cpSeq = k - 1 /\ cpLog'[k] # Damaged
    BY <1>4, <2>2, <2>5, <2>6
  <2>10. new.start = IF k = 1 THEN 0 ELSE cpLog'[k - 1].end + 1
    BY <2>3, <2>6
  <2>11. new.prev = IF k = 1 THEN <<>> ELSE DigestOfCheckpoint(cpLog'[k - 1])
    BY <2>4, <2>6
  <2> QED  BY <2>2, <2>6, <2>8, <2>9, <2>10, <2>11 DEF CheckpointSealed, Digest, DigestOfCheckpoint
<1>11. Sealed'
  <2>1. \A k \in 1..n : CheckpointSealed(k)'
    BY <1>6, <1>9, <1>10
  <2> QED  BY <1>5, <2>1 DEF Sealed
<1>12. FilesOfCps' = FilesOfCps \cup {CheckpointFile(new)}
  <2>1. {CheckpointFile(cpLog'[k]) : k \in 1..n}
          = {CheckpointFile(cpLog'[k]) : k \in 1..Len(cpLog)} \cup {CheckpointFile(cpLog'[n])}
    BY <1>1, <1>6
  <2>2. {CheckpointFile(cpLog'[k]) : k \in 1..Len(cpLog)} = FilesOfCps
    BY <1>5 DEF FilesOfCps
  <2> QED  BY <1>5, <2>1, <2>2 DEF FilesOfCps, CheckpointFile
<1> QED  BY <1>8, <1>11, <1>12 DEF new

-----------------------------------------------------------------------------
(* The steps keep the evidence intact.                                       *)

LEMMA IntactUnfolds ==
  ASSUME EvidenceInv, Mirror, Clean, Intact
  PROVE  /\ TypeInv /\ Places /\ LogSound /\ Linked /\ Sealed /\ ~error /\ ~startupError
         /\ EntrySound
         /\ pc \in Boot => knownHead = Absent
         /\ pc \notin Boot =>
              /\ cps = cpLog /\ knownHead = head /\ pending = Unsealed
              /\ seq = Len(log) /\ ids = IdsOfLog /\ lastHash = LastOfLog
         /\ Unimported \/ Imported
<1>1. /\ TypeInv /\ Places /\ LogSound /\ EntrySound /\ MemorySound
      /\ Linked /\ Sealed /\ ~error /\ ~startupError
  BY InvUnfolds DEF Clean, Intact, InMemory
<1>2. pc \notin Boot => cps = cpLog /\ knownHead = head /\ pending = Unsealed
  BY <1>1 DEF Mirror, Collecting, Clean
<1>3. pc \notin Boot => seq = Len(log) /\ ids = IdsOfLog
  BY <1>1 DEF MemorySound, Boot
<1> QED  BY <1>1, <1>2, <1>3 DEF Intact, InMemory

\* Between two operations, and when it starts, a process finds no issue.
LEMMA QuietVerifies ==
  ASSUME EvidenceInv, Mirror, Clean, Intact, pc \in {"idle", "replay", "marker"}
  PROVE  VerifyOK
<1>1. NothingAnchored \/ AllAnchored
  BY IntactUnfolds DEF Unimported, Imported, NothingAnchored, AllAnchored, Boot
<1>2. knownHead # Absent => head = knownHead
  BY IntactUnfolds
<1> QED  BY <1>1, <1>2, IntactUnfolds, IntactVerifies

LEMMA IntactKeys ==
  ASSUME EvidenceInv, Mirror, Clean, Intact, Start \/ WriteKey \/ LoadPublicKey
  PROVE  Intact'
<1> USE DEF eventStore, checkpointStore, anchor, keys, memory, flags, history
<1>1. /\ UNCHANGED <<log, arc, cpLog, cpArc, head, marker, knownHead, lastHash, cur>>
      /\ pc \in {"down", "key", "pub"} /\ pc' \in {"key", "pub", "replay"}
  BY DEF Start, WriteKey, LoadPublicKey
<1>2. Linked' /\ Sealed' /\ FilesOfLog' = FilesOfLog /\ FilesOfCps' = FilesOfCps
  BY <1>1, IntactUnfolds, LinesStay
<1>3. CASE Unimported
  <2>1. pubFile = 0 /\ keyFile \in Nat /\ ~marker /\ head = Absent /\ ~expectsAnchor
    BY <1>1, <1>3, IntactUnfolds DEF Unimported, TypeInv, TypeOK
  <2>2. keyFile = 0 => pc \in {"down", "key"} /\ log = <<>> /\ cpLog = <<>> /\ arc = {}
    BY <1>3 DEF Unimported
  <2>3. CASE Start
    <3>1. keyFile = 0 => ~Existing
      BY <2>1, <2>2 DEF Existing
    <3>2. /\ ~expectsAnchor' /\ UNCHANGED <<keyFile, pubFile, error, startupError>>
          /\ pc' = IF keyFile # 0 THEN "pub" ELSE "key"
      BY <2>1, <2>3, <3>1 DEF Start, AnchorExpected
    <3>3. Unimported'
      BY <1>1, <1>2, <1>3, <2>1, <2>2, <3>2 DEF Unimported, Boot
    <3>4. InMemory'
      BY <1>1, <3>2, IntactUnfolds DEF InMemory, Boot
    <3> QED  BY <1>2, <3>3, <3>4 DEF Intact
  <2>4. CASE WriteKey
    <3>1. keyFile' = 1 /\ pc' = "pub" /\ UNCHANGED <<pubFile, expectsAnchor, error, startupError>>
      BY <2>1, <2>4 DEF WriteKey
    <3>2. Unimported'
      BY <1>1, <1>2, <1>3, <2>1, <3>1 DEF Unimported, Boot
    <3>3. InMemory'
      BY <1>1, <3>1, IntactUnfolds DEF InMemory, Boot
    <3> QED  BY <1>2, <3>2, <3>3 DEF Intact
  <2>5. CASE LoadPublicKey
    <3>1. pc = "pub"
      BY <2>5 DEF LoadPublicKey
    <3>2. keyFile # 0
      BY <2>2, <3>1
    <3>3. pubFile' = keyFile /\ pc' = "replay"
          /\ UNCHANGED <<keyFile, expectsAnchor, error, startupError>>
      BY <2>1, <2>5, <3>2 DEF LoadPublicKey
    <3>4. Unimported'
      BY <1>1, <1>2, <1>3, <2>1, <3>2, <3>3 DEF Unimported, Boot
    <3>5. InMemory'
      BY <1>1, <3>3, IntactUnfolds DEF InMemory, Boot
    <3> QED  BY <1>2, <3>4, <3>5 DEF Intact
  <2> QED  BY <2>3, <2>4, <2>5
<1>4. CASE Imported
  <2>1. keyFile # 0 /\ pubFile = keyFile /\ pc # "key" /\ HeadCurrent
    BY <1>1, <1>4 DEF Imported
  <2>2. UNCHANGED <<keyFile, pubFile, error, startupError>> /\ pc' \in {"pub", "replay"}
    BY <2>1 DEF Start, WriteKey, LoadPublicKey
  <2>3. HeadCurrent'
    BY <1>1, <2>1, HeadStays
  <2>4. Imported'
    BY <1>1, <1>2, <1>4, <2>1, <2>2, <2>3 DEF Imported
  <2>5. InMemory'
    BY <1>1, <2>2, IntactUnfolds DEF InMemory, Boot
  <2> QED  BY <1>2, <2>4, <2>5 DEF Intact
<1> QED  BY <1>3, <1>4, IntactUnfolds

LEMMA IntactReplay ==
  ASSUME EvidenceInv, Mirror, Clean, Intact, Replay
  PROVE  Intact'
<1> USE DEF eventStore, checkpointStore, anchor, keys, memory, flags, history
<1>1. pc = "replay" /\ VerifyOK
  BY QuietVerifies DEF Replay
<1>2. /\ UNCHANGED <<log, arc, cpLog, cpArc, head, marker, keyFile, pubFile, expectsAnchor,
                     error, startupError>>
      /\ lastHash' = LastOfLog
      /\ pc' = IF head # Absent \/ marker THEN "idle" ELSE "import"
  BY <1>1 DEF Replay, LastOfLog
<1>3. /\ Linked' /\ Sealed' /\ FilesOfLog' = FilesOfLog /\ FilesOfCps' = FilesOfCps
      /\ LastOfLog' = LastOfLog
  BY <1>2, IntactUnfolds, LinesStay
<1>4. InMemory'
  BY <1>2, <1>3, IntactUnfolds DEF InMemory, Boot
<1>5. CASE Unimported
  <2>1. Unimported'
    BY <1>1, <1>2, <1>3, <1>5 DEF Unimported, Boot
  <2> QED  BY <1>3, <1>4, <2>1 DEF Intact
<1>6. CASE Imported
  <2>1. HeadCurrent'
    BY <1>1, <1>2, <1>6, HeadStays DEF Imported
  <2>2. head # Absent
    BY <1>6, MarkersAssumption DEF Imported
  <2>3. Imported'
    BY <1>1, <1>2, <1>3, <1>6, <2>1, <2>2 DEF Imported
  <2> QED  BY <1>3, <1>4, <2>3 DEF Intact
<1> QED  BY <1>5, <1>6, IntactUnfolds

\* The import only adds the copies that are missing, and goes on when none is.
LEMMA IntactImport ==
  ASSUME EvidenceInv, Mirror, Clean, Intact,
         ImportEntry \/ ImportEntriesDone \/ ImportCheckpoint \/ ImportCheckpointsDone
  PROVE  Intact'
<1> USE DEF eventStore, checkpointStore, anchor, keys, memory, flags, history
<1>1. /\ UNCHANGED <<log, cpLog, head, marker, keyFile, pubFile, expectsAnchor, knownHead,
                     lastHash, cur, error, startupError>>
      /\ pc \in {"import", "importCp"} /\ pc' \in {"import", "importCp", "initHead"}
  BY DEF ImportEntry, ImportEntriesDone, ImportCheckpoint, ImportCheckpointsDone
<1>2. /\ Linked' /\ Sealed' /\ FilesOfLog' = FilesOfLog /\ FilesOfCps' = FilesOfCps
      /\ LastOfLog' = LastOfLog
  BY <1>1, IntactUnfolds, LinesStay
<1>3. InMemory'
  BY <1>1, <1>2, IntactUnfolds DEF InMemory, Boot
<1>4. Unimported
  BY <1>1, IntactUnfolds DEF Imported
<1>5. cps = cpLog
  BY <1>1, IntactUnfolds DEF Boot
<1>6. arc' \subseteq FilesOfLog /\ (pc = "importCp" => UNCHANGED arc)
  BY <1>4 DEF ImportEntry, ImportEntriesDone, ImportCheckpoint, ImportCheckpointsDone,
              Unstored, FilesOfLog, Unimported
<1>7. cpArc' \subseteq FilesOfCps
  BY <1>4, <1>5 DEF ImportEntry, ImportEntriesDone, ImportCheckpoint, ImportCheckpointsDone,
              UnstoredCheckpoints, FilesOfCps, Unimported
<1>8. ASSUME ImportEntriesDone PROVE FilesOfLog \subseteq arc'
  <2>1. Unstored = {} /\ UNCHANGED arc
    BY <1>8 DEF ImportEntriesDone
  <2>2. ASSUME NEW i \in 1..Len(log) PROVE EventFile(log[i]) \in arc
    <3>1. FilesAt(i - 1) # {} /\ FilesAt(i - 1) \subseteq {EventFile(log[i])}
      BY <1>4, <2>1, IntactUnfolds, FilesAtPlaces DEF Unstored, Unimported
    <3> QED  BY <3>1 DEF FilesAt
  <2> QED  BY <2>1, <2>2 DEF FilesOfLog
<1>9. ASSUME ImportCheckpointsDone PROVE FilesOfCps \subseteq cpArc'
  <2>1. UnstoredCheckpoints = {} /\ UNCHANGED cpArc
    BY <1>9 DEF ImportCheckpointsDone
  <2>2. ASSUME NEW k \in 1..Len(cpLog) PROVE CheckpointFile(cpLog[k]) \in cpArc
    <3>1. CheckpointFilesAt(k - 1) # {} /\ CheckpointFilesAt(k - 1) \subseteq {CheckpointFile(cpLog[k])}
      BY <1>4, <1>5, <2>1, IntactUnfolds, CheckpointFilesAtPlaces DEF UnstoredCheckpoints, Unimported
    <3> QED  BY <3>1 DEF CheckpointFilesAt
  <2> QED  BY <2>1, <2>2 DEF FilesOfCps
<1>10. pc' \in {"importCp", "initHead"} => FilesOfLog \subseteq arc'
  BY <1>4, <1>6, <1>8 DEF ImportEntry, ImportEntriesDone, ImportCheckpoint, ImportCheckpointsDone,
              Unimported
<1>11. pc' = "initHead" => FilesOfCps \subseteq cpArc'
  BY <1>9 DEF ImportEntry, ImportEntriesDone, ImportCheckpoint, ImportCheckpointsDone
<1>12. keyFile # 0
  BY <1>1, <1>4 DEF Unimported
<1>13. Unimported'
  BY <1>1, <1>2, <1>4, <1>6, <1>7, <1>10, <1>11, <1>12 DEF Unimported, Boot
<1> QED  BY <1>2, <1>3, <1>13 DEF Intact

LEMMA IntactFirstHead ==
  ASSUME EvidenceInv, Mirror, Clean, Intact, WriteFirstHead
  PROVE  Intact'
<1> USE DEF eventStore, checkpointStore, anchor, keys, memory, flags, history
<1>1. /\ pc = "initHead" /\ pc' = "marker" /\ head' = NewHead
      /\ UNCHANGED <<log, arc, cpLog, cpArc, keyFile, pubFile, lastHash, error, startupError>>
  BY DEF WriteFirstHead, SignHead
<1>2. /\ Linked' /\ Sealed' /\ FilesOfLog' = FilesOfLog /\ FilesOfCps' = FilesOfCps
      /\ LastOfLog' = LastOfLog
  BY <1>1, IntactUnfolds, LinesStay
<1>3. head' \in SignedHead /\ HeadCurrent'
  BY <1>1, IntactUnfolds, HeadWritten DEF Boot
<1>4. InMemory'
  BY <1>1, <1>2, IntactUnfolds DEF InMemory, Boot
<1>5. arc = FilesOfLog /\ cpArc = FilesOfCps /\ keyFile # 0 /\ pubFile = keyFile
  BY <1>1, IntactUnfolds DEF Unimported, Imported
<1>6. Imported'
  BY <1>1, <1>2, <1>3, <1>5 DEF Imported
<1> QED  BY <1>2, <1>4, <1>6 DEF Intact

\* The marker changes nothing that is verified, once there is a head.
LEMMA MarkerVerifies ==
  ASSUME VerifyOK, head # Absent, marker',
         UNCHANGED <<log, arc, cpLog, cpArc, head, pubFile, knownHead, startupError>>
  PROVE  VerifyOK'
<1>1. Anchored /\ Anchored'
  BY DEF Anchored
<1>2. BaselineOK'
  BY <1>1 DEF VerifyOK, BaselineOK
<1>3. LinesDecode' /\ Covered' = Covered /\ ExpectedCheckpoints' = ExpectedCheckpoints
  BY DEF VerifyOK, LinesDecode, Covered, ExpectedCheckpoints
<1>4. (\A n : FilesAt(n)' = FilesAt(n)) /\ (\A n : CheckpointFilesAt(n)' = CheckpointFilesAt(n))
  BY DEF FilesAt, CheckpointFilesAt
<1>5. \A k \in 1..Len(cpLog) : CheckpointOK(k)'
  BY <1>1, <1>4 DEF VerifyOK, CheckpointsOK, CheckpointOK, CheckpointFile, DigestOfCheckpoint
<1>6. CheckpointsOK'
  BY <1>1, <1>3, <1>5 DEF VerifyOK, CheckpointsOK, Digest
<1>7. \A i \in 1..Len(log) : EntryOK(i)'
  BY <1>1, <1>4 DEF VerifyOK, EntriesOK, EntryOK, EventFile, Digest
<1>8. EntriesOK'
  BY <1>1, <1>7 DEF VerifyOK, EntriesOK
<1>9. HeadOK'
  BY <1>3 DEF VerifyOK, HeadOK, Digest, DigestOfCheckpoint
<1> QED  BY <1>2, <1>3, <1>6, <1>8, <1>9 DEF VerifyOK

LEMMA IntactMarker ==
  ASSUME EvidenceInv, Mirror, Clean, Intact, WriteMarker
  PROVE  Intact'
<1> USE DEF eventStore, checkpointStore, anchor, keys, memory, flags, history
<1>1. /\ pc = "marker" /\ pc' = "idle" /\ marker'
      /\ UNCHANGED <<log, arc, cpLog, cpArc, head, keyFile, pubFile, lastHash, knownHead,
                     startupError>>
      /\ error' = (error \/ ~VerifyOK')
  BY Zenon DEF WriteMarker
<1>2. /\ Linked' /\ Sealed' /\ FilesOfLog' = FilesOfLog /\ FilesOfCps' = FilesOfCps
      /\ LastOfLog' = LastOfLog
  BY <1>1, IntactUnfolds, LinesStay
<1>3. Imported
  BY <1>1, IntactUnfolds DEF Unimported, Boot
<1>4. HeadCurrent'
  BY <1>1, <1>3, HeadStays DEF Imported
<1>5. VerifyOK /\ head # Absent
  BY <1>1, <1>3, QuietVerifies, MarkersAssumption DEF Imported
<1>6. VerifyOK'
  BY <1>1, <1>5, MarkerVerifies
<1>7. ~error'
  BY <1>1, <1>6, IntactUnfolds, Zenon
<1>8. InMemory'
  BY <1>1, <1>2, <1>7, IntactUnfolds DEF InMemory, Boot
<1>9. Imported'
  BY <1>1, <1>2, <1>3, <1>4 DEF Imported
<1> QED  BY <1>2, <1>8, <1>9 DEF Intact

\* In an operation, the evidence is imported and memory mirrors it.
LEMMA OperationImported ==
  ASSUME EvidenceInv, Mirror, Clean, Intact, pc \in {"idle"} \cup OperationPcs
  PROVE  /\ Imported
         /\ cps = cpLog /\ knownHead = head /\ pending = Unsealed
         /\ seq = Len(log) /\ ids = IdsOfLog /\ lastHash = LastOfLog
BY IntactUnfolds DEF Unimported, Boot, OperationPcs

LEMMA IntactRecord ==
  ASSUME EvidenceInv, Mirror, Clean, Intact, NEW event \in Event,
         RecordNew(event) \/ RecordAgain(event)
  PROVE  Intact'
<1> USE DEF eventStore, checkpointStore, anchor, keys, memory, flags, history
<1>1. /\ UNCHANGED <<log, arc, cpLog, cpArc, head, keyFile, pubFile, lastHash, knownHead,
                     startupError>>
      /\ pc = "idle" /\ pc' \in {"idle", "store"}
  BY DEF RecordNew, RecordAgain, MayRecord
<1>2. /\ Linked' /\ Sealed' /\ FilesOfLog' = FilesOfLog /\ FilesOfCps' = FilesOfCps
      /\ LastOfLog' = LastOfLog
  BY <1>1, IntactUnfolds, LinesStay
<1>3. Imported /\ lastHash = LastOfLog /\ ids = IdsOfLog
  BY <1>1, OperationImported
<1>4. HeadCurrent'
  BY <1>1, <1>3, HeadStays DEF Imported
<1>5. Imported'
  BY <1>1, <1>2, <1>3, <1>4 DEF Imported
<1>6. InMemory'
  <2>1. CASE RecordNew(event)
    <3>1. cur' = NewEntry(event) /\ UNCHANGED error
      BY <2>1 DEF RecordNew
    <3>2. cur'.prev = LastOfLog' /\ cur'.hash = Digest(cur')
      BY <1>2, <1>3, <3>1 DEF NewEntry, Digest
    <3>3. cur'.hash = Digest(cur)'
      BY <3>2 DEF Digest
    <3> QED  BY <1>1, <1>2, <3>1, <3>2, <3>3, IntactUnfolds DEF InMemory, Boot
  <2>2. CASE RecordAgain(event)
    <3>1. VerifyOK /\ pc' = "idle"
      BY <1>1, <2>2, QuietVerifies DEF RecordAgain
    <3>2. ASSUME NEW k \in ids PROVE FilesAt(k.seq) # {}
      <4>1. PICK i \in 1..Len(log) : k.seq = log[i].seq
        BY <1>3 DEF IdsOfLog
      <4>2. k.seq = i - 1
        BY <4>1, IntactUnfolds DEF LogSound, Linked, LineLinked
      <4>3. arc = FilesOfLog
        BY <1>1, <1>3 DEF Imported
      <4> QED  BY <4>2, <4>3, IntactUnfolds, FilesAtPlaces
    <3>3. UNCHANGED error
      BY <2>2, <3>1, <3>2 DEF RecordAgain
    <3> QED  BY <1>1, <1>2, <3>1, <3>3, IntactUnfolds DEF InMemory, Boot
  <2> QED  BY <2>1, <2>2
<1> QED  BY <1>2, <1>5, <1>6 DEF Intact

LEMMA IntactStore ==
  ASSUME EvidenceInv, Mirror, Clean, Intact, StoreEvent
  PROVE  Intact'
<1> USE DEF eventStore, checkpointStore, anchor, keys, memory, flags, history
<1>1. pc = "store"
  BY DEF StoreEvent
<1>2. Imported /\ arc = FilesOfLog /\ cpArc = FilesOfCps /\ HeadCurrent
  BY <1>1, OperationImported DEF OperationPcs, Imported
<1>3. FilesAt(cur.seq) = {}
  <2>1. cur.seq = Len(log) /\ Len(log) \in Nat
    BY <1>1, IntactUnfolds DEF EntrySound, TypeInv, TypeOK
  <2>2. ASSUME NEW f \in arc PROVE f.seq < Len(log)
    <3>1. PICK i \in 1..Len(log) : f = EventFile(log[i])
      BY <1>2 DEF FilesOfLog
    <3>2. f.seq = i - 1
      BY <3>1, IntactUnfolds DEF EventFile, LogSound, Linked, LineLinked
    <3> QED  BY <2>1, <3>2
  <2>3. \A f \in arc : f.seq # Len(log)
    BY <2>1, <2>2
  <2> QED  BY <2>1, <2>3 DEF FilesAt
<1>4. /\ UNCHANGED <<log, cpLog, cpArc, head, keyFile, pubFile, cur, lastHash, knownHead,
                     error, startupError>>
      /\ pc' = "append" /\ arc' = arc \cup {EventFile(cur)}
  BY <1>3 DEF StoreEvent, Refuse
<1>5. /\ Linked' /\ Sealed' /\ FilesOfLog' = FilesOfLog /\ FilesOfCps' = FilesOfCps
      /\ LastOfLog' = LastOfLog
  BY <1>4, IntactUnfolds, LinesStay
<1>6. InMemory'
  <2>1. cur'.prev = LastOfLog' /\ cur'.hash = Digest(cur)'
    BY <1>1, <1>4, <1>5 DEF Intact, InMemory, Digest
  <2> QED  BY <1>1, <1>4, <1>5, <2>1, IntactUnfolds DEF Intact, InMemory, Boot
<1>7. HeadCurrent' /\ EventFile(cur)' = EventFile(cur)
  BY <1>2, <1>4, HeadStays DEF EventFile
<1>8. Imported'
  BY <1>2, <1>4, <1>5, <1>7 DEF Imported
<1> QED  BY <1>5, <1>6, <1>8 DEF Intact

LEMMA IntactAppend ==
  ASSUME EvidenceInv, Mirror, Clean, Intact, AppendEvent
  PROVE  Intact'
<1> USE DEF eventStore, checkpointStore, anchor, keys, memory, flags, history
<1>1. /\ pc = "append" /\ log' = Append(log, cur) /\ lastHash' = cur.hash
      /\ pc' \in {"cpStore", "head"}
      /\ UNCHANGED <<arc, cpLog, cpArc, head, keyFile, pubFile, knownHead, error, startupError>>
  BY DEF AppendEvent, AfterAppend
<1>2. Imported /\ arc = FilesOfLog \cup {EventFile(cur)} /\ cpArc = FilesOfCps
  BY <1>1, OperationImported DEF OperationPcs, Imported
<1>3. cur.prev = LastOfLog /\ cur.hash = Digest(cur)
  BY <1>1 DEF Intact, InMemory
<1>4. /\ Linked' /\ Sealed' /\ FilesOfLog' = FilesOfLog \cup {EventFile(cur)}
      /\ LastOfLog' = cur.hash
  BY <1>1, <1>3, IntactUnfolds, LineLinksOn
<1>5. FilesOfCps' = FilesOfCps
  BY <1>1 DEF FilesOfCps
<1>6. InMemory'
  BY <1>1, <1>4, IntactUnfolds DEF InMemory, Boot
<1>7. Imported'
  BY <1>1, <1>2, <1>4, <1>5 DEF Imported
<1> QED  BY <1>4, <1>6, <1>7 DEF Intact

LEMMA IntactCheckpoint ==
  ASSUME EvidenceInv, Mirror, Clean, Intact, StoreCheckpoint \/ AppendCheckpoint
  PROVE  Intact'
<1> USE DEF eventStore, checkpointStore, anchor, keys, memory, flags, history
<1>1. pc \in {"cpStore", "cpAppend"}
  BY DEF StoreCheckpoint, AppendCheckpoint
<1>2. /\ Imported /\ arc = FilesOfLog
      /\ cps = cpLog /\ pending = Unsealed /\ lastHash = LastOfLog
  BY <1>1, OperationImported DEF OperationPcs, Imported
<1>3. CASE StoreCheckpoint
  <2>1. pc = "cpStore" /\ cpArc = FilesOfCps
    BY <1>2, <1>3 DEF StoreCheckpoint, Imported
  <2>2. CheckpointFilesAt(Len(cps)) = {}
    <3>1. ASSUME NEW f \in cpArc PROVE f.seq # Len(cpLog)
      <4>1. PICK k \in 1..Len(cpLog) : f = CheckpointFile(cpLog[k])
        BY <2>1 DEF FilesOfCps
      <4>2. f.seq = k - 1 /\ Len(cpLog) \in Nat
        BY <4>1, IntactUnfolds DEF CheckpointFile, Sealed, CheckpointSealed, TypeInv, TypeOK
      <4> QED  BY <4>2
    <3> QED  BY <1>2, <3>1 DEF CheckpointFilesAt
  <2>3. /\ UNCHANGED <<log, arc, cpLog, head, keyFile, pubFile, pending, cps, lastHash, knownHead,
                       error, startupError>>
        /\ pc' = "cpAppend" /\ cpArc' = cpArc \cup {CheckpointFile(NewCheckpoint)}
    BY <1>3, <2>2 DEF StoreCheckpoint, Refuse
  <2>4. /\ Linked' /\ Sealed' /\ FilesOfLog' = FilesOfLog /\ FilesOfCps' = FilesOfCps
        /\ LastOfLog' = LastOfLog
    BY <2>3, IntactUnfolds, LinesStay
  <2>5. CheckpointFile(NewCheckpoint)' = CheckpointFile(NewCheckpoint)
    BY <2>3 DEF CheckpointFile, NewCheckpoint, DigestOfCheckpoint
  <2>6. InMemory'
    BY <1>2, <2>3, <2>4, IntactUnfolds DEF InMemory, Boot
  <2>7. Imported'
    BY <1>2, <2>1, <2>3, <2>4, <2>5 DEF Imported
  <2> QED  BY <2>4, <2>6, <2>7 DEF Intact
<1>4. CASE AppendCheckpoint
  <2>1. /\ pc = "cpAppend" /\ pc' = "head" /\ cpLog' = Append(cpLog, NewCheckpoint)
        /\ UNCHANGED <<log, arc, cpArc, head, keyFile, pubFile, lastHash, knownHead,
                       error, startupError>>
    BY <1>4 DEF AppendCheckpoint
  <2>2. pending # <<>> /\ cpArc = FilesOfCps \cup {CheckpointFile(NewCheckpoint)}
    BY <1>2, <2>1, IntactUnfolds DEF TypeInv, InHand, Imported
  <2>3. Linked' /\ Sealed' /\ FilesOfCps' = FilesOfCps \cup {CheckpointFile(NewCheckpoint)}
    BY <1>2, <2>1, <2>2, IntactUnfolds, CheckpointSealsOn
  <2>4. FilesOfLog' = FilesOfLog /\ LastOfLog' = LastOfLog
    BY <2>1 DEF FilesOfLog, LastOfLog
  <2>5. InMemory'
    BY <1>2, <2>1, <2>4, IntactUnfolds DEF InMemory, Boot
  <2>6. Imported'
    BY <1>2, <2>1, <2>2, <2>3, <2>4 DEF Imported
  <2> QED  BY <2>3, <2>5, <2>6 DEF Intact
<1> QED  BY <1>3, <1>4

LEMMA IntactHead ==
  ASSUME EvidenceInv, Mirror, Clean, Intact, WriteHead
  PROVE  Intact'
<1> USE DEF eventStore, checkpointStore, anchor, keys, memory, flags, history
<1>1. pc = "head"
  BY DEF WriteHead, SignHead
<1>2. /\ Imported /\ arc = FilesOfLog /\ cpArc = FilesOfCps /\ knownHead = head
      /\ cps = cpLog /\ pending = Unsealed /\ seq = Len(log) /\ lastHash = LastOfLog
  BY <1>1, OperationImported DEF OperationPcs, Imported
<1>3. /\ head' = NewHead /\ pc' \in {"idle", "ack"}
      /\ UNCHANGED <<log, arc, cpLog, cpArc, keyFile, pubFile, lastHash, error, startupError>>
  BY <1>2 DEF WriteHead, Refuse, SignHead
<1>4. /\ Linked' /\ Sealed' /\ FilesOfLog' = FilesOfLog /\ FilesOfCps' = FilesOfCps
      /\ LastOfLog' = LastOfLog
  BY <1>3, IntactUnfolds, LinesStay
<1>5. head' \in SignedHead /\ HeadCurrent'
  BY <1>2, <1>3, IntactUnfolds, HeadWritten
<1>6. InMemory'
  BY <1>2, <1>3, <1>4, IntactUnfolds DEF InMemory, Boot
<1>7. Imported'
  BY <1>2, <1>3, <1>4, <1>5 DEF Imported
<1> QED  BY <1>4, <1>6, <1>7 DEF Intact

\* The steps that leave the evidence where it is.
LEMMA IntactReplySeal ==
  ASSUME EvidenceInv, Mirror, Clean, Intact, Reply \/ Seal
  PROVE  Intact'
<1> USE DEF eventStore, checkpointStore, anchor, keys, memory, flags, history
<1>1. /\ UNCHANGED <<log, arc, cpLog, cpArc, head, keyFile, pubFile, lastHash, knownHead,
                     error, startupError>>
      /\ pc \in {"idle", "ack"} /\ pc' \in {"idle", "cpStore"}
  BY DEF Reply, Seal
<1>2. /\ Linked' /\ Sealed' /\ FilesOfLog' = FilesOfLog /\ FilesOfCps' = FilesOfCps
      /\ LastOfLog' = LastOfLog
  BY <1>1, IntactUnfolds, LinesStay
<1>3. Imported /\ lastHash = LastOfLog /\ HeadCurrent
  BY <1>1, OperationImported DEF OperationPcs, Imported
<1>4. HeadCurrent'
  BY <1>1, <1>3, HeadStays
<1>5. InMemory'
  BY <1>1, <1>2, <1>3, IntactUnfolds DEF InMemory, Boot
<1>6. Imported'
  BY <1>1, <1>2, <1>3, <1>4 DEF Imported
<1> QED  BY <1>2, <1>5, <1>6 DEF Intact

\* A process that stops where no sequence of writes is under way leaves
\* everything as it was, but for a key or the marker just written.
LEMMA IntactCrash ==
  ASSUME EvidenceInv, Mirror, Clean, Intact, Crash, ~InsideSequence
  PROVE  Intact'
<1> USE DEF eventStore, checkpointStore, anchor, keys, memory, flags, history
<1>1. /\ pc # "down" /\ PartialWrite /\ pc' = "down" /\ knownHead' = Absent
      /\ ~error' /\ ~startupError' /\ ~expectsAnchor'
  BY DEF Crash
<1>2. pc \in {"idle", "key", "pub", "replay", "marker", "ack"} /\ (pc \in {"pub", "replay"} => head # Absent)
  BY <1>1, IntactUnfolds
     DEF InsideSequence, TypeInv, TypeOK, StartupPcs, OperationPcs
<1>3. UNCHANGED <<log, arc, cpLog, cpArc, head>>
  BY <1>1, <1>2 DEF PartialWrite
<1>4. /\ Linked' /\ Sealed' /\ FilesOfLog' = FilesOfLog /\ FilesOfCps' = FilesOfCps
  BY <1>3, IntactUnfolds, LinesStay
<1>5. InMemory'
  BY <1>1 DEF InMemory, Boot
<1>6. CASE Unimported
  <2>1. pc = "key"
    BY <1>2, <1>6 DEF Unimported, Boot
  <2>2. pubFile = 0 /\ keyFile = 0 /\ UNCHANGED <<pubFile, marker>> /\ keyFile' \in {0, 1}
    BY <1>1, <1>6, <2>1 DEF PartialWrite, Unimported, SignHead
  <2>3. Unimported'
    BY <1>1, <1>3, <1>4, <1>6, <2>1, <2>2 DEF Unimported, Boot
  <2> QED  BY <1>4, <1>5, <2>3 DEF Intact
<1>7. CASE Imported
  <2>1. UNCHANGED <<keyFile, pubFile>>
    BY <1>1, <1>2, <1>7 DEF PartialWrite, Imported, SignHead
  <2>2. HeadCurrent'
    BY <1>2, <1>3, <1>7, HeadStays DEF Imported
  <2>3. Imported'
    BY <1>1, <1>2, <1>3, <1>4, <1>7, <2>1, <2>2 DEF Imported
  <2> QED  BY <1>4, <1>5, <2>3 DEF Intact
<1> QED  BY <1>6, <1>7, IntactUnfolds

\* Only a crash or a failed write cuts a sequence short.
LEMMA CleanStays ==
  ASSUME EvidenceInv, [Next]_vars, Clean'
  PROVE  /\ Clean /\ ~Damage /\ ~WriteFails
         /\ Crash => ~InsideSequence
<1>1. damage = 0 /\ ~Damage
  BY DamageStays DEF Clean
<1>2. ~WriteFails /\ (Crash => ~InsideSequence)
  BY DEF WriteFails, Crash, Clean
<1>3. ~interrupted
  <2>1. CASE Crash
    BY <2>1 DEF Crash, Clean
  <2>2. CASE ~Crash
    BY <1>1, <1>2, <2>2, Zenon DEF Clean, Next, vars, Startup, Start, WriteKey, LoadPublicKey,
       Replay, ImportEntry, ImportEntriesDone, ImportCheckpoint, ImportCheckpointsDone,
       WriteFirstHead, WriteMarker, RecordNew, RecordAgain, Progress, StoreEvent, AppendEvent,
       StoreCheckpoint, AppendCheckpoint, WriteHead, Reply, Refuse, Seal, Verify, history
  <2> QED  BY <2>1, <2>2
<1> QED  BY <1>1, <1>2, <1>3 DEF Clean

LEMMA IntactStep == EvidenceInv /\ Mirror /\ IntactInv /\ [Next]_vars => IntactInv'
<1> SUFFICES ASSUME EvidenceInv, Mirror, IntactInv, [Next]_vars, Clean' PROVE Intact'
  BY DEF IntactInv
<1>1. Clean /\ Intact /\ ~Damage /\ ~WriteFails /\ (Crash => ~InsideSequence)
  BY CleanStays DEF IntactInv
<1>2. CASE Startup
  BY <1>1, <1>2, IntactKeys, IntactReplay, IntactImport, IntactFirstHead, IntactMarker DEF Startup
<1>3. CASE \E event \in Event : RecordNew(event) \/ RecordAgain(event)
  BY <1>1, <1>3, IntactRecord
<1>4. CASE Progress
  BY <1>1, <1>4, IntactStore, IntactAppend, IntactCheckpoint, IntactHead, IntactReplySeal
     DEF Progress
<1>5. CASE Seal
  BY <1>1, <1>5, IntactReplySeal
<1>6. CASE Verify
  BY <1>1, <1>6, QuietVerifies DEF Verify
<1>7. CASE Crash
  BY <1>1, <1>7, IntactCrash
<1>8. CASE UNCHANGED vars
  <2>1. UNCHANGED <<log, arc, cpLog, cpArc, head, marker, keyFile, pubFile, pc, cur, lastHash,
                    pending, cps, knownHead, expectsAnchor, error, startupError>>
    BY <1>8 DEF vars
  <2>2. /\ Linked' /\ Sealed' /\ FilesOfLog' = FilesOfLog /\ FilesOfCps' = FilesOfCps
        /\ LastOfLog' = LastOfLog
    BY <1>1, <2>1, LinesStay DEF Intact
  <2>3. InMemory'
    BY <1>1, <2>1, <2>2 DEF Intact, InMemory, Digest
  <2>4. Unimported => Unimported'
    BY <2>1, <2>2 DEF Unimported, Boot
  <2>5. /\ HeadCurrent => HeadCurrent'
        /\ EventFile(cur)' = EventFile(cur)
        /\ CheckpointFile(NewCheckpoint)' = CheckpointFile(NewCheckpoint)
    BY <2>1, HeadStays DEF EventFile, CheckpointFile, NewCheckpoint, DigestOfCheckpoint
  <2>6. Imported => Imported'
    BY <2>1, <2>2, <2>5 DEF Imported
  <2> QED  BY <1>1, <2>2, <2>3, <2>4, <2>6 DEF Intact
<1> QED  BY <1>1, <1>2, <1>3, <1>4, <1>5, <1>6, <1>7, <1>8 DEF Next

\* What version 2.0 left behind is linked and sealed.
LEMMA LegacyLines ==
  ASSUME NEW legacy \in Installations, NEW i \in 1..Len(legacy.events)
  PROVE  /\ LegacyEntry(legacy.events, i).hash = Digest(LegacyEntry(legacy.events, i))
         /\ i = 1 => LegacyEntry(legacy.events, i).prev = <<>>
         /\ i # 1 => LegacyEntry(legacy.events, i).prev = LegacyEntry(legacy.events, i - 1).hash
<1> DEFINE events == legacy.events
           before == SubSeq(events, 1, i - 1)
           upto == SubSeq(events, 1, i)
<1>1. events \in Seq(Event) /\ Len(events) \in Nat /\ i \in 1..Len(events)
  BY LegacyAssumption
<1>2. /\ before \in Seq(Event) /\ Len(before) = i - 1
      /\ \A j \in 1..(i - 1) : before[j] = events[j]
  BY <1>1, SubSeqProperties
<1>3. /\ upto \in Seq(Event) /\ Len(upto) = i
      /\ \A j \in 1..i : upto[j] = events[j]
  BY <1>1, SubSeqProperties
<1>4. upto = Append(before, events[i])
  <2>1. events[i] \in Event
    BY <1>1
  <2> HIDE DEF before, upto
  <2>2. /\ Append(before, events[i]) \in Seq(Event) /\ Len(Append(before, events[i])) = i
        /\ Append(before, events[i])[i] = events[i]
        /\ \A j \in 1..(i - 1) : Append(before, events[i])[j] = before[j]
    BY <1>1, <1>2, <2>1, AppendProperties
  <2>3. \A j \in 1..i : upto[j] = Append(before, events[i])[j]
    BY <1>1, <1>2, <1>3, <2>2
  <2> QED  BY <1>3, <2>2, <2>3, SeqEqual
<1>5. i = 1 => before = <<>>
  BY <1>1, SubSeqEmpty
<1> QED  BY <1>4, <1>5 DEF LegacyEntry, Digest

LEMMA IntactInit == Init => IntactInv
<1> SUFFICES ASSUME NEW legacy \in Installations, Found(legacy) PROVE Intact
  BY DEF Init, IntactInv
<1> DEFINE events == legacy.events
<1>1. /\ events \in Seq(Event) /\ Len(events) \in Nat
      /\ legacy.sealed \in 0..Len(events) /\ legacy.sealed \in Nat
  BY LegacyAssumption
<1>2. Len(log) = Len(events) /\ \A i \in 1..Len(log) : log[i] = LegacyEntry(events, i)
  BY <1>1 DEF Found
<1>3. Linked
  <2> SUFFICES ASSUME NEW i \in 1..Len(log) PROVE LineLinked(i)
    BY DEF Linked
  <2>1. log[i] # Damaged
    BY <1>2, LegacyEntryType, MarkersAssumption
  <2>2. i # 1 => log[i - 1] = LegacyEntry(events, i - 1)
    BY <1>1, <1>2
  <2> QED  BY <1>2, <2>1, <2>2, LegacyLines DEF LineLinked
<1>4. Sealed
  <2> SUFFICES ASSUME NEW k \in 1..Len(cpLog) PROVE CheckpointSealed(k)
    BY DEF Sealed
  <2> DEFINE cp == LegacyCheckpoint(legacy)
  <2>1. legacy.sealed # 0 /\ cpLog = <<cp>> /\ k = 1 /\ cpLog[k] = cp
    BY DEF Found
  <2>2. cp # Damaged
    <3>1. cpLog \in Seq(Checkpoint \cup {Damaged})
      BY TypeInit DEF Init, TypeInv, TypeOK
    <3>2. cp.cpSeq = 0 /\ cp.prev = <<>> /\ cp.start = 0 /\ cp.end = legacy.sealed - 1
          /\ cp.leaves = [i \in 1..legacy.sealed |-> SubSeq(events, 1, i)]
      BY DEF LegacyCheckpoint
    <3>3. \A i \in 1..legacy.sealed : SubSeq(events, 1, i) \in Hash
      BY <1>1, SubSeqProperties DEF Hash
    <3>4. cp.leaves \in Seq(Hash)
      <4>1. ASSUME NEW n \in Nat, \A i \in 1..n : SubSeq(events, 1, i) \in Hash
            PROVE  [i \in 1..n |-> SubSeq(events, 1, i)] \in Seq(Hash)
        BY <4>1, IsASeq
      <4> QED  BY <1>1, <3>2, <3>3, <4>1
    <3>5. cp \in Checkpoint
      BY <1>1, <3>4 DEF LegacyCheckpoint, Checkpoint, CpDigest
    <3> QED  BY <3>5, MarkersAssumption
  <2>3. /\ cp.cpSeq = 0 /\ cp.prev = <<>> /\ cp.start = 0 /\ cp.end = legacy.sealed - 1
        /\ cp.leaves = [i \in 1..legacy.sealed |-> SubSeq(events, 1, i)]
    BY DEF LegacyCheckpoint
  <2> HIDE DEF cp
  <2>4. Len(cp.leaves) = legacy.sealed /\ cp.leaves # <<>>
    BY <1>1, <2>1, <2>3
  <2>5. ASSUME NEW j \in 1..legacy.sealed PROVE Digest(log[cp.start + j]) = cp.leaves[j]
    <3>1. j \in 1..Len(log) /\ cp.start + j = j
      BY <1>1, <1>2, <2>3
    <3>2. log[j].hash = Digest(log[j])
      BY <1>3, <3>1 DEF Linked, LineLinked
    <3>3. LegacyEntry(events, j).hash = SubSeq(events, 1, j)
      BY DEF LegacyEntry
    <3>4. log[j].hash = SubSeq(events, 1, j)
      BY <1>2, <3>1, <3>3
    <3> QED  BY <2>3, <3>1, <3>2, <3>4
  <2>6. cp.end < Len(log) /\ cp.end = cp.start + Len(cp.leaves) - 1
    BY <1>1, <1>2, <2>3, <2>4
  <2>7. \A j \in 1..Len(cp.leaves) : Digest(log[cp.start + j]) = cp.leaves[j]
    BY <2>4, <2>5
  <2>8. /\ cp.cpSeq = k - 1 /\ cp.start = IF k = 1 THEN 0 ELSE cpLog[k - 1].end + 1
        /\ cp.prev = IF k = 1 THEN <<>> ELSE DigestOfCheckpoint(cpLog[k - 1])
        /\ cpLog[k] = cp
    BY <2>1, <2>3
  <2> QED  BY <2>2, <2>4, <2>6, <2>7, <2>8 DEF CheckpointSealed
<1>5. arc \subseteq FilesOfLog
  BY <1>1, <1>2 DEF Found, FilesOfLog
<1>6. cpArc \subseteq FilesOfCps
  BY DEF Found, FilesOfCps
<1>7. events = <<>> => log = <<>> /\ cpLog = <<>> /\ arc = {}
  <2> SUFFICES ASSUME events = <<>> PROVE log = <<>> /\ cpLog = <<>> /\ arc = {}
    OBVIOUS
  <2>1. Len(events) = 0 /\ legacy.sealed = 0
    BY <1>1
  <2> QED  BY <2>1 DEF Found
<1>8. /\ head = Absent /\ ~marker /\ ~expectsAnchor /\ pc = "down" /\ pubFile = 0
      /\ keyFile = IF events = <<>> THEN 0 ELSE 1
      /\ ~error /\ ~startupError /\ knownHead = Absent
  BY DEF Found
<1>9. InMemory
  BY <1>8 DEF InMemory, Boot
<1>10. Unimported
  BY <1>5, <1>6, <1>7, <1>8 DEF Unimported, Boot
<1> QED  BY <1>3, <1>4, <1>9, <1>10 DEF Intact

\* Nobody cries wolf: through any history of starts, imports, records, seals,
\* retries and stops, a process whose files were not damaged and whose writes
\* were never cut short passes its own verification and collects.
THEOREM NobodyCriesWolf == Spec => []NoFalseAlarm
<1>1. Init => Mirror
  BY DEF Init, Found, Mirror, Collecting, Boot
<1>2. EvidenceInv /\ Mirror /\ IntactInv => NoFalseAlarm
  <2> SUFFICES ASSUME EvidenceInv, Mirror, Intact, Clean, pc = "idle" PROVE VerifyOK /\ ~error
    BY DEF IntactInv, NoFalseAlarm, Clean
  <2> QED  BY QuietVerifies, IntactUnfolds
<1> QED  BY <1>1, <1>2, IntactInit, IntactStep, MirrorStep, EvidenceAlways, PTL DEF Spec

-----------------------------------------------------------------------------
(* Part 3.  Up to two damaged artifacts.  verify_chain can only be deceived  *)
(* by files that agree with each other, and each receipt is held in three    *)
(* places: the log, the archive and, through the hash it binds, the signed   *)
(* head.  The pinned key is the fourth: without it a lost head is not        *)
(* missed.  One damage spoils one of the four at most, and no step of the    *)
(* program spoils any: what the memory of a collecting process holds stays   *)
(* true whatever happens to the files, and each write restores what it       *)
(* rewrites.                                                                 *)

InLog(r) == r.seq < Len(log) /\ log[r.seq + 1] = r
Binds(hash, r) == r.seq < Len(hash) /\ r = LegacyEntry(hash, r.seq + 1)
InHead(r) == head \in SignedHead /\ Binds(head.lastHash, r)

\* The entry in hand has its line in the log.
Written == pc \in {"cpStore", "cpAppend", "head", "ack"} /\ cur # Absent

\* Never spoilt: the last hash in memory binds every receipt.
MemoryTrue ==
  Collecting =>
    /\ Len(lastHash) = seq
    /\ \A r \in acked : Binds(lastHash, r)
    /\ pc \in {"store", "append"} =>
         cur.seq = seq /\ cur.prev = lastHash /\ cur.hash = Append(lastHash, cur.event)
    /\ Written => Binds(lastHash, cur)
    /\ pc \in {"idle", "store", "append", "marker", "ack"} =>
         knownHead \in SignedHead /\ knownHead.lastHash = lastHash

LogHolds ==
  /\ \A r \in acked : InLog(r)
  /\ Collecting => Len(log) = seq
  /\ Written => InLog(cur)

ArchiveHolds ==
  /\ \A r \in acked : EventFile(r) \in arc
  /\ pc = "append" \/ Written => EventFile(cur) \in arc

HeadHolds ==
  /\ \A r \in acked : InHead(r)
  /\ pc = "ack" => InHead(cur)

KeyHolds ==
  /\ acked # {} => pubFile # 0
  /\ pc = "pub" => keyFile # 0
  /\ (pc \notin {"down", "key", "pub"} /\ ~error) => pubFile # 0
  /\ (acked # {} /\ pc # "down") => (expectsAnchor \/ knownHead # Absent)

Lost ==
  {place \in {"log", "archive", "head", "key"} :
     \/ place = "log" /\ ~LogHolds
     \/ place = "archive" /\ ~ArchiveHolds
     \/ place = "head" /\ ~HeadHolds
     \/ place = "key" /\ ~KeyHolds}

CompleteInv ==
  /\ IsFiniteSet(arc)
  /\ MemoryTrue
  /\ Cardinality(Lost) <= damage

-----------------------------------------------------------------------------
(* A hash binds the entries before it.                                       *)

LEMMA EntriesOfAppend ==
  ASSUME NEW hash \in Hash, NEW event \in Event
  PROVE  /\ Append(hash, event) \in Hash /\ Len(Append(hash, event)) = Len(hash) + 1
         /\ \A j \in 1..Len(hash) : LegacyEntry(Append(hash, event), j) = LegacyEntry(hash, j)
         /\ LegacyEntry(Append(hash, event), Len(hash) + 1)
              = [seq |-> Len(hash), event |-> event, prev |-> hash, hash |-> Append(hash, event)]
<1> DEFINE longer == Append(hash, event)
<1>1. /\ hash \in Seq(Event) /\ longer \in Seq(Event) /\ Len(hash) \in Nat
      /\ Len(longer) = Len(hash) + 1 /\ longer[Len(hash) + 1] = event
      /\ \A j \in 1..Len(hash) : longer[j] = hash[j]
  BY AppendProperties DEF Hash
<1> HIDE DEF longer
<1>2. ASSUME NEW n \in 0..Len(hash) PROVE SubSeq(longer, 1, n) = SubSeq(hash, 1, n)
  <2>1. /\ SubSeq(longer, 1, n) \in Seq(Event) /\ Len(SubSeq(longer, 1, n)) = n
        /\ \A j \in 1..n : SubSeq(longer, 1, n)[j] = longer[j]
    BY <1>1, SubSeqProperties
  <2>2. /\ SubSeq(hash, 1, n) \in Seq(Event) /\ Len(SubSeq(hash, 1, n)) = n
        /\ \A j \in 1..n : SubSeq(hash, 1, n)[j] = hash[j]
    BY <1>1, SubSeqProperties
  <2>3. \A j \in 1..n : longer[j] = hash[j]
    BY <1>1
  <2>4. \A j \in 1..n : SubSeq(longer, 1, n)[j] = SubSeq(hash, 1, n)[j]
    BY <2>1, <2>2, <2>3
  <2> QED  BY <2>1, <2>2, <2>4, SeqEqual
<1>3. ASSUME NEW j \in 1..Len(hash) PROVE LegacyEntry(longer, j) = LegacyEntry(hash, j)
  <2>1. j \in 0..Len(hash) /\ j - 1 \in 0..Len(hash) /\ longer[j] = hash[j]
    BY <1>1
  <2> QED  BY <1>2, <2>1 DEF LegacyEntry
<1>4. LegacyEntry(longer, Len(hash) + 1)
        = [seq |-> Len(hash), event |-> event, prev |-> hash, hash |-> longer]
  <2>1. SubSeq(longer, 1, Len(hash)) = hash /\ SubSeq(longer, 1, Len(hash) + 1) = longer
    BY <1>1, <1>2, SubSeqFull
  <2>2. Len(hash) + 1 - 1 = Len(hash)
    BY <1>1
  <2> QED  BY <1>1, <2>1, <2>2 DEF LegacyEntry
<1> QED  BY <1>1, <1>3, <1>4 DEF longer, Hash

\* What a hash binds, the next hash binds, and it binds the new entry.
LEMMA BindsOn ==
  ASSUME NEW hash \in Hash, NEW entry \in Entry,
         entry.seq = Len(hash), entry.prev = hash, entry.hash = Append(hash, entry.event)
  PROVE  /\ entry.hash \in Hash /\ Len(entry.hash) = Len(hash) + 1
         /\ Binds(entry.hash, entry)
         /\ \A r \in Entry : Binds(hash, r) => Binds(entry.hash, r)
         /\ \A j \in 1..Len(hash) : LegacyEntry(entry.hash, j) = LegacyEntry(hash, j)
<1>1. entry.event \in Event /\ Len(hash) \in Nat
  BY DEF Entry, Hash
<1>2. /\ entry.hash \in Hash /\ Len(entry.hash) = Len(hash) + 1
      /\ \A j \in 1..Len(hash) : LegacyEntry(entry.hash, j) = LegacyEntry(hash, j)
      /\ LegacyEntry(entry.hash, Len(hash) + 1)
           = [seq |-> Len(hash), event |-> entry.event, prev |-> hash, hash |-> entry.hash]
  BY <1>1, EntriesOfAppend
<1>3. entry = [seq |-> Len(hash), event |-> entry.event, prev |-> hash, hash |-> entry.hash]
  BY DEF Entry
<1>4. Binds(entry.hash, entry)
  BY <1>1, <1>2, <1>3 DEF Binds
<1>5. ASSUME NEW r \in Entry, Binds(hash, r) PROVE Binds(entry.hash, r)
  <2>1. r.seq \in Nat /\ r.seq < Len(hash) /\ r.seq + 1 \in 1..Len(hash)
    BY <1>1, <1>5 DEF Binds, Entry
  <2>2. r.seq < Len(entry.hash)
    BY <1>1, <1>2, <2>1
  <2> QED  BY <1>2, <1>5, <2>1, <2>2 DEF Binds
<1> QED  BY <1>2, <1>4, <1>5

\* The lines that verify_chain compared are bound by the last of them.
Ordered == \A i \in 1..Len(log) : log[i].seq = i - 1
BoundUpTo(i) == Len(log[i].hash) = i /\ \A j \in 1..i : log[j] = LegacyEntry(log[i].hash, j)

LEMMA LastBindsAll ==
  ASSUME TypeInv, Linked, Ordered
  PROVE  /\ LastOfLog \in Hash /\ Len(LastOfLog) = Len(log)
         /\ \A i \in 1..Len(log) : log[i] = LegacyEntry(LastOfLog, i)
<1>1. /\ log \in Seq(Entry) /\ Len(log) \in Nat
      /\ \A i \in 1..Len(log) : log[i] \in Entry
  BY LinesTyped DEF TypeInv, TypeOK
<1>2. ASSUME NEW i \in 1..Len(log), i = 1 \/ BoundUpTo(i - 1) PROVE BoundUpTo(i)
  <2>1. PICK entry \in Entry : entry = log[i]
    BY <1>1
  <2>2. PICK hash : hash = entry.prev
    OBVIOUS
  <2>3. hash \in Hash /\ entry.hash = Append(hash, entry.event) /\ entry.seq = i - 1
    BY <2>1, <2>2 DEF Linked, LineLinked, Digest, Ordered, Entry
  <2>4. Len(hash) = i - 1 /\ \A j \in 1..(i - 1) : log[j] = LegacyEntry(hash, j)
    <3>1. CASE i = 1
      <4>1. hash = <<>>
        BY <2>1, <2>2, <3>1 DEF Linked, LineLinked
      <4> QED  BY <3>1, <4>1
    <3>2. CASE i # 1
      <4>1. hash = log[i - 1].hash
        BY <2>1, <2>2, <3>2 DEF Linked, LineLinked
      <4> QED  BY <1>2, <3>2, <4>1 DEF BoundUpTo
    <3> QED  BY <3>1, <3>2
  <2>5. /\ Len(entry.hash) = Len(hash) + 1 /\ Binds(entry.hash, entry)
        /\ \A j \in 1..Len(hash) : LegacyEntry(entry.hash, j) = LegacyEntry(hash, j)
    <3>1. entry.seq = Len(hash)
      BY <2>3, <2>4
    <3> QED  BY <3>1, <2>2, <2>3, BindsOn
  <2>6. entry = LegacyEntry(entry.hash, i)
    <3>1. entry.seq + 1 = i
      BY <2>3
    <3> QED  BY <2>5, <3>1 DEF Binds
  <2>7. ASSUME NEW j \in 1..i PROVE log[j] = LegacyEntry(entry.hash, j)
    <3>1. CASE j = i
      BY <2>1, <2>6, <3>1
    <3>2. CASE j # i
      <4>1. j \in 1..(i - 1) /\ j \in 1..Len(hash)
        BY <2>4, <3>2
      <4> QED  BY <2>4, <2>5, <4>1
    <3> QED  BY <3>1, <3>2
  <2>8. Len(entry.hash) = i
    BY <2>4, <2>5
  <2> QED  BY <2>1, <2>7, <2>8 DEF BoundUpTo
<1>3. \A i \in 1..Len(log) : BoundUpTo(i)
  <2> DEFINE Bad == {i \in 1..Len(log) : ~BoundUpTo(i)}
  <2> SUFFICES ASSUME Bad # {} PROVE FALSE
    OBVIOUS
  <2>1. Bad \in SUBSET Nat
    OBVIOUS
  <2>2. PICK i \in Bad : \A j \in Bad : i <= j
    BY <2>1, LeastExists
  <2>3. i = 1 \/ (i - 1 \in 1..Len(log) /\ i - 1 \notin Bad)
    BY <1>1, <2>2
  <2> QED  BY <1>2, <2>2, <2>3
<1>4. CASE Len(log) = 0
  <2>1. log = <<>>
    BY <1>1, <1>4
  <2> QED  BY <1>4, <2>1 DEF LastOfLog, Hash
<1>5. CASE Len(log) # 0
  <2>1. Len(log) \in 1..Len(log) /\ log # <<>>
    BY <1>1, <1>5
  <2>2. BoundUpTo(Len(log)) /\ log[Len(log)] \in Entry
    BY <1>1, <1>3, <2>1
  <2> QED  BY <2>1, <2>2 DEF BoundUpTo, LastOfLog, Entry
<1> QED  BY <1>4, <1>5

-----------------------------------------------------------------------------
(* What verify_chain has compared.                                           *)

LEMMA VerifiedLines ==
  ASSUME TypeInv, VerifyOK
  PROVE  /\ Linked /\ Ordered
         /\ Anchored /\ IsFiniteSet(arc) => arc = FilesOfLog
         /\ Anchored => head \in SignedHead /\ head.lastHash = LastOfLog
<1>1. Linked /\ Ordered
  BY DEF VerifyOK, LinesDecode, EntriesOK, EntryOK, Linked, LineLinked, Ordered
<1>2. ASSUME Anchored, IsFiniteSet(arc) PROVE arc = FilesOfLog
  <2>1. LogSound
    <3>1. \A i \in 1..Len(log) : EntryOK(i)
      BY DEF VerifyOK, EntriesOK
    <3>2. \A i \in 1..Len(log), j \in 1..Len(log) : j < i => log[j].event.id # log[i].event.id
      <4> SUFFICES ASSUME NEW i \in 1..Len(log), NEW j \in 1..Len(log), j < i
                   PROVE  log[j].event.id # log[i].event.id
        OBVIOUS
      <4>1. j \in 1..(i - 1)
        OBVIOUS
      <4> QED  BY <3>1, <4>1 DEF EntryOK
    <3>3. \A i \in 1..Len(log), j \in 1..Len(log) :
            log[i].event.id = log[j].event.id => i = j
      <4> SUFFICES ASSUME NEW i \in 1..Len(log), NEW j \in 1..Len(log), i # j
                   PROVE  log[i].event.id # log[j].event.id
        OBVIOUS
      <4>1. i < j \/ j < i
        OBVIOUS
      <4> QED  BY <3>2, <4>1
    <3> QED  BY <1>1, <3>3 DEF LogSound, Ordered
  <2>2. IsFiniteSet(FilesOfLog) /\ Cardinality(FilesOfLog) = Len(log)
    BY <1>1, <2>1, FilesCounted
  <2>3. ASSUME NEW i \in 1..Len(log) PROVE EventFile(log[i]) \in arc
    <3>1. FilesAt(i - 1) # {} /\ FilesAt(i - 1) \subseteq {EventFile(log[i])}
      BY <1>2 DEF VerifyOK, EntriesOK, EntryOK
    <3> QED  BY <3>1 DEF FilesAt
  <2>4. FilesOfLog \subseteq arc
    BY <2>3 DEF FilesOfLog
  <2>5. Cardinality(arc) = Len(log)
    BY <1>2 DEF VerifyOK, EntriesOK
  <2> HIDE DEF FilesOfLog
  <2> QED  BY <1>2, <2>2, <2>4, <2>5, FS_Subset
<1>3. ASSUME Anchored PROVE head \in SignedHead /\ head.lastHash = LastOfLog
  <2>1. head # Absent /\ head # Damaged
    BY <1>3 DEF VerifyOK, BaselineOK
  <2>2. head \in SignedHead
    BY <2>1 DEF TypeInv, TypeOK
  <2> QED  BY <2>1, <2>2 DEF VerifyOK, HeadOK, LastOfLog
<1> QED  BY <1>1, <1>2, <1>3

LEMMA LostFinite == IsFiniteSet(Lost) /\ Cardinality(Lost) \in Nat
<1>1. IsFiniteSet({"log", "archive", "head", "key"})
  <2>1. IsFiniteSet({"log"} \cup {"archive"} \cup {"head"} \cup {"key"})
    BY FS_Singleton, FS_Union
  <2>2. {"log", "archive", "head", "key"} = {"log"} \cup {"archive"} \cup {"head"} \cup {"key"}
    OBVIOUS
  <2> QED  BY <2>1, <2>2
<1> QED  BY <1>1, FS_Subset, FS_CardinalityType DEF Lost

\* What is not lost holds.
LEMMA NotLost ==
  /\ "log" \notin Lost <=> LogHolds
  /\ "archive" \notin Lost <=> ArchiveHolds
  /\ "head" \notin Lost <=> HeadHolds
  /\ "key" \notin Lost <=> KeyHolds
BY DEF Lost

\* Two damages cannot spoil three places.
LEMMA ThreeNotLost ==
  ASSUME Cardinality(Lost) <= 2, NEW x, NEW y, NEW z, x # y, y # z, x # z
  PROVE  ~(x \in Lost /\ y \in Lost /\ z \in Lost)
<1> SUFFICES ASSUME x \in Lost, y \in Lost, z \in Lost PROVE FALSE
  OBVIOUS
<1>1. IsFiniteSet({x}) /\ Cardinality({x}) = 1
  BY FS_Singleton
<1>2. IsFiniteSet({x} \cup {y}) /\ Cardinality({x} \cup {y}) = 2
  <2>1. y \notin {x}
    OBVIOUS
  <2> QED  BY <1>1, <2>1, FS_AddElement
<1>3. Cardinality({x} \cup {y} \cup {z}) = 3
  <2>1. PICK S : S = {x} \cup {y}
    OBVIOUS
  <2>2. IsFiniteSet(S) /\ Cardinality(S) = 2 /\ z \notin S
    BY <1>2, <2>1
  <2>3. Cardinality(S \cup {z}) = Cardinality(S) + 1
    BY <2>2, FS_AddElement
  <2> QED  BY <2>1, <2>2, <2>3
<1>4. {x} \cup {y} \cup {z} \subseteq Lost
  OBVIOUS
<1>5. Cardinality({x} \cup {y} \cup {z}) <= Cardinality(Lost)
  BY <1>4, LostFinite, FS_Subset
<1> QED  BY <1>3, <1>5, LostFinite

\* A verification that passes, with at most two places spoilt, finds every
\* receipt in the log and in the archive, and the last line binds it.
LEMMA VerifiedFindsReceipts ==
  ASSUME TypeInv, IsFiniteSet(arc), Cardinality(Lost) <= 2, VerifyOK, pc # "down"
  PROVE  \A r \in acked : InLog(r) /\ EventFile(r) \in arc /\ Binds(LastOfLog, r)
<1> SUFFICES ASSUME NEW r \in acked
             PROVE  InLog(r) /\ EventFile(r) \in arc /\ Binds(LastOfLog, r)
  OBVIOUS
<1>1. r \in Entry /\ r.seq \in Nat /\ Len(log) \in Nat
  BY DEF TypeInv, TypeOK, Entry
<1>2. Linked /\ Ordered
  BY VerifiedLines
<1>3. /\ LastOfLog \in Hash /\ Len(LastOfLog) = Len(log)
      /\ \A i \in 1..Len(log) : log[i] = LegacyEntry(LastOfLog, i)
  BY <1>2, LastBindsAll
<1>4. InLog(r) => Binds(LastOfLog, r)
  <2> SUFFICES ASSUME InLog(r) PROVE Binds(LastOfLog, r)
    OBVIOUS
  <2>1. r.seq < Len(log) /\ log[r.seq + 1] = r /\ r.seq + 1 \in 1..Len(log)
    BY <1>1 DEF InLog
  <2> QED  BY <1>3, <2>1 DEF Binds
<1>5. InLog(r) /\ EventFile(r) \in arc
  <2>1. CASE Anchored
    <3>1. arc = FilesOfLog /\ head \in SignedHead /\ head.lastHash = LastOfLog
      BY <2>1, VerifiedLines
    <3>2. ASSUME "log" \notin Lost PROVE InLog(r)
      BY <3>2, NotLost DEF LogHolds
    <3>3. ASSUME "archive" \notin Lost PROVE InLog(r)
      <4>1. EventFile(r) \in FilesOfLog
        BY <3>1, <3>3, NotLost DEF ArchiveHolds
      <4>2. PICK i \in 1..Len(log) : EventFile(r) = EventFile(log[i])
        BY <4>1 DEF FilesOfLog
      <4>3. r = log[i] /\ r.seq = i - 1
        BY <1>2, <4>2 DEF EventFile, Ordered
      <4>4. r.seq < Len(log) /\ r.seq + 1 = i
        BY <1>1, <4>3
      <4> QED  BY <4>3, <4>4 DEF InLog
    <3>4. ASSUME "head" \notin Lost PROVE InLog(r)
      <4>0. Binds(LastOfLog, r)
        BY <3>1, <3>4, NotLost DEF HeadHolds, InHead
      <4>1. r.seq < Len(log) /\ r = LegacyEntry(LastOfLog, r.seq + 1)
        BY <1>3, <4>0 DEF Binds
      <4>2. r.seq + 1 \in 1..Len(log)
        BY <1>1, <4>1
      <4>3. log[r.seq + 1] = r /\ r.seq < Len(log)
        BY <1>3, <4>1, <4>2
      <4> QED  BY <4>3 DEF InLog
    <3>5. InLog(r)
      BY <3>2, <3>3, <3>4, ThreeNotLost
    <3>6. r.seq + 1 \in 1..Len(log)
      BY <1>1, <3>5 DEF InLog
    <3> QED  BY <3>1, <3>5, <3>6 DEF InLog, FilesOfLog
  <2>2. CASE ~Anchored
    <3>1. "key" \in Lost /\ "head" \in Lost
      BY <2>2, MarkersAssumption, NotLost DEF Anchored, KeyHolds, HeadHolds, InHead
    <3>2. "log" \notin Lost /\ "archive" \notin Lost
      BY <3>1, ThreeNotLost
    <3> QED  BY <3>2, NotLost DEF LogHolds, ArchiveHolds
  <2> QED  BY <2>1, <2>2
<1> QED  BY <1>4, <1>5

-----------------------------------------------------------------------------
(* No step of the program spoils what holds.                                 *)

Keeps ==
  /\ MemoryTrue'
  /\ LogHolds => LogHolds'
  /\ ArchiveHolds => ArchiveHolds'
  /\ HeadHolds => HeadHolds'

\* What held of a receipt goes on to hold.
LEMMA OldReceipts ==
  ASSUME TypeInv, Places, MemoryTrue, [Next]_vars, ~Damage, NEW r \in acked
  PROVE  /\ LogHolds => InLog(r)'
         /\ ArchiveHolds => (EventFile(r) \in arc)'
         /\ HeadHolds => InHead(r)'
<1>1. LinesGrow /\ FilesGrow /\ HeadMoves
  BY StepsGrow
<1>2. r \in Entry /\ r.seq \in Nat
  BY DEF TypeInv, TypeOK, Entry
<1>3. ASSUME LogHolds PROVE InLog(r)'
  <2>1. r.seq < Len(log) /\ log[r.seq + 1] = r
    BY <1>3 DEF LogHolds, InLog
  <2>2. log' = log \/ \E line \in Entry \cup {Damaged} : log' = Append(log, line)
    BY <1>1 DEF LinesGrow, TypeInv, InHand
  <2>3. CASE log' = log
    BY <2>1, <2>3 DEF InLog
  <2>4. ASSUME NEW line \in Entry \cup {Damaged}, log' = Append(log, line) PROVE InLog(r)'
    <3>1. /\ Len(log) \in Nat /\ Len(log') = Len(log) + 1
          /\ \A i \in 1..Len(log) : log'[i] = log[i]
      BY <2>4, LineAdded
    <3>2. r.seq + 1 \in 1..Len(log) /\ r.seq < Len(log')
      BY <1>2, <2>1, <3>1
    <3> QED  BY <2>1, <3>1, <3>2 DEF InLog
  <2> QED  BY <2>2, <2>3, <2>4
<1>4. ASSUME ArchiveHolds PROVE EventFile(r) \in arc'
  BY <1>1, <1>4 DEF ArchiveHolds, FilesGrow
<1>5. ASSUME HeadHolds PROVE InHead(r)'
  <2>1. CASE head' = head
    BY <1>5, <2>1 DEF HeadHolds, InHead
  <2>2. CASE pc \in {"head", "initHead"} /\ head' = NewHead
    <3>1. Collecting
      BY <2>2 DEF Places, Collecting, Boot
    <3>2. NewHead \in SignedHead /\ NewHead.lastHash = lastHash
      BY NewHeadType DEF TypeInv, TypeOK, NewHead
    <3>3. Binds(lastHash, r)
      BY <3>1 DEF MemoryTrue
    <3> QED  BY <2>2, <3>2, <3>3 DEF InHead
  <2> QED  BY <1>1, <2>1, <2>2 DEF HeadMoves
<1>6. EventFile(r)' = EventFile(r)
  BY DEF EventFile
<1> QED  BY <1>3, <1>4, <1>5, <1>6

\* Once a process no longer collects there is nothing in hand.
LEMMA HaltsKeeps ==
  ASSUME TypeInv, Places, MemoryTrue, [Next]_vars, ~Damage, ~Collecting', UNCHANGED acked
  PROVE  Keeps
<1>1. Places'
  BY PlacesStep
<1>2. pc' \notin OperationPcs /\ cur' = Absent
  BY <1>1 DEF Places, Collecting, Boot, OperationPcs
<1>3. MemoryTrue'
  BY DEF MemoryTrue
<1>4. ~Written' /\ pc' # "append" /\ pc' # "ack"
  BY <1>2 DEF Written, OperationPcs
<1>5. LogHolds => LogHolds'
  BY <1>4, OldReceipts DEF LogHolds
<1>6. ArchiveHolds => ArchiveHolds'
  BY <1>4, OldReceipts DEF ArchiveHolds
<1>7. HeadHolds => HeadHolds'
  BY <1>4, OldReceipts DEF HeadHolds
<1> QED  BY <1>3, <1>5, <1>6, <1>7 DEF Keeps

\* A step that goes on with what is in hand, or puts it down.
Rests ==
  /\ Collecting
  /\ UNCHANGED <<log, head, seq, lastHash, knownHead, acked, cur>>
  /\ arc \subseteq arc'
  /\ pc' \in {"store", "append", "ack"} => pc' = pc
  /\ Written' => Written
  /\ pc' \in {"idle", "marker"} => pc \in {"idle", "marker"}

LEMMA RestsKeeps ==
  ASSUME TypeInv, Places, MemoryTrue, [Next]_vars, ~Damage, Rests
  PROVE  Keeps
<1>1. MemoryTrue'
  BY DEF Rests, MemoryTrue, Binds, LegacyEntry
<1>2. LogHolds => LogHolds'
  BY DEF Rests, LogHolds, InLog
<1>3. ArchiveHolds => ArchiveHolds'
  BY DEF Rests, ArchiveHolds, EventFile
<1>4. HeadHolds => HeadHolds'
  BY DEF Rests, HeadHolds, InHead, Binds, LegacyEntry
<1> QED  BY <1>1, <1>2, <1>3, <1>4 DEF Keeps

LEMMA StepsOfReceipts ==
  ASSUME TypeInv, Places, [Next]_vars, ~Damage, Collecting'
  PROVE  \/ Rests \/ Replay \/ WriteFirstHead
         \/ \E event \in Event : RecordNew(event) \/ RecordAgain(event)
         \/ StoreEvent \/ AppendEvent \/ WriteHead \/ Reply
<1> USE DEF Rests, Collecting, Boot, Written, eventStore, checkpointStore, anchor, memory, flags, history
<1>1. CASE Startup
  <2>1. CASE Start \/ WriteKey \/ LoadPublicKey
    BY <2>1 DEF Start, WriteKey, LoadPublicKey
  <2>2. CASE ImportEntry
    BY <2>2 DEF ImportEntry
  <2>3. CASE ImportEntriesDone \/ ImportCheckpoint \/ ImportCheckpointsDone
    BY <2>3 DEF ImportEntriesDone, ImportCheckpoint, ImportCheckpointsDone
  <2>4. CASE WriteMarker
    <3>1. ~error
      BY <2>4, Zenon DEF WriteMarker
    <3> QED  BY <2>4, <3>1 DEF WriteMarker
  <2> QED  BY <1>1, <2>1, <2>2, <2>3, <2>4 DEF Startup
<1>3. ASSUME NEW condition, Refuse(condition) PROVE FALSE
  BY <1>3 DEF Refuse
<1>4. CASE Progress
  <2>1. CASE StoreCheckpoint
    <3>1. pc \notin Boot /\ ~error
      BY <2>1 DEF StoreCheckpoint, Places
    <3> QED  BY <1>3, <2>1, <3>1 DEF StoreCheckpoint
  <2>2. CASE AppendCheckpoint
    <3>1. pc \notin Boot /\ ~error
      BY <2>2 DEF AppendCheckpoint, Places
    <3> QED  BY <2>2, <3>1 DEF AppendCheckpoint
  <2> QED  BY <1>4, <2>1, <2>2 DEF Progress
<1>5. CASE Seal \/ Verify
  BY <1>5 DEF Seal, Verify, Places, OperationPcs
<1>6. CASE WriteFails \/ Crash
  BY <1>6 DEF WriteFails, Crash
<1>7. CASE UNCHANGED vars
  BY <1>7 DEF vars
<1> QED  BY <1>1, <1>4, <1>5, <1>6, <1>7 DEF Next

\* A restart takes its memory from what it has verified.
LEMMA ReplayKeeps ==
  ASSUME TypeInv, Places, IsFiniteSet(arc), Cardinality(Lost) <= 2, Collecting', Replay
  PROVE  MemoryTrue' /\ (LogHolds => LogHolds')
<1> USE DEF eventStore, checkpointStore, anchor, keys, memory, flags, history
<1>1. /\ pc = "replay" /\ VerifyOK
      /\ seq' = Len(log) /\ lastHash' = LastOfLog /\ knownHead' = head
      /\ pc' = IF head # Absent \/ marker THEN "idle" ELSE "import"
      /\ UNCHANGED <<log, arc, head, cur, acked>>
  BY DEF Replay, Collecting, LastOfLog
<1>2. \A r \in acked : InLog(r) /\ Binds(LastOfLog, r)
  BY <1>1, VerifiedFindsReceipts
<1>3. Linked /\ Ordered /\ (Anchored => head \in SignedHead /\ head.lastHash = LastOfLog)
  BY <1>1, VerifiedLines
<1>4. Len(LastOfLog) = Len(log)
  BY <1>3, LastBindsAll
<1>5. pc' = "idle" => Anchored
  BY <1>1 DEF Anchored
<1>6. pc' \in {"idle", "import"} /\ ~Written'
  BY <1>1 DEF Written
<1>7. MemoryTrue'
  <2>1. \A r \in acked' : Binds(lastHash', r)
    BY <1>1, <1>2
  <2>2. Len(lastHash') = seq'
    BY <1>1, <1>4
  <2>3. pc' = "idle" => knownHead' \in SignedHead /\ knownHead'.lastHash = lastHash'
    BY <1>1, <1>3, <1>5
  <2> QED  BY <1>6, <2>1, <2>2, <2>3 DEF MemoryTrue, Binds, LegacyEntry
<1>8. LogHolds'
  BY <1>1, <1>2, <1>6 DEF LogHolds, InLog
<1> QED  BY <1>7, <1>8

LEMMA ReplayKeepsAll ==
  ASSUME TypeInv, Places, MemoryTrue, [Next]_vars, ~Damage,
         IsFiniteSet(arc), Cardinality(Lost) <= 2, Collecting', Replay
  PROVE  Keeps
<1>1. UNCHANGED acked /\ ~Written' /\ pc' # "append" /\ pc' # "ack"
  BY DEF Replay, WhenUnverified, Written, history
<1> QED  BY <1>1, ReplayKeeps, OldReceipts DEF Keeps, ArchiveHolds, HeadHolds

LEMMA FirstHeadKeeps ==
  ASSUME TypeInv, Places, MemoryTrue, [Next]_vars, ~Damage, WriteFirstHead
  PROVE  Keeps
<1> USE DEF eventStore, checkpointStore, anchor, keys, memory, flags, history
<1>1. /\ pc = "initHead" /\ pc' = "marker" /\ head' = NewHead /\ knownHead' = NewHead
      /\ UNCHANGED <<log, arc, seq, lastHash, cur, error, acked>>
  BY DEF WriteFirstHead, SignHead
<1>2. Collecting
  BY <1>1 DEF Collecting, Boot, Places
<1>3. NewHead \in SignedHead /\ NewHead.lastHash = lastHash
  BY NewHeadType DEF TypeInv, TypeOK, NewHead
<1>4. MemoryTrue'
  BY <1>1, <1>2, <1>3 DEF MemoryTrue, Written, Binds, LegacyEntry
<1>5. ~Written' /\ pc' # "append" /\ pc' # "ack"
  BY <1>1 DEF Written
<1>6. LogHolds => LogHolds'
  BY <1>1, <1>2, <1>5, OldReceipts DEF LogHolds
<1> QED  BY <1>1, <1>4, <1>5, <1>6, OldReceipts DEF Keeps, ArchiveHolds, HeadHolds

LEMMA RecordNewKeeps ==
  ASSUME TypeInv, Places, MemoryTrue, [Next]_vars, ~Damage, NEW event \in Event, RecordNew(event)
  PROVE  Keeps
<1> USE DEF eventStore, checkpointStore, anchor, keys, memory, flags, history
<1>1. /\ pc = "idle" /\ ~error /\ pc' = "store" /\ cur' = NewEntry(event)
      /\ UNCHANGED <<log, arc, head, seq, lastHash, knownHead, error, acked>>
  BY DEF RecordNew, MayRecord
<1>2. Collecting
  BY <1>1 DEF Collecting, Boot
<1>3. /\ cur'.seq = seq /\ cur'.prev = lastHash
      /\ cur'.hash = Append(lastHash, event) /\ cur'.event = event
  BY <1>1 DEF NewEntry
<1>4. MemoryTrue'
  BY <1>1, <1>2, <1>3 DEF MemoryTrue, Written, Binds, LegacyEntry
<1>5. ~Written' /\ pc' # "append" /\ pc' # "ack"
  BY <1>1 DEF Written
<1>6. LogHolds => LogHolds'
  BY <1>1, <1>2, <1>5, OldReceipts DEF LogHolds
<1> QED  BY <1>1, <1>4, <1>5, <1>6, OldReceipts DEF Keeps, ArchiveHolds, HeadHolds

\* A repeated receipt is taken from an archive that has just been verified: it
\* is in all the places whatever was damaged before.
LEMMA RecordAgainKeeps ==
  ASSUME TypeInv, Places, MemoryTrue, [Next]_vars, ~Damage,
         IsFiniteSet(arc), Cardinality(Lost) <= 2, Collecting',
         NEW event \in Event, RecordAgain(event)
  PROVE  Keeps
<1> USE DEF eventStore, checkpointStore, anchor, keys, memory, flags, history
<1>1. /\ pc = "idle" /\ ~error /\ pc' = "idle" /\ ~error'
      /\ UNCHANGED <<log, arc, head, cur, seq, lastHash, knownHead>>
  BY DEF RecordAgain, MayRecord, Collecting, Boot
<1>2. Collecting
  BY <1>1 DEF Collecting, Boot
<1>3. PICK f \in arc : f.data # Damaged /\ VerifyOK /\ acked' = acked \cup {f.data}
  BY <1>1 DEF RecordAgain, FilesAt
<1>4. Anchored /\ head = knownHead /\ knownHead \in SignedHead /\ knownHead.lastHash = lastHash
  <2>1. knownHead \in SignedHead /\ knownHead.lastHash = lastHash
    BY <1>1, <1>2 DEF MemoryTrue
  <2>2. knownHead # Absent
    BY <2>1, MarkersAssumption
  <2> QED  BY <1>3, <2>1, <2>2 DEF Anchored, VerifyOK, BaselineOK
<1>5. Linked /\ Ordered /\ arc = FilesOfLog /\ head.lastHash = LastOfLog
  BY <1>3, <1>4, VerifiedLines
<1>6. PICK r : r = f.data
  OBVIOUS
<1>7. PICK i \in 1..Len(log) : f = EventFile(log[i])
  BY <1>5 DEF FilesOfLog
<1>8. r = log[i] /\ EventFile(r) \in arc /\ acked' = acked \cup {r}
  BY <1>3, <1>6, <1>7 DEF EventFile
<1>9. r.seq = i - 1 /\ r.seq + 1 = i /\ r.seq < Len(log) /\ Len(log) \in Nat
  <2>1. r.seq = i - 1 /\ Len(log) \in Nat
    BY <1>5, <1>8 DEF Ordered, TypeInv, TypeOK
  <2> QED  BY <2>1
<1>10. InLog(r) /\ Binds(lastHash, r)
  <2>1. /\ Len(LastOfLog) = Len(log)
        /\ \A j \in 1..Len(log) : log[j] = LegacyEntry(LastOfLog, j)
    BY <1>5, LastBindsAll
  <2>2. lastHash = LastOfLog
    BY <1>4, <1>5
  <2>3. r = LegacyEntry(lastHash, r.seq + 1) /\ r.seq < Len(lastHash)
    BY <1>8, <1>9, <2>1, <2>2
  <2> QED  BY <1>8, <1>9, <2>3 DEF InLog, Binds
<1>11. InHead(r)
  BY <1>4, <1>10 DEF InHead
<1>12. ~Written' /\ pc' # "append" /\ pc' # "ack"
  BY <1>1 DEF Written
<1>13. /\ InLog(r)' = InLog(r) /\ InHead(r)' = InHead(r) /\ EventFile(r)' = EventFile(r)
       /\ \A s : Binds(lastHash, s) => Binds(lastHash', s)
  BY <1>1 DEF InLog, InHead, EventFile, Binds, LegacyEntry
<1>14. MemoryTrue'
  <2>1. \A s \in acked' : Binds(lastHash', s)
    BY <1>2, <1>8, <1>10, <1>13 DEF MemoryTrue
  <2> QED  BY <1>1, <1>2, <1>12, <2>1 DEF MemoryTrue, Binds, LegacyEntry
<1>15. LogHolds => LogHolds'
  <2>1. LogHolds => \A s \in acked' : InLog(s)'
    BY <1>8, <1>10, <1>13, OldReceipts
  <2> QED  BY <1>1, <1>2, <1>12, <2>1 DEF LogHolds
<1>16. ArchiveHolds => ArchiveHolds'
  <2>1. ArchiveHolds => \A s \in acked' : (EventFile(s) \in arc)'
    BY <1>1, <1>8, <1>13, OldReceipts
  <2> QED  BY <1>12, <2>1 DEF ArchiveHolds
<1>17. HeadHolds => HeadHolds'
  <2>1. HeadHolds => \A s \in acked' : InHead(s)'
    BY <1>8, <1>11, <1>13, OldReceipts
  <2> QED  BY <1>12, <2>1 DEF HeadHolds
<1> QED  BY <1>14, <1>15, <1>16, <1>17 DEF Keeps

LEMMA StoreKeeps ==
  ASSUME TypeInv, Places, MemoryTrue, [Next]_vars, ~Damage, Collecting', StoreEvent
  PROVE  Keeps
<1> USE DEF eventStore, checkpointStore, anchor, keys, memory, flags, history
<1>1. /\ pc = "store" /\ pc' = "append" /\ arc' = arc \cup {EventFile(cur)}
      /\ UNCHANGED <<log, head, cur, seq, lastHash, knownHead, error, acked>>
  BY DEF StoreEvent, Refuse, Collecting
<1>2. Collecting
  BY <1>1 DEF Collecting, Boot, Places
<1>3. MemoryTrue'
  BY <1>1, <1>2 DEF MemoryTrue, Written, Binds, LegacyEntry
<1>4. ~Written' /\ pc' # "ack"
  BY <1>1 DEF Written
<1>5. LogHolds => LogHolds'
  BY <1>1, <1>2, <1>4, OldReceipts DEF LogHolds
<1>6. ArchiveHolds => ArchiveHolds'
  <2>1. EventFile(cur)' \in arc'
    BY <1>1 DEF EventFile
  <2> QED  BY <1>1, <2>1, OldReceipts DEF ArchiveHolds
<1> QED  BY <1>1, <1>3, <1>4, <1>5, <1>6, OldReceipts DEF Keeps, HeadHolds

LEMMA AppendKeeps ==
  ASSUME TypeInv, Places, MemoryTrue, [Next]_vars, ~Damage, AppendEvent
  PROVE  Keeps
<1> USE DEF eventStore, checkpointStore, anchor, keys, memory, flags, history
<1>1. /\ pc = "append" /\ pc' \in {"cpStore", "head"} /\ log' = Append(log, cur)
      /\ seq' = seq + 1 /\ lastHash' = cur.hash
      /\ UNCHANGED <<arc, head, cur, knownHead, error, acked>>
  BY DEF AppendEvent, AfterAppend
<1>2. Collecting /\ cur \in Entry /\ lastHash \in Hash /\ seq \in Nat
  BY <1>1 DEF Collecting, Boot, Places, TypeInv, TypeOK, InHand
<1>3. /\ Len(lastHash) = seq /\ cur.seq = seq /\ cur.prev = lastHash
      /\ cur.hash = Append(lastHash, cur.event)
  BY <1>1, <1>2 DEF MemoryTrue
<1>4. /\ Len(cur.hash) = seq + 1 /\ Binds(cur.hash, cur)
      /\ \A r \in Entry : Binds(lastHash, r) => Binds(cur.hash, r)
  BY <1>2, <1>3, BindsOn
<1>5. acked \subseteq Entry
  BY DEF TypeInv, TypeOK
<1>6. MemoryTrue'
  <2>1. \A r \in acked : Binds(cur.hash, r)
    BY <1>2, <1>4, <1>5 DEF MemoryTrue
  <2>2. Binds(lastHash', cur') /\ \A r \in acked' : Binds(lastHash', r)
    BY <1>1, <1>4, <2>1
  <2>3. Len(lastHash') = seq'
    BY <1>1, <1>4
  <2> QED  BY <1>1, <2>2, <2>3 DEF MemoryTrue, Binds, LegacyEntry
<1>7. LogHolds => LogHolds'
  <2>1. Len(log) \in Nat /\ Len(log') = Len(log) + 1 /\ log'[Len(log) + 1] = cur
    BY <1>1, <1>2, LineAdded
  <2>2. ASSUME LogHolds PROVE Len(log') = seq' /\ InLog(cur)'
    <3>1. Len(log) = seq
      BY <1>2, <2>2 DEF LogHolds
    <3>2. cur' = cur /\ cur.seq + 1 = Len(log) + 1 /\ cur.seq < Len(log')
      BY <1>1, <1>2, <1>3, <2>1, <3>1
    <3> QED  BY <1>1, <2>1, <3>1, <3>2 DEF InLog
  <2> QED  BY <1>1, <2>2, OldReceipts DEF LogHolds
<1>8. ArchiveHolds => ArchiveHolds'
  <2>1. ArchiveHolds => EventFile(cur)' \in arc'
    BY <1>1 DEF ArchiveHolds, EventFile
  <2> QED  BY <1>1, <2>1, OldReceipts DEF ArchiveHolds
<1>9. HeadHolds => HeadHolds'
  BY <1>1, OldReceipts DEF HeadHolds
<1> QED  BY <1>6, <1>7, <1>8, <1>9 DEF Keeps

LEMMA WriteHeadKeeps ==
  ASSUME TypeInv, Places, MemoryTrue, [Next]_vars, ~Damage, Collecting', WriteHead
  PROVE  Keeps
<1> USE DEF eventStore, checkpointStore, anchor, keys, memory, flags, history
<1>1. /\ pc = "head" /\ pc' = (IF cur = Absent THEN "idle" ELSE "ack")
      /\ head' = NewHead /\ knownHead' = NewHead
      /\ UNCHANGED <<log, arc, cur, seq, lastHash, error, acked>>
  BY DEF WriteHead, Refuse, Collecting, SignHead
<1>2. Collecting
  BY <1>1 DEF Collecting, Boot, Places
<1>3. NewHead \in SignedHead /\ NewHead.lastHash = lastHash
  BY NewHeadType DEF TypeInv, TypeOK, NewHead
<1>4. Written' => Written
  BY <1>1 DEF Written
<1>5. MemoryTrue'
  BY <1>1, <1>2, <1>3, <1>4 DEF MemoryTrue, Binds, LegacyEntry
<1>6. LogHolds => LogHolds'
  <2>1. InLog(cur)' = InLog(cur)
    BY <1>1 DEF InLog
  <2> QED  BY <1>1, <1>2, <1>4, <2>1, OldReceipts DEF LogHolds
<1>7. ArchiveHolds => ArchiveHolds'
  BY <1>1, <1>4 DEF ArchiveHolds, EventFile
<1>8. HeadHolds => HeadHolds'
  <2>1. ASSUME pc' = "ack" PROVE InHead(cur)'
    <3>1. Written
      BY <1>1, <2>1 DEF Written
    <3>2. Binds(lastHash, cur)
      BY <1>2, <3>1 DEF MemoryTrue
    <3>3. Binds(head'.lastHash, cur') /\ head' \in SignedHead
      BY <1>1, <1>3, <3>2
    <3> QED  BY <3>3 DEF InHead, Binds, LegacyEntry
  <2> QED  BY <2>1, <1>1, OldReceipts DEF HeadHolds
<1> QED  BY <1>5, <1>6, <1>7, <1>8 DEF Keeps

LEMMA ReplyKeeps ==
  ASSUME TypeInv, Places, MemoryTrue, [Next]_vars, ~Damage, Reply
  PROVE  Keeps
<1> USE DEF eventStore, checkpointStore, anchor, keys, memory, flags, history
<1>1. /\ pc = "ack" /\ pc' = "idle" /\ acked' = acked \cup {cur}
      /\ UNCHANGED <<log, arc, head, seq, lastHash, knownHead, error>>
  BY DEF Reply
<1>2. Collecting /\ cur # Absent /\ Written
  <2>1. cur \in Entry
    BY <1>1 DEF TypeInv, InHand
  <2> QED  BY <1>1, <2>1, MarkersAssumption DEF Collecting, Boot, Places, Written
<1>3. Binds(lastHash, cur)
  BY <1>2 DEF MemoryTrue
<1>4. ~Written' /\ pc' # "append" /\ pc' # "ack"
  BY <1>1 DEF Written
<1>5. PICK r : r = cur
  OBVIOUS
<1>6. /\ InLog(r)' = InLog(r) /\ InHead(r)' = InHead(r) /\ EventFile(r)' = EventFile(r)
      /\ acked' = acked \cup {r}
  BY <1>1, <1>5 DEF InLog, InHead, EventFile, Binds, LegacyEntry
<1>7. MemoryTrue'
  <2>1. \A s \in acked' : Binds(lastHash', s)
    BY <1>1, <1>2, <1>3 DEF MemoryTrue
  <2> QED  BY <1>1, <1>2, <1>4, <2>1 DEF MemoryTrue, Binds, LegacyEntry
<1>8. LogHolds => LogHolds'
  <2>1. LogHolds => \A s \in acked' : InLog(s)'
    BY <1>2, <1>5, <1>6, OldReceipts DEF LogHolds
  <2> QED  BY <1>1, <1>2, <1>4, <2>1 DEF LogHolds
<1>9. ArchiveHolds => ArchiveHolds'
  <2>1. ArchiveHolds => \A s \in acked' : (EventFile(s) \in arc)'
    BY <1>1, <1>2, <1>5, <1>6, OldReceipts DEF ArchiveHolds
  <2> QED  BY <1>4, <2>1 DEF ArchiveHolds
<1>10. HeadHolds => HeadHolds'
  <2>1. HeadHolds => \A s \in acked' : InHead(s)'
    BY <1>1, <1>5, <1>6, OldReceipts DEF HeadHolds
  <2> QED  BY <1>4, <2>1 DEF HeadHolds
<1> QED  BY <1>7, <1>8, <1>9, <1>10 DEF Keeps

LEMMA ProgramKeeps ==
  ASSUME TypeInv, Places, MemoryTrue, [Next]_vars, ~Damage,
         IsFiniteSet(arc), Cardinality(Lost) <= 2
  PROVE  Keeps
<1>1. CASE Collecting'
  <2>1. ASSUME NEW event \in Event, RecordNew(event) \/ RecordAgain(event) PROVE Keeps
    BY <1>1, <2>1, RecordNewKeeps, RecordAgainKeeps
  <2> QED  BY <1>1, <2>1, StepsOfReceipts, RestsKeeps, ReplayKeepsAll, FirstHeadKeeps, StoreKeeps,
              AppendKeeps, WriteHeadKeeps, ReplyKeeps
<1>2. CASE ~Collecting'
  <2>1. UNCHANGED acked
    <3> USE DEF history
    <3>1. CASE \E event \in Event : RecordAgain(event)
      <4>1. pc = "idle" /\ ~error /\ pc' = "idle"
        BY <3>1 DEF RecordAgain, MayRecord
      <4>2. error'
        BY <1>2, <4>1 DEF Collecting, Boot
      <4> QED  BY <3>1, <4>1, <4>2 DEF RecordAgain
    <3>2. CASE Reply
      BY <1>2, <3>2 DEF Reply, Collecting, Boot, Places, flags
    <3>3. CASE ~(\E event \in Event : RecordAgain(event)) /\ ~Reply
      BY <3>3, Zenon DEF Next, vars, Startup, Start, WriteKey, LoadPublicKey, Replay, ImportEntry,
         ImportEntriesDone, ImportCheckpoint, ImportCheckpointsDone, WriteFirstHead, WriteMarker,
         RecordNew, Progress, StoreEvent, AppendEvent, StoreCheckpoint, AppendCheckpoint,
         WriteHead, Refuse, Seal, Verify, WriteFails, Crash
    <3> QED  BY <3>1, <3>2, <3>3
  <2> QED  BY <1>2, <2>1, HaltsKeeps
<1> QED  BY <1>1, <1>2

\* The key that was pinned when the first receipt was given stays pinned, and
\* each process that starts with it expects a head.
KeyMoves ==
  /\ UNCHANGED <<pubFile, expectsAnchor>>
  /\ acked' = {} => acked = {}
  /\ knownHead' = knownHead \/ knownHead' \in SignedHead
  /\ pc' # "pub" /\ pc # "down"
  /\ (pc' \notin {"down", "key", "pub"} /\ ~error') => (pc \notin {"down", "key", "pub"} /\ ~error)
  /\ acked' = acked \/ (pc \in {"idle", "ack"} /\ ~error)

LEMMA KeyMovesKeep ==
  ASSUME TypeInv, MemoryTrue, KeyMoves, KeyHolds
  PROVE  KeyHolds'
<1>1. SignedHead \cap {Absent} = {}
  BY MarkersAssumption
<1>2. CASE acked' = acked
  BY <1>1, <1>2 DEF KeyMoves, KeyHolds
<1>3. CASE pc \in {"idle", "ack"} /\ ~error
  <2>1. Collecting /\ pubFile # 0
    BY <1>3 DEF Collecting, Boot, KeyHolds
  <2>2. knownHead \in SignedHead
    BY <1>3, <2>1 DEF MemoryTrue
  <2> QED  BY <1>1, <1>3, <2>1, <2>2 DEF KeyMoves, KeyHolds
<1> QED  BY <1>2, <1>3 DEF KeyMoves

LEMMA KeyKeeps ==
  ASSUME TypeInv, Places, MemoryTrue, [Next]_vars, ~Damage, KeyHolds
  PROVE  KeyHolds'
<1> USE DEF keys, flags, memory, history
<1>1. keyFile \in Nat /\ pubFile \in Nat
  BY DEF TypeInv, TypeOK
<1>2. CASE Startup
  <2>1. CASE Start
    BY <2>1 DEF Start, AnchorExpected, KeyHolds
  <2>2. CASE WriteKey
    BY <1>1, <2>2 DEF WriteKey, KeyHolds
  <2>3. CASE LoadPublicKey
    BY <1>1, <2>3 DEF LoadPublicKey, KeyHolds
  <2>4. CASE Replay
    <3>1. /\ pc = "replay" /\ pc' \in {"idle", "import"}
          /\ UNCHANGED <<keyFile, pubFile, expectsAnchor, acked>>
      BY <2>4 DEF Replay, WhenUnverified
    <3>2. VerifyOK => ~error /\ (knownHead # Absent => head # Absent)
      BY <3>1 DEF VerifyOK, BaselineOK, Places
    <3>3. (VerifyOK /\ knownHead' = head /\ UNCHANGED error) \/ (error' /\ UNCHANGED knownHead)
      BY <2>4 DEF Replay
    <3> QED  BY <3>1, <3>2, <3>3 DEF KeyHolds
  <2>5. CASE ImportEntry \/ ImportEntriesDone \/ ImportCheckpoint \/ ImportCheckpointsDone
    <3>1. KeyMoves
      BY <2>5 DEF KeyMoves, ImportEntry, ImportEntriesDone, ImportCheckpoint, ImportCheckpointsDone
    <3> QED  BY <3>1, KeyMovesKeep
  <2>6. CASE WriteFirstHead
    <3>1. NewHead \in SignedHead
      BY NewHeadType DEF TypeInv, TypeOK
    <3>2. KeyMoves
      BY <2>6, <3>1 DEF KeyMoves, WriteFirstHead, SignHead
    <3> QED  BY <3>2, KeyMovesKeep
  <2>7. CASE WriteMarker
    <3>1. pc = "marker" /\ ~error
      BY <2>7 DEF WriteMarker, Places
    <3>2. KeyMoves
      BY <2>7, <3>1 DEF KeyMoves, WriteMarker
    <3> QED  BY <3>2, KeyMovesKeep
  <2> QED  BY <1>2, <2>1, <2>2, <2>3, <2>4, <2>5, <2>6, <2>7 DEF Startup
<1>3. CASE \E event \in Event : RecordNew(event) \/ RecordAgain(event)
  <2>1. KeyMoves
    BY <1>3 DEF KeyMoves, RecordNew, RecordAgain, MayRecord
  <2> QED  BY <2>1, KeyMovesKeep
<1>4. ASSUME NEW condition, Refuse(condition), pc \in OperationPcs PROVE KeyMoves
  BY <1>4 DEF Refuse, KeyMoves, OperationPcs
<1>5. CASE Progress
  <2> USE DEF KeyMoves, OperationPcs, Places
  <2>1. CASE StoreEvent \/ StoreCheckpoint \/ AppendCheckpoint
    <3>1. KeyMoves
      BY <1>4, <2>1 DEF StoreEvent, StoreCheckpoint, AppendCheckpoint
    <3> QED  BY <3>1, KeyMovesKeep
  <2>2. CASE AppendEvent
    <3>1. KeyMoves
      BY <2>2 DEF AppendEvent, AfterAppend
    <3> QED  BY <3>1, KeyMovesKeep
  <2>3. CASE WriteHead
    <3>1. NewHead \in SignedHead
      BY NewHeadType DEF TypeInv, TypeOK
    <3>2. KeyMoves
      BY <1>4, <2>3, <3>1 DEF WriteHead, SignHead
    <3> QED  BY <3>2, KeyMovesKeep
  <2>4. CASE Reply
    <3>1. KeyMoves
      BY <2>4 DEF Reply
    <3> QED  BY <3>1, KeyMovesKeep
  <2> QED  BY <1>5, <2>1, <2>2, <2>3, <2>4 DEF Progress
<1>6. CASE Seal \/ Verify
  <2>1. KeyMoves
    BY <1>6 DEF KeyMoves, Seal, Verify
  <2> QED  BY <2>1, KeyMovesKeep
<1>7. CASE WriteFails
  BY <1>1, <1>7 DEF WriteFails, PartialWrite, KeyHolds, SignHead
<1>8. CASE Crash
  BY <1>1, <1>8 DEF Crash, PartialWrite, KeyHolds, SignHead
<1>9. CASE UNCHANGED vars
  BY <1>9 DEF vars, KeyHolds
<1> QED  BY <1>2, <1>3, <1>5, <1>6, <1>7, <1>8, <1>9 DEF Next

-----------------------------------------------------------------------------
(* A damage spoils one of the four at most.                                  *)

LEMMA DamageSpoilsOne ==
  ASSUME TypeInv, Damage
  PROVE  \E place : Lost' \subseteq Lost \cup {place}
<1> USE DEF eventStore, checkpointStore, anchor, keys, memory, flags
<1>1. /\ pc \in {"down", "idle"}
      /\ UNCHANGED <<pc, cur, seq, lastHash, knownHead, error, expectsAnchor, acked>>
  BY DEF Damage
<1>2. Collecting' = Collecting /\ ~Written /\ ~Written'
  BY <1>1 DEF Collecting, Written
<1>3. UNCHANGED log => (LogHolds => LogHolds')
  BY <1>1, <1>2 DEF LogHolds, InLog
<1>4. UNCHANGED arc => (ArchiveHolds => ArchiveHolds')
  BY <1>1, <1>2 DEF ArchiveHolds, EventFile
<1>5. UNCHANGED head => (HeadHolds => HeadHolds')
  BY <1>1, <1>2 DEF HeadHolds, InHead, Binds, LegacyEntry
<1>6. UNCHANGED pubFile => (KeyHolds => KeyHolds')
  BY <1>1 DEF KeyHolds
<1>7. ASSUME NEW place,
             place # "log" => UNCHANGED log, place # "archive" => UNCHANGED arc,
             place # "head" => UNCHANGED head, place # "key" => UNCHANGED pubFile
      PROVE  \E p : Lost' \subseteq Lost \cup {p}
  <2>1. Lost' \subseteq Lost \cup {place}
    BY <1>3, <1>4, <1>5, <1>6, <1>7 DEF Lost
  <2> QED  BY <2>1
<1>8. CASE DamageLog
  <2>1. UNCHANGED <<arc, head, pubFile>>
    BY <1>8 DEF DamageLog
  <2> QED  BY <1>7, <2>1
<1>9. CASE DamageArchive
  <2>1. UNCHANGED <<log, head, pubFile>>
    BY <1>9 DEF DamageArchive
  <2> QED  BY <1>7, <2>1
<1>10. CASE DamageCheckpoints
  <2>1. UNCHANGED <<log, arc, head, pubFile>>
    BY <1>10 DEF DamageCheckpoints
  <2> QED  BY <1>7, <2>1
<1>11. CASE DamageAnchor
  <2>1. UNCHANGED <<log, arc>> /\ (UNCHANGED head \/ UNCHANGED pubFile)
    BY <1>11 DEF DamageAnchor
  <2> QED  BY <1>7, <2>1
<1> QED  BY <1>8, <1>9, <1>10, <1>11 DEF Damage

LEMMA MemoryOutlivesDamage ==
  ASSUME MemoryTrue, Damage
  PROVE  MemoryTrue'
<1>1. UNCHANGED <<pc, cur, seq, lastHash, knownHead, error, acked>>
  BY DEF Damage, memory, flags
<1> QED  BY <1>1 DEF MemoryTrue, Collecting, Written, Binds, LegacyEntry

\* The archive is a finite set of files.
LEMMA ArchiveFinite ==
  ASSUME TypeInv, IsFiniteSet(arc), [Next]_vars
  PROVE  IsFiniteSet(arc')
<1> USE DEF eventStore
<1>1. ASSUME NEW files, arc' \subseteq arc \cup {files} PROVE IsFiniteSet(arc')
  <2>1. IsFiniteSet(arc \cup {files})
    BY FS_AddElement
  <2> QED  BY <1>1, <2>1, FS_Subset
<1>2. CASE Damage
  <2>1. CASE DamageArchive
    BY <2>1 DEF DamageArchive
  <2>2. CASE DamageLog \/ DamageCheckpoints \/ DamageAnchor
    BY <2>2 DEF DamageLog, DamageCheckpoints, DamageAnchor
  <2> QED  BY <1>2, <2>1, <2>2 DEF Damage
<1>3. CASE ~Damage
  <2>1. CASE ImportEntry \/ StoreEvent \/ WriteFails \/ Crash
    <3>1. CASE ImportEntry
      BY <1>1, <3>1 DEF ImportEntry
    <3>2. CASE StoreEvent
      BY <1>1, <3>2 DEF StoreEvent, Refuse
    <3>3. CASE WriteFails \/ Crash
      <4>1. PartialWrite
        BY <3>3 DEF WriteFails, Crash
      <4>2. UNCHANGED arc \/ \E f : arc' \in PartialFile(arc, f)
        BY <4>1 DEF PartialWrite
      <4>3. ASSUME NEW f, arc' \in PartialFile(arc, f) PROVE IsFiniteSet(arc')
        BY <1>1, <4>3 DEF PartialFile
      <4> QED  BY <4>2, <4>3
    <3> QED  BY <2>1, <3>1, <3>2, <3>3
  <2>2. CASE ~(ImportEntry \/ StoreEvent \/ WriteFails \/ Crash)
    <3>1. UNCHANGED arc
      BY <1>3, <2>2, Zenon DEF Next, vars, Startup, Start, WriteKey, LoadPublicKey, Replay,
         ImportEntriesDone, ImportCheckpoint, ImportCheckpointsDone, WriteFirstHead, WriteMarker,
         RecordNew, RecordAgain, Progress, AppendEvent, StoreCheckpoint, AppendCheckpoint,
         WriteHead, Reply, Refuse, Seal, Verify
    <3> QED  BY <3>1
  <2> QED  BY <2>1, <2>2
<1> QED  BY <1>2, <1>3

-----------------------------------------------------------------------------

LEMMA CompleteInit == Init => CompleteInv
<1> SUFFICES ASSUME NEW legacy \in Installations, Found(legacy) PROVE CompleteInv
  BY DEF Init
<1>1. IsFiniteSet(arc)
  <2>1. legacy.sealed \in Nat
    BY LegacyAssumption
  <2> DEFINE f == [i \in 1..legacy.sealed |-> EventFile(LegacyEntry(legacy.events, i))]
  <2>2. arc = {} \/ arc = {f[i] : i \in 1..legacy.sealed}
    BY DEF Found
  <2> HIDE DEF f
  <2> QED  BY <2>1, <2>2, ImageFinite, FS_EmptySet
<1>2. pc = "down" /\ acked = {} /\ damage = 0
  BY DEF Found
<1>3. MemoryTrue
  BY <1>2 DEF MemoryTrue, Collecting, Boot
<1>4. LogHolds /\ ArchiveHolds /\ HeadHolds /\ KeyHolds
  BY <1>2 DEF LogHolds, ArchiveHolds, HeadHolds, KeyHolds, Written, Collecting, Boot
<1>5. Lost = {}
  BY <1>4 DEF Lost
<1> QED  BY <1>1, <1>2, <1>3, <1>5, FS_EmptySet DEF CompleteInv

LEMMA OnlyDamageCounts ==
  ASSUME [Next]_vars, ~Damage
  PROVE  damage' = damage
BY Zenon DEF Next, vars, Startup, Start, WriteKey, LoadPublicKey, Replay,
   ImportEntry, ImportEntriesDone, ImportCheckpoint, ImportCheckpointsDone, WriteFirstHead,
   WriteMarker, RecordNew, RecordAgain, Progress, StoreEvent, AppendEvent, StoreCheckpoint,
   AppendCheckpoint, WriteHead, Reply, Refuse, Seal, Verify, WriteFails, Crash, history

LEMMA DamageGrows ==
  ASSUME TypeInv, [Next]_vars, damage' <= 2
  PROVE  damage <= 2
<1>1. damage \in Nat
  BY BoundsAssumption DEF TypeInv, TypeOK
<1>2. CASE Damage
  <2>1. damage' = damage + 1
    BY <1>2 DEF Damage
  <2> QED  BY <1>1, <2>1
<1>3. CASE ~Damage
  BY <1>3, OnlyDamageCounts
<1> QED  BY <1>2, <1>3

LEMMA CompleteStep ==
  ASSUME TypeInv, Places, damage <= 2, CompleteInv, [Next]_vars
  PROVE  CompleteInv'
<1>1. damage \in 0..MaxDamage /\ MaxDamage \in Nat /\ damage <= 2
  BY BoundsAssumption DEF TypeInv, TypeOK
<1>2. Cardinality(Lost) <= 2 /\ IsFiniteSet(Lost) /\ Cardinality(Lost) \in Nat
  BY <1>1, LostFinite DEF CompleteInv
<1>3. IsFiniteSet(arc')
  BY ArchiveFinite DEF CompleteInv
<1>4. CASE Damage
  <2>1. PICK place : Lost' \subseteq Lost \cup {place}
    BY <1>4, DamageSpoilsOne
  <2>2. IsFiniteSet(Lost \cup {place}) /\ Cardinality(Lost \cup {place}) <= Cardinality(Lost) + 1
    BY <1>2, FS_AddElement
  <2>3. Cardinality(Lost') <= Cardinality(Lost \cup {place})
    BY <2>1, <2>2, FS_Subset
  <2>4. damage' = damage + 1
    BY <1>4 DEF Damage
  <2>5. Cardinality(Lost') \in Nat /\ Cardinality(Lost \cup {place}) \in Nat
    BY <2>1, <2>2, FS_Subset, FS_CardinalityType
  <2>6. Cardinality(Lost') <= damage'
    BY <1>1, <1>2, <2>2, <2>3, <2>4, <2>5 DEF CompleteInv
  <2> QED  BY <1>3, <1>4, <2>6, MemoryOutlivesDamage DEF CompleteInv
<1>5. CASE ~Damage
  <2>1. Keeps
    BY <1>2, <1>5, ProgramKeeps DEF CompleteInv
  <2>2. KeyHolds => KeyHolds'
    BY <1>5, KeyKeeps DEF CompleteInv
  <2>3. Lost' \subseteq Lost
    BY <2>1, <2>2 DEF Keeps, Lost
  <2>4. Cardinality(Lost') <= Cardinality(Lost) /\ Cardinality(Lost') \in Nat
    BY <1>2, <2>3, FS_Subset, FS_CardinalityType
  <2>5. damage' = damage
    BY <1>5, OnlyDamageCounts
  <2>6. Cardinality(Lost') <= damage'
    BY <1>1, <1>2, <2>4, <2>5 DEF CompleteInv
  <2> QED  BY <1>3, <2>1, <2>6 DEF CompleteInv, Keeps
<1> QED  BY <1>4, <1>5

CompleteUpToTwo == damage <= 2 => CompleteInv

\* verify_chain never says VERIFIED of a history that lost or changed an entry
\* some publisher holds a receipt for, while at most two artifacts were damaged,
\* at any times, through any crashes, restarts, imports and retries.  A damage
\* puts any lines in the place of a log (lost, altered, exchanged, repeated,
\* inserted, rewritten with every hash computed anew) or any files in that of an
\* archive, loses or garbles the head or puts back any head the agent ever
\* signed, or loses the marker or a key file.  Heads are not forged and keys not
\* exchanged.  Three are too many: a log, an archive and a head rolled back
\* together agree with each other.
THEOREM TwoDamagesAreSeen == Spec => [](damage <= 2 => VerifiedMeansComplete)
<1>1. TypeInv /\ Places /\ CompleteUpToTwo => (damage <= 2 => VerifiedMeansComplete)
  <2> SUFFICES ASSUME TypeInv, Places, damage <= 2, CompleteInv, pc = "idle", VerifyOK,
                      NEW r \in acked
               PROVE  InLog(r) /\ EventFile(r) \in arc
    BY DEF VerifiedMeansComplete, InLog, CompleteUpToTwo
  <2>1. damage \in Nat
    BY BoundsAssumption DEF TypeInv, TypeOK
  <2>2. Cardinality(Lost) <= 2
    BY <2>1, LostFinite DEF CompleteInv
  <2> QED  BY <2>2, VerifiedFindsReceipts DEF CompleteInv
<1>2. EvidenceInv => TypeInv /\ Places
  BY DEF EvidenceInv
<1>3. TypeInv /\ Places /\ CompleteUpToTwo /\ [Next]_vars => CompleteUpToTwo'
  BY CompleteStep, DamageGrows DEF CompleteUpToTwo
<1>4. Init => CompleteUpToTwo
  BY CompleteInit DEF CompleteUpToTwo
<1> QED  BY <1>1, <1>2, <1>3, <1>4, EvidenceAlways, PTL DEF Spec

\* The same with the damages bounded beforehand, as the runs bound them.
THEOREM VerifiedIsComplete ==
  ASSUME MaxDamage <= 2
  PROVE  Spec => []VerifiedMeansComplete
<1>1. EvidenceInv => damage <= 2
  BY BoundsAssumption DEF EvidenceInv, TypeInv, TypeOK
<1> QED  BY <1>1, TwoDamagesAreSeen, EvidenceAlways, PTL

===============================================================================
