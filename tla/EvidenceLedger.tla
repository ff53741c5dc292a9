---------------------------- MODULE EvidenceLedger ----------------------------
(***************************************************************************)
(* The evidence writer of agent/forensics: AuditLogger (audit_logger.py),  *)
(* the EvidenceArchive beneath it (evidence_archive.py) and the durable    *)
(* writes of both (storage.py).                                            *)
(*                                                                         *)
(* Every public method of AuditLogger holds one re-entrant lock, so the    *)
(* operations of one process never overlap.  What does come between two    *)
(* writes of an operation is a failed write (OSError) or the death of the  *)
(* process; between two operations, damage to the files.  pc says where    *)
(* the process is inside the lock.                                         *)
(*                                                                         *)
(* SHA-256 is modelled as injective.  The hash of an entry binds its event *)
(* and the hash before it, so it is modelled as the sequence of all events *)
(* up to the entry.  The Merkle root of a checkpoint is modelled by its    *)
(* leaves (module MerkleTree checks the tree itself), the digest of a      *)
(* checkpoint by the leaves of all checkpoints up to it.  A file or line   *)
(* that does not decode, and a head or checkpoint whose signature fails,   *)
(* is Damaged.  An empty file and an absent one are not told apart.        *)
(***************************************************************************)
EXTENDS Integers, Sequences, FiniteSets

CONSTANTS
  EventIds,       \* the identifiers publishers use
  Contents,       \* the contents an event may carry, its timestamp left out
  Interval,       \* checkpoint_interval: a checkpoint is due at this many entries
  Installations,  \* the data directories the first start may find: the events of a
                  \* version 2.0 log, how many its only checkpoint covers, and
                  \* whether the archive has the copies made with it
  OtherLogs(_),   \* what may be put in the place of a log by somebody else
  OtherArchives(_),       \* ... of the archived entries
  OtherCheckpointLogs(_), \* ... of the log of checkpoints
  OtherCheckpointArchives(_), \* ... of the archived checkpoints
  MaxDamage,      \* bound: how many artifacts may be lost or altered from outside
  Absent,         \* no file, no value
  Damaged         \* bytes that do not decode or fail their signature

Event == [id : EventIds, content : Contents]
Hash == Seq(Event)
Entry == [seq : Nat, event : Event, prev : Hash, hash : Hash]
CpDigest == Seq(Seq(Hash))
Checkpoint == [cpSeq : Nat, start : Nat, end : Int, leaves : Seq(Hash), prev : CpDigest]
SignedHead == [total : Nat, lastHash : Hash, cpCount : Nat, lastCp : CpDigest, pending : Seq(Hash)]
EventFiles == [seq : Nat, data : Entry \cup {Damaged}]
CheckpointFiles == [seq : Nat, data : Checkpoint \cup {Damaged}]

ASSUME BoundsAssumption ==
  /\ Interval \in Nat \ {0}
  /\ MaxDamage \in Nat

ASSUME LegacyAssumption ==
  \A legacy \in Installations :
    /\ legacy.events \in Seq(Event)
    /\ \A i, j \in 1..Len(legacy.events) :
         legacy.events[i].id = legacy.events[j].id => i = j
    /\ legacy.sealed \in 0..Len(legacy.events)
    /\ legacy.archived \in BOOLEAN

ASSUME MarkersAssumption ==
  /\ Damaged \notin Entry \cup Checkpoint \cup SignedHead
  /\ Absent \notin Entry \cup Checkpoint \cup SignedHead
  /\ Damaged # Absent

VARIABLES
  \* What is on disk.
  log,            \* audit_log.jsonl, a sequence of lines
  arc,            \* archive/events: a set of files, each named by its seq
  cpLog,          \* checkpoints.jsonl
  cpArc,          \* archive/checkpoints: a set of files
  head,           \* archive/head.json
  heads,          \* history: every head that was ever signed
  marker,         \* integrity_v2.marker exists
  keyFile,        \* ed25519_key.pem: 0 when absent, else which key it is
  pubFile,        \* ed25519_public_key.hex, likewise
  \* What the process holds in memory.
  pc,             \* where the process is inside the lock
  cur,            \* the entry being recorded, Absent when sealing
  seq,            \* _seq
  lastHash,       \* _last_hash
  pending,        \* _pending_batch
  cps,            \* _checkpoints
  ids,            \* _event_ids, a set of pairs
  knownHead,      \* _known_head
  expectsAnchor,  \* _expects_anchor
  error,          \* collection_error is set: collection is paused
  startupError,   \* _startup_errors is not empty
  \* History.
  acked,          \* the receipts returned to publishers
  damage,         \* how many artifacts were damaged so far
  interrupted     \* some write sequence was cut short by a crash or an OSError

eventStore == <<log, arc>>
checkpointStore == <<cpLog, cpArc>>
anchor == <<head, heads, marker>>
keys == <<keyFile, pubFile>>
memory == <<seq, lastHash, pending, cps, ids, knownHead>>
flags == <<expectsAnchor, error, startupError>>
history == <<acked, damage, interrupted>>
vars == <<log, arc, cpLog, cpArc, head, heads, marker, keyFile, pubFile,
          pc, cur, seq, lastHash, pending, cps, ids, knownHead,
          expectsAnchor, error, startupError,
          acked, damage, interrupted>>

StartupPcs == {"key", "pub", "replay", "import", "importCp", "initHead", "marker"}
OperationPcs == {"store", "append", "cpStore", "cpAppend", "head", "ack"}

-----------------------------------------------------------------------------
(* Digests, files and the records an operation writes.                       *)

Digest(entry) == Append(entry.prev, entry.event)
DigestOfCheckpoint(cp) == Append(cp.prev, cp.leaves)

EventFile(entry) == [seq |-> entry.seq, data |-> entry]
FilesAt(n) == {f \in arc : f.seq = n}
CheckpointFile(cp) == [seq |-> cp.cpSeq, data |-> cp]
CheckpointFilesAt(n) == {f \in cpArc : f.seq = n}

NewEntry(event) ==
  [seq |-> seq, event |-> event, prev |-> lastHash, hash |-> Append(lastHash, event)]

NewCheckpoint ==
  [cpSeq  |-> Len(cps),
   start  |-> pending[1].seq,
   end    |-> pending[Len(pending)].seq,
   leaves |-> [i \in 1..Len(pending) |-> pending[i].hash],
   prev   |-> IF cps = <<>> THEN <<>> ELSE DigestOfCheckpoint(cps[Len(cps)])]

\* Mutants: the head counts from the wrong end, or only the unsealed entries.
TotalOffByOne == seq - 1
TotalOfBatch == Len(pending)
SignedTotal == seq

NewHead ==
  [total    |-> SignedTotal,
   lastHash |-> lastHash,
   cpCount  |-> Len(cps),
   lastCp   |-> IF cps = <<>> THEN <<>> ELSE DigestOfCheckpoint(cps[Len(cps)]),
   pending  |-> [i \in 1..Len(pending) |-> pending[i].hash]]

SignHead == head' = NewHead /\ heads' = heads \cup {NewHead}

-----------------------------------------------------------------------------
(* verify_chain: what is compared with what.  VerifyOK holds when the list   *)
(* of issues it collects is empty.                                           *)

Anchored == head # Absent \/ marker \/ knownHead # Absent \/ expectsAnchor

\* Some signed head exists, is the one last written by this process, and the
\* pinned key file is still there.
BaselineOK ==
  /\ head # Damaged
  /\ Anchored => head # Absent /\ pubFile # 0
  /\ knownHead # Absent => head = knownHead

CheckpointOK(k) ==
  LET cp == cpLog[k] IN
  /\ CheckpointFilesAt(k - 1) \subseteq {CheckpointFile(cp)}
  /\ Anchored => CheckpointFilesAt(k - 1) # {}
  /\ cp.cpSeq = k - 1
  /\ cp.start = IF k = 1 THEN 0 ELSE cpLog[k - 1].end + 1
  /\ cp.leaves # <<>>
  /\ cp.end = cp.start + Len(cp.leaves) - 1
  /\ cp.prev = IF k = 1 THEN <<>> ELSE DigestOfCheckpoint(cpLog[k - 1])

\* How many entries the checkpoints cover.
Covered == IF cpLog = <<>> THEN 0 ELSE cpLog[Len(cpLog)].end + 1

ExpectedCheckpoints ==
  IF head # Absent THEN head.cpCount
  ELSE IF Len(cpLog) >= Cardinality(cpArc) THEN Len(cpLog) ELSE Cardinality(cpArc)

CheckpointsOK ==
  /\ \A k \in 1..Len(cpLog) : cpLog[k] # Damaged
  /\ Len(cpLog) = ExpectedCheckpoints
  /\ Anchored => Cardinality(cpArc) = ExpectedCheckpoints
  /\ \A k \in 1..Len(cpLog) : CheckpointOK(k)
  /\ Covered <= Len(log)
  /\ \A k \in 1..Len(cpLog) : \A j \in 1..Len(cpLog[k].leaves) :
       Digest(log[cpLog[k].start + j]) = cpLog[k].leaves[j]

EntryOK(i) ==
  /\ log[i].seq = i - 1
  /\ log[i].prev = IF i = 1 THEN <<>> ELSE log[i - 1].hash
  /\ log[i].hash = Digest(log[i])
  /\ FilesAt(i - 1) \subseteq {EventFile(log[i])}
  /\ Anchored => FilesAt(i - 1) # {}
  /\ \A j \in 1..(i - 1) : log[j].event.id # log[i].event.id

LinesDecode == \A i \in 1..Len(log) : log[i] # Damaged

EntriesOK ==
  /\ Cardinality(arc) <= Len(log)
  /\ Anchored => Cardinality(arc) = Len(log)
  /\ \A i \in 1..Len(log) : EntryOK(i)

\* Mutant: only the checkpoints are held against the head.
HeadOKCheckpoints ==
  head.lastCp = IF cpLog = <<>> THEN <<>> ELSE DigestOfCheckpoint(cpLog[Len(cpLog)])

\* What the signed head says of the log and of the last checkpoint.
HeadOK ==
  /\ head.total = Covered + Len(head.pending)
  /\ head.total = Len(log)
  /\ head.lastCp = IF cpLog = <<>> THEN <<>> ELSE DigestOfCheckpoint(cpLog[Len(cpLog)])
  /\ \A j \in 1..Len(head.pending) : Digest(log[Covered + j]) = head.pending[j]
  /\ head.lastHash = IF log = <<>> THEN <<>> ELSE log[Len(log)].hash

VerifyOK ==
  /\ ~startupError
  /\ BaselineOK
  /\ LinesDecode
  /\ CheckpointsOK
  /\ EntriesOK
  /\ head # Absent => HeadOK

-----------------------------------------------------------------------------
(* A fresh installation, or a data directory left by version 2.0: a log, at  *)
(* most one checkpoint, the signing key and, unless the archive is elsewhere *)
(* now, copies of the checkpoint and of the entries it covers.               *)

LegacyEntry(events, i) ==
  [seq   |-> i - 1,
   event |-> events[i],
   prev  |-> SubSeq(events, 1, i - 1),
   hash  |-> SubSeq(events, 1, i)]

LegacyCheckpoint(legacy) ==
  [cpSeq |-> 0, start |-> 0, end |-> legacy.sealed - 1,
   leaves |-> [i \in 1..legacy.sealed |-> SubSeq(legacy.events, 1, i)],
   prev |-> <<>>]

Found(legacy) ==
  /\ log = [i \in 1..Len(legacy.events) |-> LegacyEntry(legacy.events, i)]
  /\ arc = IF legacy.archived
             THEN {EventFile(LegacyEntry(legacy.events, i)) : i \in 1..legacy.sealed} ELSE {}
  /\ cpLog = IF legacy.sealed = 0 THEN <<>> ELSE <<LegacyCheckpoint(legacy)>>
  /\ cpArc = IF legacy.archived /\ legacy.sealed # 0
               THEN {CheckpointFile(LegacyCheckpoint(legacy))} ELSE {}
  /\ head = Absent /\ heads = {} /\ marker = FALSE
  /\ keyFile = IF legacy.events = <<>> THEN 0 ELSE 1
  /\ pubFile = 0
  /\ pc = "down" /\ cur = Absent
  /\ seq = 0 /\ lastHash = <<>> /\ pending = <<>> /\ cps = <<>> /\ ids = {}
  /\ knownHead = Absent
  /\ expectsAnchor = FALSE /\ error = FALSE /\ startupError = FALSE
  /\ acked = {} /\ damage = 0 /\ interrupted = FALSE

Init == \E legacy \in Installations : Found(legacy)

-----------------------------------------------------------------------------
(* AuditLogger.__init__: _load_key, then _replay.                            *)

Existing == log # <<>> \/ cpLog # <<>> \/ head # Absent \/ marker \/ arc # {}

\* Mutant: asked after _load_key has written the public key.
AnchorAfterKey == TRUE
AnchorExpected == pubFile # 0 \/ marker

\* The anchor is expected if the pinned key or the marker is there before
\* _load_key has run.  A missing key is replaced only when there is nothing
\* it could have signed.
Start ==
  /\ pc = "down"
  /\ expectsAnchor' = AnchorExpected
  /\ \/ /\ keyFile # 0
        /\ pc' = "pub"
        /\ UNCHANGED <<error, startupError>>
     \/ /\ keyFile = 0 /\ ~Existing
        /\ pc' = "key"
        /\ UNCHANGED <<error, startupError>>
     \/ /\ keyFile = 0 /\ Existing
        /\ pc' = "replay"
        /\ error' = TRUE /\ startupError' = TRUE
  /\ UNCHANGED <<eventStore, checkpointStore, anchor, keys, cur, memory, history>>

\* A generated key differs from whatever key the public file pins.
WriteKey ==
  /\ pc = "key"
  /\ keyFile' = pubFile + 1
  /\ pc' = "pub"
  /\ UNCHANGED <<eventStore, checkpointStore, anchor, pubFile, cur, memory, flags, history>>

LoadPublicKey ==
  /\ pc = "pub"
  /\ pc' = "replay"
  /\ \/ /\ pubFile = keyFile
        /\ UNCHANGED <<pubFile, error, startupError>>
     \/ /\ pubFile = 0 /\ ~marker
        /\ pubFile' = keyFile
        /\ UNCHANGED <<error, startupError>>
     \/ /\ pubFile # keyFile
        /\ pubFile # 0 \/ marker
        /\ error' = TRUE /\ startupError' = TRUE
        /\ UNCHANGED pubFile
  /\ UNCHANGED <<eventStore, checkpointStore, anchor, keyFile, cur, memory,
                 expectsAnchor, history>>

\* Mutant: identifiers are forgotten over a restart.
NoIds == {}
IdsOfLog == {[id |-> log[i].event.id, seq |-> log[i].seq] : i \in 1..Len(log)}
Unsealed == SubSeq(log, Covered + 1, Len(log))

WhenUnverified == "idle"

\* verify_chain; when it passes, memory is rebuilt from the files, and a
\* directory with neither head nor marker is imported.
Replay ==
  /\ pc = "replay"
  /\ \/ /\ ~VerifyOK
        /\ error' = TRUE
        /\ pc' = WhenUnverified
        /\ UNCHANGED memory
     \/ /\ VerifyOK
        /\ cps' = cpLog
        /\ seq' = Len(log)
        /\ lastHash' = IF log = <<>> THEN <<>> ELSE log[Len(log)].hash
        /\ ids' = IdsOfLog
        /\ pending' = Unsealed
        /\ knownHead' = head
        /\ pc' = IF head # Absent \/ marker THEN "idle" ELSE "import"
        /\ UNCHANGED error
  /\ UNCHANGED <<eventStore, checkpointStore, anchor, keys, cur,
                 expectsAnchor, startupError, history>>

\* The one-time import: store_batch(entries), store_checkpoint for each
\* checkpoint, the first head, the marker.  Copies already there are kept.
Unstored == {i \in 1..Len(log) : FilesAt(i - 1) = {}}
UnstoredCheckpoints == {k \in 1..Len(cps) : CheckpointFilesAt(k - 1) = {}}
IsFirst(i, S) == i \in S /\ \A j \in S : i <= j

ImportEntry ==
  /\ pc = "import"
  /\ \E i \in Unstored :
       /\ IsFirst(i, Unstored)
       /\ arc' = arc \cup {EventFile(log[i])}
  /\ UNCHANGED <<log, checkpointStore, anchor, keys, pc, cur, memory, flags, history>>

ImportEntriesDone ==
  /\ pc = "import" /\ Unstored = {}
  /\ pc' = "importCp"
  /\ UNCHANGED <<eventStore, checkpointStore, anchor, keys, cur, memory, flags, history>>

ImportCheckpoint ==
  /\ pc = "importCp"
  /\ \E k \in UnstoredCheckpoints :
       /\ IsFirst(k, UnstoredCheckpoints)
       /\ cpArc' = cpArc \cup {CheckpointFile(cps[k])}
  /\ UNCHANGED <<eventStore, cpLog, anchor, keys, pc, cur, memory, flags, history>>

ImportCheckpointsDone ==
  /\ pc = "importCp" /\ UnstoredCheckpoints = {}
  /\ pc' = "initHead"
  /\ UNCHANGED <<eventStore, checkpointStore, anchor, keys, cur, memory, flags, history>>

WriteFirstHead ==
  /\ pc = "initHead"
  /\ SignHead /\ knownHead' = NewHead
  /\ pc' = "marker"
  /\ UNCHANGED <<eventStore, checkpointStore, marker, keys, cur, seq, lastHash,
                 pending, cps, ids, flags, acked, damage, interrupted>>

\* The closing verify_chain of _replay runs with the marker in place.
WriteMarker ==
  /\ pc = "marker"
  /\ marker' = TRUE
  /\ pc' = "idle"
  /\ UNCHANGED <<eventStore, checkpointStore, head, heads, keys, cur, memory,
                 expectsAnchor, startupError, history>>
  /\ error' = (error \/ ~VerifyOK')

-----------------------------------------------------------------------------
(* record: a new event is written as archive file, log line, perhaps a       *)
(* checkpoint, and head, before its receipt is returned.                     *)

\* Mutant: no identifier is looked up.
NeverRecorded(id) == FALSE
MayRecord == pc = "idle" /\ ~error
Recorded(id) == \E k \in ids : k.id = id

RecordNew(event) ==
  /\ MayRecord
  /\ ~Recorded(event.id)
  /\ cur' = NewEntry(event)
  /\ pc' = "store"
  /\ UNCHANGED <<eventStore, checkpointStore, anchor, keys, memory, flags, history>>

\* Mutant: a retry is refused.
RecordAgainRefused(event) ==
  /\ MayRecord /\ Recorded(event.id)
  /\ UNCHANGED vars

\* An event_id seen before.  The archived original is read: gone, collection
\* is paused; unreadable, with another content or failing its own digest, the
\* call is refused; equal, the whole evidence is verified before the original
\* receipt is returned again.
RecordAgain(event) ==
  /\ MayRecord
  /\ \E k \in ids :
       /\ k.id = event.id
       /\ \/ /\ FilesAt(k.seq) = {}
             /\ error' = TRUE
             /\ UNCHANGED acked
          \/ \E f \in FilesAt(k.seq) :
               /\ FilesAt(k.seq) = {f}
               /\ f.data # Damaged
               /\ f.data.event = event
               /\ Digest(f.data) = f.data.hash
               /\ \/ /\ VerifyOK
                     /\ acked' = acked \cup {f.data}
                     /\ UNCHANGED error
                  \/ /\ ~VerifyOK
                     /\ error' = TRUE
                     /\ UNCHANGED acked
  /\ UNCHANGED <<eventStore, checkpointStore, anchor, keys, pc, cur, memory,
                 expectsAnchor, startupError, damage, interrupted>>

\* A write that is refused because what it finds on disk is not what this
\* process wrote sets collection_error like a failed one.
Refuse(condition) ==
  /\ condition
  /\ error' = TRUE
  /\ pc' = "idle" /\ cur' = Absent
  /\ UNCHANGED <<eventStore, checkpointStore, anchor, keys, memory,
                 expectsAnchor, startupError, history>>

StoreEvent ==
  /\ pc = "store"
  /\ \/ /\ FilesAt(cur.seq) \subseteq {EventFile(cur)}
        /\ arc' = arc \cup {EventFile(cur)}
        /\ pc' = "append"
        /\ UNCHANGED <<log, checkpointStore, anchor, keys, cur, memory, flags, history>>
     \/ Refuse(~(FilesAt(cur.seq) \subseteq {EventFile(cur)}))

\* Mutant: without a checkpoint the head is not renewed.
AfterAppendHeadless == IF Len(pending') >= Interval THEN "cpStore" ELSE "ack"
AfterAppend == IF Len(pending') >= Interval THEN "cpStore" ELSE "head"

AppendEvent ==
  /\ pc = "append"
  /\ log' = Append(log, cur)
  /\ seq' = seq + 1
  /\ lastHash' = cur.hash
  /\ pending' = Append(pending, cur)
  /\ ids' = ids \cup {[id |-> cur.event.id, seq |-> cur.seq]}
  /\ pc' = AfterAppend
  /\ UNCHANGED <<arc, checkpointStore, anchor, keys, cur, cps, knownHead, flags, history>>

\* A new checkpoint carries the time, so it equals no file already there.
StoreCheckpoint ==
  /\ pc = "cpStore"
  /\ \/ /\ CheckpointFilesAt(Len(cps)) = {}
        /\ cpArc' = cpArc \cup {CheckpointFile(NewCheckpoint)}
        /\ pc' = "cpAppend"
        /\ UNCHANGED <<eventStore, cpLog, anchor, keys, cur, memory, flags, history>>
     \/ Refuse(CheckpointFilesAt(Len(cps)) # {})

\* Mutant: the batch is not emptied.
KeptBatch == pending
NextBatch == <<>>

AppendCheckpoint ==
  /\ pc = "cpAppend"
  /\ cpLog' = Append(cpLog, NewCheckpoint)
  /\ cps' = Append(cps, NewCheckpoint)
  /\ pending' = NextBatch
  /\ pc' = "head"
  /\ UNCHANGED <<eventStore, cpArc, anchor, keys, cur, seq, lastHash, ids, knownHead,
                 flags, history>>

\* _write_head replaces the head only if it is still the one it wrote last.
WriteHead ==
  /\ pc = "head"
  /\ \/ /\ knownHead # Absent => head = knownHead
        /\ SignHead /\ knownHead' = NewHead
        /\ pc' = IF cur = Absent THEN "idle" ELSE "ack"
        /\ UNCHANGED <<eventStore, checkpointStore, marker, keys, cur, seq, lastHash,
                       pending, cps, ids, flags, history>>
     \/ Refuse(knownHead # Absent /\ head # knownHead)

Reply ==
  /\ pc = "ack"
  /\ acked' = acked \cup {cur}
  /\ cur' = Absent
  /\ pc' = "idle"
  /\ UNCHANGED <<eventStore, checkpointStore, anchor, keys, memory, flags,
                 damage, interrupted>>

\* seal: the pending entries are covered by a checkpoint at once.
Seal ==
  /\ pc = "idle" /\ ~error
  /\ pending # <<>>
  /\ pc' = "cpStore"
  /\ UNCHANGED <<eventStore, checkpointStore, anchor, keys, cur, memory, flags, history>>

\* verify_chain as the monitor, a reader or an operator calls it: a failed
\* verification pauses collection, and only a restart lifts the pause.
Verify ==
  /\ pc = "idle" /\ ~error
  /\ ~VerifyOK
  /\ error' = TRUE
  /\ UNCHANGED <<eventStore, checkpointStore, anchor, keys, pc, cur, memory,
                 expectsAnchor, startupError, history>>

-----------------------------------------------------------------------------
(* What a write that does not finish leaves behind.                          *)

\* immutable_write creates the file, then fills it.
PartialFile(files, f) ==
  {files, files \cup {[f EXCEPT !.data = Damaged]}, files \cup {f}}
\* _append writes a line: none, part or all of it may reach the disk.
PartialLine(lines, line) == {lines, Append(lines, Damaged), Append(lines, line)}

PartialWrite ==
  \/ /\ pc \in {"idle", "replay", "ack"}
     /\ UNCHANGED <<eventStore, checkpointStore, anchor, keys>>
  \/ /\ pc = "key"
     /\ keyFile' \in {keyFile, pubFile + 1}
     /\ UNCHANGED <<eventStore, checkpointStore, anchor, pubFile>>
  \/ /\ pc = "pub"
     /\ pubFile' \in IF pubFile = 0 /\ ~marker THEN {pubFile, keyFile} ELSE {pubFile}
     /\ UNCHANGED <<eventStore, checkpointStore, anchor, keyFile>>
  \/ /\ pc = "import"
     /\ \/ \E i \in Unstored : /\ IsFirst(i, Unstored)
                               /\ arc' \in PartialFile(arc, EventFile(log[i]))
        \/ Unstored = {} /\ UNCHANGED arc
     /\ UNCHANGED <<log, checkpointStore, anchor, keys>>
  \/ /\ pc = "importCp"
     /\ \/ \E k \in UnstoredCheckpoints :
             /\ IsFirst(k, UnstoredCheckpoints)
             /\ cpArc' \in PartialFile(cpArc, CheckpointFile(cps[k]))
        \/ UnstoredCheckpoints = {} /\ UNCHANGED cpArc
     /\ UNCHANGED <<eventStore, cpLog, anchor, keys>>
  \/ /\ pc = "store"
     /\ arc' \in IF FilesAt(cur.seq) = {} THEN PartialFile(arc, EventFile(cur)) ELSE {arc}
     /\ UNCHANGED <<log, checkpointStore, anchor, keys>>
  \/ /\ pc = "append"
     /\ log' \in PartialLine(log, cur)
     /\ UNCHANGED <<arc, checkpointStore, anchor, keys>>
  \/ /\ pc = "cpStore"
     /\ cpArc' \in IF CheckpointFilesAt(Len(cps)) = {}
                   THEN PartialFile(cpArc, CheckpointFile(NewCheckpoint)) ELSE {cpArc}
     /\ UNCHANGED <<eventStore, cpLog, anchor, keys>>
  \/ /\ pc = "cpAppend"
     /\ cpLog' \in PartialLine(cpLog, NewCheckpoint)
     /\ UNCHANGED <<eventStore, cpArc, anchor, keys>>
  \/ /\ pc \in {"head", "initHead"}
     /\ \/ UNCHANGED <<head, heads>>
        \/ (knownHead # Absent => head = knownHead) /\ SignHead
     /\ UNCHANGED <<eventStore, checkpointStore, marker, keys>>
  \/ /\ pc = "marker"
     /\ marker' \in {marker, TRUE}
     /\ UNCHANGED <<eventStore, checkpointStore, head, heads, keys>>

\* Stopping here leaves some, not all, of the writes of a sequence on disk.
\* Before the first head there is one more such place: the pinned key is
\* written, the head is not.
InsideSequence ==
  \/ pc \in {"import", "importCp", "initHead", "store", "append", "cpStore", "cpAppend", "head"}
  \/ pc \in {"pub", "replay"} /\ head = Absent

\* An OSError: the operation raises IntegrityError and collection is paused.
\* While the key is loaded it is noted as a startup error and _replay goes on.
WriteFails ==
  /\ pc \notin {"down", "idle", "replay", "ack"}
  /\ PartialWrite
  /\ error' = TRUE
  /\ startupError' = (startupError \/ pc \in StartupPcs)
  /\ pc' = IF pc \in {"key", "pub"} THEN "replay" ELSE "idle"
  /\ cur' = Absent
  /\ interrupted' = TRUE
  /\ UNCHANGED <<memory, expectsAnchor, acked, damage>>

\* The process dies, or stops between two operations.
Crash ==
  /\ pc # "down"
  /\ PartialWrite
  /\ interrupted' = (interrupted \/ InsideSequence)
  /\ pc' = "down" /\ cur' = Absent
  /\ seq' = 0 /\ lastHash' = <<>> /\ pending' = <<>> /\ cps' = <<>> /\ ids' = {}
  /\ knownHead' = Absent
  /\ expectsAnchor' = FALSE /\ error' = FALSE /\ startupError' = FALSE
  /\ UNCHANGED <<acked, damage>>

-----------------------------------------------------------------------------
(* Damage from outside.  One damage puts something else in the place of one  *)
(* artifact: any lines in that of a log, any files in that of an archive.    *)
(* Whoever does it cannot sign: of heads there are only those the agent has  *)
(* signed, and a key is lost, not exchanged.                                 *)

DamageLog ==
  /\ \E other \in OtherLogs(log) :
       other \in Seq(Entry \cup {Damaged}) /\ log' = other
  /\ UNCHANGED <<arc, checkpointStore, anchor, keys>>

DamageArchive ==
  /\ \E other \in OtherArchives(arc) :
       other \subseteq EventFiles /\ IsFiniteSet(other) /\ arc' = other
  /\ UNCHANGED <<log, checkpointStore, anchor, keys>>

DamageCheckpoints ==
  /\ \/ /\ \E other \in OtherCheckpointLogs(cpLog) :
            other \in Seq(Checkpoint \cup {Damaged}) /\ cpLog' = other
        /\ UNCHANGED cpArc
     \/ /\ \E other \in OtherCheckpointArchives(cpArc) :
            other \subseteq CheckpointFiles /\ IsFiniteSet(other) /\ cpArc' = other
        /\ UNCHANGED cpLog
  /\ UNCHANGED <<eventStore, anchor, keys>>

DamageAnchor ==
  /\ \/ /\ head' \in {Absent, Damaged} \cup heads
        /\ UNCHANGED <<marker, keys>>
     \/ /\ marker' = FALSE
        /\ UNCHANGED <<head, keys>>
     \/ /\ keyFile' = 0
        /\ UNCHANGED <<head, marker, pubFile>>
     \/ /\ pubFile' = 0
        /\ UNCHANGED <<head, marker, keyFile>>
  /\ UNCHANGED <<eventStore, checkpointStore, heads>>

Damage ==
  /\ pc \in {"down", "idle"}
  /\ damage < MaxDamage
  /\ damage' = damage + 1
  /\ DamageLog \/ DamageArchive \/ DamageCheckpoints \/ DamageAnchor
  /\ UNCHANGED <<pc, cur, memory, flags, acked, interrupted>>

-----------------------------------------------------------------------------

Startup ==
  \/ Start \/ WriteKey \/ LoadPublicKey \/ Replay
  \/ ImportEntry \/ ImportEntriesDone \/ ImportCheckpoint \/ ImportCheckpointsDone
  \/ WriteFirstHead \/ WriteMarker

\* The steps of an operation that has begun.
Progress ==
  \/ StoreEvent \/ AppendEvent \/ StoreCheckpoint \/ AppendCheckpoint
  \/ WriteHead \/ Reply

Next ==
  \/ Startup
  \/ \E event \in Event : RecordNew(event) \/ RecordAgain(event)
  \/ Progress
  \/ Seal
  \/ Verify
  \/ WriteFails
  \/ Crash
  \/ Damage

Spec == Init /\ [][Next]_vars

\* An operation runs on a thread of its own (asyncio.to_thread) and every step
\* is a bounded file operation: what has begun goes on.  A publisher without a
\* receipt offers its event again (the extension's cv_delivery alarm).
Offer(event) == RecordNew(event) \/ RecordAgain(event)
Fairness ==
  /\ WF_vars(Startup) /\ WF_vars(Progress)
  /\ \A event \in Event : WF_vars(Offer(event))
FairSpec == Spec /\ Fairness

-----------------------------------------------------------------------------
(* Type correctness.                                                         *)

TypeOK ==
  /\ log \in Seq(Entry \cup {Damaged})
  /\ arc \subseteq EventFiles
  /\ cpLog \in Seq(Checkpoint \cup {Damaged})
  /\ cpArc \subseteq CheckpointFiles
  /\ head \in SignedHead \cup {Absent, Damaged}
  /\ heads \subseteq SignedHead
  /\ marker \in BOOLEAN
  /\ keyFile \in Nat /\ pubFile \in Nat
  /\ pc \in {"down", "idle"} \cup StartupPcs \cup OperationPcs
  /\ cur \in Entry \cup {Absent}
  /\ seq \in Nat /\ lastHash \in Hash
  /\ pending \in Seq(Entry) /\ cps \in Seq(Checkpoint)
  /\ ids \subseteq [id : EventIds, seq : Nat]
  /\ knownHead \in SignedHead \cup {Absent}
  /\ expectsAnchor \in BOOLEAN /\ error \in BOOLEAN /\ startupError \in BOOLEAN
  /\ acked \subseteq Entry
  /\ damage \in 0..MaxDamage
  /\ interrupted \in BOOLEAN

-----------------------------------------------------------------------------
(* Safety.                                                                   *)

\* A receipt is durable: as long as nothing outside damages the files, every
\* entry a publisher holds a receipt for is at its place in the log, has its
\* copy in the archive and is counted by the signed head, whatever crashes and
\* failed writes came after it (record, audit_logger.py:299-315).
ReceiptsDurable ==
  damage = 0 =>
    \A r \in acked :
      /\ r.seq < Len(log) /\ log[r.seq + 1] = r
      /\ EventFile(r) \in arc
      /\ head \in SignedHead /\ r.seq < head.total

\* Retries are idempotent: two receipts for one event_id are the same receipt,
\* across duplicates, crashes and restarts (record, audit_logger.py:283-297).
ReceiptsAgree ==
  damage = 0 => \A r, s \in acked : r.event.id = s.event.id => r = s

\* verify_chain never says VERIFIED of a history that lost or changed an
\* acknowledged entry, although up to MaxDamage artifacts were damaged.
VerifiedMeansComplete ==
  (pc = "idle" /\ VerifyOK) =>
    \A r \in acked :
      /\ r.seq < Len(log) /\ log[r.seq + 1] = r
      /\ EventFile(r) \in arc

\* Nobody cries wolf: a process that is up, whose files were not damaged and
\* whose writes were never cut short, passes its own verification and collects.
NoFalseAlarm ==
  (damage = 0 /\ ~interrupted /\ pc = "idle") => (VerifyOK /\ ~error)

\* What collection goes on top of is sound: when a process accepts events its
\* memory agrees with the files, unless they were damaged under it.
MemoryMatchesDisk ==
  (damage = 0 /\ pc = "idle" /\ ~error) =>
    /\ seq = Len(log) /\ cps = cpLog /\ knownHead = head
    /\ ids = {[id |-> log[i].event.id, seq |-> i - 1] : i \in 1..Len(log)}
    /\ pending = SubSeq(log, Covered + 1, Len(log))

-----------------------------------------------------------------------------
(* What a step may never do.                                                 *)

IsPrefixOf(s, t) == Len(s) <= Len(t) /\ SubSeq(t, 1, Len(s)) = s

\* The program itself never removes or rewrites evidence: lines and archived
\* files are only added, and the signed total never decreases.
EvidenceOnlyGrows ==
  [][damage' = damage =>
       /\ IsPrefixOf(log, log') /\ arc \subseteq arc'
       /\ IsPrefixOf(cpLog, cpLog') /\ cpArc \subseteq cpArc'
       /\ (head \in SignedHead /\ damage = 0) => head' \in SignedHead /\ head.total <= head'.total]_vars

-----------------------------------------------------------------------------
(* Refinement.                                                               *)

\* The lines that decode: without damage from outside only the last line may
\* be torn, and then nothing is appended any more.
Readable == IF LinesDecode THEN Len(log) ELSE Len(log) - 1
LedgerOfLog == [i \in 1..Readable |-> log[i].event]
Receipts == {[seq |-> r.seq, event |-> r.event] : r \in acked}

Promise == INSTANCE EvidencePromise WITH ledger <- LedgerOfLog, receipts <- Receipts

\* Through checkpoints, crashes, failed writes, restarts and the import, the
\* writer behaves as the promised append-only ledger does, provided that
\* nothing damages its files (MaxDamage = 0).
ImplementsPromise == Promise!PSpec

-----------------------------------------------------------------------------
(* Liveness.                                                                 *)

\* An event that is offered again and again is answered with a receipt, unless
\* collection pauses or the process stops: also when a crash swallowed the
\* first receipt of an event that was stored.
OffersAreAnswered ==
  \A event \in Event :
    []<>(error \/ pc = "down" \/ \E r \in acked : r.event.id = event.id)

=============================================================================
