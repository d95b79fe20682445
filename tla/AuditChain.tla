------------------------------ MODULE AuditChain ------------------------------
(***************************************************************************)
(* The audit file and its hash chain: audit._emit with the chain state it  *)
(* keeps in memory, recovery of that state by a restarted process, and     *)
(* audit_verify.verify.  _emit is synchronous and holds _chain_lock, so a  *)
(* record is linked and written in one step.  Around it happens what an    *)
(* append-only file on a real host meets: a process killed, a machine that *)
(* loses power, a disk that fills before or during a write, an unreadable  *)
(* file at start-up, logrotate, and a second steward with the same path.   *)
(*                                                                         *)
(* A line is a record or Junk, text that does not parse.  SHA-256 is       *)
(* taken to be injective: a hash is the hashed record itself.              *)
(***************************************************************************)
EXTENDS Integers, FiniteSets, SequencesExt

CONSTANTS
    Procs,       \* steward processes writing to one MCP_AUDIT_LOG_PATH
    FaultKinds,  \* faults that happen, among AllFaults
    MaxRecords,  \* bound: records linked in all
    MaxCrashes   \* bound: process deaths in all

AllFaults == {"full", "short", "unreadable", "powerloss", "rotate"}

ASSUME FaultsAssumption == FaultKinds \subseteq AllFaults
ASSUME BoundsAssumption ==
    MaxRecords \in Nat /\ MaxCrashes \in Nat

VARIABLES
    file,      \* the lines of the audit file
    ragged,    \* the last line lacks its newline
    archive,   \* the files rotated away, oldest first
    seq,       \* seq[p]: _seq
    lastHash,  \* lastHash[p]: _last_hash
    ready,     \* ready[p]: _chain_initialized
    linked,    \* records linked so far
    crashes,
    acked,     \* history: records whose write was reported as done
    causes     \* history: the kinds of fault that have happened, or "shared"

vars == <<file, ragged, archive, seq, lastHash, ready, linked, crashes, acked, causes>>
memory == <<seq, lastHash, ready>>

GENESIS_HASH == <<>>

\* A line that json.loads rejects.
Junk == [text |-> "junk"]

Hash(s, prev, body) == <<s, prev, body>>

Record(s, prev, body) ==
    [seq |-> s, prev_hash |-> prev, body |-> body, hash |-> Hash(s, prev, body)]

Init ==
    /\ file = <<>>
    /\ ragged = FALSE
    /\ archive = <<>>
    /\ seq = [p \in Procs |-> 0]
    /\ lastHash = [p \in Procs |-> GENESIS_HASH]
    /\ ready = [p \in Procs |-> FALSE]
    /\ linked = 0
    /\ crashes = 0
    /\ acked = {}
    /\ causes = {}

-----------------------------------------------------------------------------
(* audit_verify.verify, as the exit code for a sequence of lines.          *)

\* Mutant: the hash of a record is not recomputed.
LineOk_unhashed(f, i) ==
    /\ f[i] # Junk
    /\ f[i].seq = i
    /\ f[i].prev_hash = IF i = 1 THEN GENESIS_HASH ELSE f[i - 1].hash

LineOk(f, i) ==
    /\ f[i] # Junk
    /\ f[i].seq = i
    /\ f[i].prev_hash = IF i = 1 THEN GENESIS_HASH ELSE f[i - 1].hash
    /\ f[i].hash = Hash(f[i].seq, f[i].prev_hash, f[i].body)

Intact(f) == \A i \in 1..Len(f) : LineOk(f, i)

\* The walk stops at the first line that is wrong.
FirstBad(f) ==
    CHOOSE i \in 1..Len(f) : ~LineOk(f, i) /\ \A j \in 1..(i - 1) : LineOk(f, j)

verify(f) ==
    IF Intact(f) THEN 0 ELSE IF f[FirstBad(f)] = Junk THEN 2 ELSE 1

-----------------------------------------------------------------------------
(* Recovery and writing.                                                   *)

\* _recover_chain_from_file: the last line that parses, wherever it is.
Readable(f) == {i \in 1..Len(f) : f[i] # Junk}

\* Mutant: a restarted process starts a chain of its own.
Recovered_never(f) == [seq |-> 0, hash |-> GENESIS_HASH]

Recovered(f) ==
    IF Readable(f) = {} THEN [seq |-> 0, hash |-> GENESIS_HASH]
    ELSE LET last == f[Max(Readable(f))] IN [seq |-> last.seq, hash |-> last.hash]

\* What _ensure_chain_initialized leaves in _seq and _last_hash.
Known(p) == IF ready[p] THEN [seq |-> seq[p], hash |-> lastHash[p]] ELSE Recovered(file)

\* Text appended to a ragged line becomes part of that line.
Appended(line) ==
    IF ragged THEN [file EXCEPT ![Len(file)] = Junk] ELSE Append(file, line)

Fault(kind) == kind \in FaultKinds /\ causes' = causes \cup {kind}

\* Another process holds the chain in memory: this record escapes it.
Shared(p) == \E q \in Procs \ {p} : ready[q]

NextRecord(known) == Record(known.seq + 1, known.hash, linked + 1)

\* Mutant: _seq is incremented before the record is numbered and after.
Link_countsTwice(p, rec) ==
    /\ linked < MaxRecords
    /\ linked' = linked + 1
    /\ seq' = [seq EXCEPT ![p] = rec.seq + 1]
    /\ lastHash' = [lastHash EXCEPT ![p] = rec.hash]
    /\ ready' = [ready EXCEPT ![p] = TRUE]
    /\ UNCHANGED <<archive, crashes>>

\* Mutant: _last_hash stays what recovery made it.
Link_keepsHash(p, rec) ==
    /\ linked < MaxRecords
    /\ linked' = linked + 1
    /\ seq' = [seq EXCEPT ![p] = rec.seq]
    /\ lastHash' = [lastHash EXCEPT ![p] = Known(p).hash]
    /\ ready' = [ready EXCEPT ![p] = TRUE]
    /\ UNCHANGED <<archive, crashes>>

\* _link_record: the chain in memory advances whatever becomes of the write.
Link(p, rec) ==
    /\ linked < MaxRecords
    /\ linked' = linked + 1
    /\ seq' = [seq EXCEPT ![p] = rec.seq]
    /\ lastHash' = [lastHash EXCEPT ![p] = rec.hash]
    /\ ready' = [ready EXCEPT ![p] = TRUE]
    /\ UNCHANGED <<archive, crashes>>

\* Mutant: the file is opened for writing, not for appending.
Write_truncates(rec) ==
    /\ file' = <<rec>>
    /\ ragged' = FALSE
    /\ acked' = acked \cup {rec}

\* The line and its newline reach the file.
Write(rec) ==
    /\ file' = Appended(rec)
    /\ ragged' = FALSE
    /\ acked' = acked \cup {rec}

\* _emit, the line written in full.
Emit(p) ==
    LET rec == NextRecord(Known(p)) IN
    /\ Link(p, rec)
    /\ Write(rec)
    /\ causes' = IF Shared(p) THEN causes \cup {"shared"} ELSE causes

\* _emit on a full disk: OSError before anything reaches the file, swallowed.
EmitUnwritten(p) ==
    /\ Link(p, NextRecord(Known(p)))
    /\ Fault("full")
    /\ UNCHANGED <<file, ragged, acked>>

\* _emit on a disk that fills during the write: part of the line reaches the
\* file, at most all of it but the newline.
EmitShort(p) ==
    LET rec == NextRecord(Known(p)) IN
    /\ Link(p, rec)
    /\ Fault("short")
    /\ file' \in {Appended(Junk), Appended(rec)}
    /\ ragged' = TRUE
    /\ UNCHANGED acked

\* The first _emit of a process that cannot read the file starts a new chain.
EmitUnrecovered(p) ==
    LET rec == NextRecord([seq |-> 0, hash |-> GENESIS_HASH]) IN
    /\ ~ready[p]
    /\ file # <<>>
    /\ Link(p, rec)
    /\ Write(rec)
    /\ Fault("unreadable")

Forget(P) ==
    /\ seq' = [p \in Procs |-> IF p \in P THEN 0 ELSE seq[p]]
    /\ lastHash' = [p \in Procs |-> IF p \in P THEN GENESIS_HASH ELSE lastHash[p]]
    /\ ready' = [p \in Procs |-> ready[p] /\ p \notin P]

\* A process dies and is started again: its chain state is read back lazily.
Restart(p) ==
    /\ ready[p]
    /\ crashes < MaxCrashes
    /\ crashes' = crashes + 1
    /\ Forget({p})
    /\ UNCHANGED <<file, ragged, archive, linked, acked, causes>>

\* Nothing syncs the file: a machine that goes down loses its last lines, and
\* every process with it.  (A line cut in the middle is EmitShort's.)
PowerLoss ==
    /\ Fault("powerloss")
    /\ \E n \in 0..(Len(file) - 1) : file' = SubSeq(file, 1, n)
    /\ ragged' = FALSE
    /\ Forget(Procs)
    /\ UNCHANGED <<archive, linked, crashes, acked>>

\* logrotate moves the file away from under the running processes.
Rotate ==
    /\ file # <<>>
    /\ Fault("rotate")
    /\ archive' = Append(archive, file)
    /\ file' = <<>>
    /\ ragged' = FALSE
    /\ UNCHANGED <<memory, linked, crashes, acked>>

Over == linked = MaxRecords /\ UNCHANGED vars

Next ==
    \/ \E p \in Procs :
          \/ Emit(p)
          \/ EmitUnwritten(p)
          \/ EmitShort(p)
          \/ EmitUnrecovered(p)
          \/ Restart(p)
    \/ PowerLoss
    \/ Rotate
    \/ Over

Spec == Init /\ [][Next]_vars

-----------------------------------------------------------------------------

\* Hashes are terms; what matters of a record's type is that it is a record of
\* this chain, numbered within the bound.
IsRecord(r) ==
    /\ r.seq \in 1..MaxRecords /\ r.body \in 1..MaxRecords
    /\ r = Record(r.seq, r.prev_hash, r.body)

Lines(f) == {f[i] : i \in 1..Len(f)}

\* The lines of the live file and of the archived ones.
Kept == Lines(file) \cup UNION {Lines(archive[i]) : i \in 1..Len(archive)}

TypeOK ==
    /\ \A line \in Kept : line = Junk \/ IsRecord(line)
    /\ ragged \in BOOLEAN /\ (ragged => file # <<>>)
    /\ seq \in [Procs -> 0..MaxRecords]
    /\ ready \in [Procs -> BOOLEAN]
    /\ linked \in 0..MaxRecords
    /\ crashes \in 0..MaxCrashes
    /\ \A r \in acked : IsRecord(r)
    /\ causes \subseteq AllFaults \cup {"shared"}

\* The chain is intact however often the steward is killed and started again,
\* and even when a power failure takes the file's last records: verify fails
\* only if a write failed, the file was unreadable at start-up, it was rotated
\* or another steward wrote to it.  (_recover_chain_from_file: "lets a restarted
\* process continue an unbroken chain".)
AlarmHasACause == causes \subseteq {"powerloss"} => verify(file) = 0

\* While only rotations and deaths happen, every file, archived or live, is a
\* piece of one chain: within it each record continues the one before.
Linked(f) ==
    \A i \in 1..Len(f) :
        /\ f[i] # Junk
        /\ i > 1 => f[i].seq = f[i - 1].seq + 1 /\ f[i].prev_hash = f[i - 1].hash

SegmentsAreLinked ==
    causes \subseteq {"powerloss", "rotate"} =>
        Linked(file) /\ \A i \in 1..Len(archive) : Linked(archive[i])

\* Where a chain that ends with this file goes on.
EndOf(f) ==
    IF f = <<>> THEN [seq |-> 0, hash |-> GENESIS_HASH]
    ELSE [seq |-> f[Len(f)].seq, hash |-> f[Len(f)].hash]

InStep(p) == EndOf(file) = [seq |-> seq[p], hash |-> lastHash[p]]

\* What the two properties above rest on: a process that holds the chain in
\* memory holds the end of the file, unless the file was rotated away.
IInv ==
    /\ file \in Seq(Lines(file)) /\ archive \in Seq(Lines(archive))
    /\ DOMAIN seq = Procs /\ DOMAIN lastHash = Procs /\ DOMAIN ready = Procs
    /\ causes \subseteq {"powerloss", "rotate"} =>
          /\ ~ragged
          /\ Linked(file) /\ \A i \in 1..Len(archive) : Linked(archive[i])
          /\ \A p \in Procs : ready[p] /\ file # <<>> => InStep(p)
    /\ causes \subseteq {"powerloss"} =>
          /\ Intact(file)
          /\ \A p \in Procs : ready[p] => InStep(p)

\* A record whose write was reported as done stays readable, in the live file or
\* an archived one, unless a torn line or a power failure is among the causes.
AckedStaysReadable ==
    causes \cap {"short", "powerloss"} = {} => acked \subseteq Kept

\* What TypeOK and AckedStaysReadable rest on: no number in memory or on disk is
\* beyond the records linked so far, and lines are torn by short writes alone.
NumbersInv ==
    /\ TypeOK
    /\ \A p \in Procs : seq[p] <= linked
    /\ \A line \in Kept \ {Junk} : line.seq <= linked
    /\ "short" \notin causes => ~ragged
    /\ AckedStaysReadable

\* Changes to an intact file: a line deleted (other than the last), a copy of a
\* line inserted, two lines exchanged, the content of a record altered.
Changes(f) ==
    LET I == 1..Len(f) IN
    {RemoveAt(f, i) : i \in I \ {Len(f)}}
    \cup {InsertAt(f, i, f[j]) : i \in I, j \in I}
    \cup {[f EXCEPT ![x[1]] = f[x[2]], ![x[2]] = f[x[1]]] : x \in {y \in I \X I : y[1] < y[2]}}
    \cup {[f EXCEPT ![i].body = 0] : i \in I}
    \cup {[f EXCEPT ![i].prev_hash = GENESIS_HASH] : i \in I \ {1}}

\* Every such change to an intact file, of any length, is reported as a
\* mismatch (audit_verify: "detects any insertion, deletion, or edit applied
\* after the record was written").
ChangesAreDetected ==
    Intact(file) => \A f \in Changes(file) : verify(f) = 1

\* audit_verify.py: exit code 1 means "insertion / edit / deletion detected".
\* Nobody but the steward touches the file here, so it is never reported.
MismatchMeansChange == verify(file) # 1

=============================================================================
