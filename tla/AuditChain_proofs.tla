-------------------------- MODULE AuditChain_proofs --------------------------
(***************************************************************************)
(* Proofs about the audit chain, for every set of processes, every number  *)
(* of records, restarts and faults.                                        *)
(***************************************************************************)
EXTENDS AuditChain, SequenceTheorems, WellFoundedInduction, TLAPS

-----------------------------------------------------------------------------
(* Files: sequences of lines, whatever the lines are.                      *)

\* A sequence is a sequence of its own lines.
LEMMA OwnLines ==
    ASSUME NEW S, NEW f \in Seq(S)
    PROVE  f \in Seq(Lines(f))
<1>1. Len(f) \in Nat /\ f \in [1..Len(f) -> S]
  BY LenProperties
<1>2. f \in [1..Len(f) -> Lines(f)]
  BY <1>1 DEF Lines
<1> QED
  BY <1>1, <1>2, SeqDef

\* Appending a line.
LEMMA AppendLine ==
    ASSUME NEW f, f \in Seq(Lines(f)), NEW x
    PROVE  /\ Append(f, x) \in Seq(Lines(Append(f, x)))
           /\ Len(f) \in Nat /\ Len(Append(f, x)) = Len(f) + 1
           /\ Append(f, x)[Len(f) + 1] = x
           /\ \A i \in 1..Len(f) : Append(f, x)[i] = f[i]
<1>1. f \in Seq(Lines(f) \cup {x})
  BY SeqDef
<1>2. Append(f, x) \in Seq(Lines(f) \cup {x})
  BY <1>1, AppendProperties
<1>3. Append(f, x) \in Seq(Lines(Append(f, x)))
  BY <1>2, OwnLines
<1>4. Len(f) \in Nat
  BY <1>1, LenProperties
<1>5. /\ Len(Append(f, x)) = Len(f) + 1
      /\ Append(f, x)[Len(f) + 1] = x
      /\ \A i \in 1..Len(f) : Append(f, x)[i] = f[i]
  <2>1. x \in Lines(f) \cup {x}
    OBVIOUS
  <2> QED
    BY <1>1, <2>1, AppendProperties
<1> QED
  BY <1>3, <1>4, <1>5

\* Replacing a line.
LEMMA ReplaceLine ==
    ASSUME NEW f, f \in Seq(Lines(f)), NEW i, NEW x
    PROVE  [f EXCEPT ![i] = x] \in Seq(Lines([f EXCEPT ![i] = x]))
<1>1. Len(f) \in Nat /\ f \in [1..Len(f) -> Lines(f)]
  BY LenProperties
<1>2. [f EXCEPT ![i] = x] \in [1..Len(f) -> Lines(f) \cup {x}]
  BY <1>1
<1>3. [f EXCEPT ![i] = x] \in Seq(Lines(f) \cup {x})
  BY <1>1, <1>2, SeqDef
<1> QED
  BY <1>3, OwnLines

\* The first n lines.
LEMMA Prefix ==
    ASSUME NEW f, f \in Seq(Lines(f)), NEW n \in 0..Len(f)
    PROVE  /\ SubSeq(f, 1, n) \in Seq(Lines(SubSeq(f, 1, n)))
           /\ Len(SubSeq(f, 1, n)) = n
           /\ \A i \in 1..n : SubSeq(f, 1, n)[i] = f[i]
<1>1. Len(f) \in Nat /\ \A i \in 1..n : f[i] \in Lines(f)
  BY LenProperties DEF Lines
<1>2. SubSeq(f, 1, n) \in Seq(Lines(f))
  BY <1>1, SubSeqProperties
<1>3. /\ Len(SubSeq(f, 1, n)) = n
      /\ \A i \in 1..n : SubSeq(f, 1, n)[i] = f[i]
  BY <1>1, SubSeqProperties
<1> QED
  BY <1>2, <1>3, OwnLines

LEMMA EmptyFile == <<>> \in Seq(Lines(<<>>)) /\ Len(<<>>) = 0
BY EmptySeq

-----------------------------------------------------------------------------
(* Recovery reads the end of a chain without gaps.                         *)

LEMMA MaxOfRange ==
    ASSUME NEW n \in Nat, n # 0
    PROVE  Max(1..n) = n
<1>1. n \in 1..n /\ \A y \in 1..n : n >= y
  OBVIOUS
<1>2. \A x \in 1..n : (\A y \in 1..n : x >= y) => x = n
  <2> SUFFICES ASSUME NEW x \in 1..n, \A y \in 1..n : x >= y PROVE x = n
    OBVIOUS
  <2>1. x >= n /\ n >= x
    BY <1>1
  <2> QED
    BY <2>1
<1> QED
  BY <1>1, <1>2 DEF Max

LEMMA RecoveredIsEnd ==
    ASSUME NEW f, f \in Seq(Lines(f)), Linked(f)
    PROVE  Recovered(f) = EndOf(f)
<1>1. Len(f) \in Nat
  BY LenProperties
<1>2. Readable(f) = 1..Len(f)
  BY DEF Linked, Readable
<1>3. CASE Len(f) = 0
  <2>1. f = <<>> /\ Readable(f) = {}
    BY <1>1, <1>2, <1>3, EmptySeq
  <2> QED
    BY <2>1 DEF Recovered, EndOf
<1>4. CASE Len(f) # 0
  <2>1. f # <<>> /\ Readable(f) # {} /\ Max(Readable(f)) = Len(f)
    BY <1>1, <1>2, <1>4, MaxOfRange, EmptySeq
  <2> QED
    BY <2>1 DEF Recovered, EndOf
<1> QED
  BY <1>3, <1>4

-----------------------------------------------------------------------------
(* Extending and cutting a chain.                                          *)

LEMMA RecordFields ==
    ASSUME NEW s, NEW h, NEW b
    PROVE  /\ Record(s, h, b) # Junk
           /\ Record(s, h, b).seq = s /\ Record(s, h, b).prev_hash = h
           /\ Record(s, h, b).hash = Hash(s, h, b) /\ Record(s, h, b).body = b
<1>1. DOMAIN Record(s, h, b) = {"seq", "prev_hash", "body", "hash"}
  BY DEF Record
<1>2. DOMAIN Junk = {"text"}
  BY DEF Junk
<1>3. Record(s, h, b) # Junk
  BY <1>1, <1>2
<1> QED
  BY <1>3 DEF Record

\* The record that goes on from the end of a file without gaps.
LEMMA ExtendLinked ==
    ASSUME NEW f, f \in Seq(Lines(f)), Linked(f), NEW rec, rec # Junk,
           f # <<>> => rec.seq = EndOf(f).seq + 1 /\ rec.prev_hash = EndOf(f).hash
    PROVE  /\ Linked(Append(f, rec))
           /\ EndOf(Append(f, rec)) = [seq |-> rec.seq, hash |-> rec.hash]
<1> DEFINE g == Append(f, rec)
<1>1. /\ Len(f) \in Nat /\ Len(g) = Len(f) + 1 /\ g[Len(f) + 1] = rec
      /\ \A i \in 1..Len(f) : g[i] = f[i]
      /\ g \in Seq(Lines(g))
  BY AppendLine
<1>2. Len(f) > 0 => rec.seq = f[Len(f)].seq + 1 /\ rec.prev_hash = f[Len(f)].hash
  <2>1. Len(f) > 0 => f # <<>>
    BY EmptySeq
  <2> QED
    BY <2>1 DEF EndOf
<1>3. g # <<>>
  BY <1>1, EmptySeq
<1> HIDE DEF g
<1>4. ASSUME NEW i \in 1..(Len(f) + 1)
      PROVE  /\ g[i] # Junk
             /\ i > 1 => g[i].seq = g[i - 1].seq + 1 /\ g[i].prev_hash = g[i - 1].hash
  <2>1. CASE i = Len(f) + 1
    <3>1. i > 1 => Len(f) > 0 /\ i - 1 = Len(f) /\ i - 1 \in 1..Len(f)
      BY <1>1, <2>1
    <3> QED
      BY <1>1, <1>2, <2>1, <3>1
  <2>2. CASE i <= Len(f)
    <3>1. i \in 1..Len(f) /\ (i > 1 => i - 1 \in 1..Len(f))
      BY <1>1, <2>2
    <3> QED
      BY <1>1, <3>1 DEF Linked
  <2> QED
    BY <1>1, <2>1, <2>2
<1>5. Linked(g)
  BY <1>1, <1>4 DEF Linked
<1>6. EndOf(g) = [seq |-> rec.seq, hash |-> rec.hash]
  BY <1>1, <1>3 DEF EndOf
<1> QED
  BY <1>5, <1>6 DEF g

\* If besides the file is intact, it stays so.
LEMMA ExtendIntact ==
    ASSUME NEW f, f \in Seq(Lines(f)), Intact(f), NEW b
    PROVE  Intact(Append(f, Record(EndOf(f).seq + 1, EndOf(f).hash, b)))
<1> DEFINE s == EndOf(f).seq
           h == EndOf(f).hash
           rec == Record(s + 1, h, b)
           g == Append(f, rec)
<1>1. /\ Len(f) \in Nat /\ Len(g) = Len(f) + 1 /\ g[Len(f) + 1] = rec
      /\ \A i \in 1..Len(f) : g[i] = f[i]
  BY AppendLine
<1>2. /\ rec # Junk /\ rec.seq = s + 1 /\ rec.prev_hash = h
      /\ rec.hash = Hash(rec.seq, rec.prev_hash, rec.body)
  BY RecordFields
<1>3. s = Len(f) /\ h = IF Len(f) = 0 THEN GENESIS_HASH ELSE f[Len(f)].hash
  <2>1. CASE f = <<>>
    BY <2>1, EmptySeq DEF EndOf
  <2>2. CASE f # <<>>
    <3>1. Len(f) # 0 /\ Len(f) \in 1..Len(f)
      BY <1>1, <2>2, EmptySeq
    <3>2. f[Len(f)].seq = Len(f)
      BY <3>1 DEF Intact, LineOk
    <3> QED
      BY <2>2, <3>1, <3>2 DEF EndOf
  <2> QED
    BY <2>1, <2>2
<1> HIDE DEF s, h, rec, g
<1>4. ASSUME NEW i \in 1..(Len(f) + 1)
      PROVE  LineOk(g, i)
  <2>1. CASE i = Len(f) + 1
    <3>1. rec.prev_hash = IF i = 1 THEN GENESIS_HASH ELSE g[i - 1].hash
      <4>1. CASE Len(f) = 0
        BY <1>2, <1>3, <2>1, <4>1
      <4>2. CASE Len(f) # 0
        <5>1. i # 1 /\ i - 1 = Len(f) /\ i - 1 \in 1..Len(f)
          BY <1>1, <2>1, <4>2
        <5> QED
          BY <1>1, <1>2, <1>3, <4>2, <5>1
      <4> QED
        BY <4>1, <4>2
    <3> QED
      BY <1>1, <1>2, <1>3, <2>1, <3>1 DEF LineOk
  <2>2. CASE i <= Len(f)
    <3>1. i \in 1..Len(f) /\ (i # 1 => i - 1 \in 1..Len(f))
      BY <1>1, <2>2
    <3>2. LineOk(f, i)
      BY <3>1 DEF Intact
    <3> QED
      BY <1>1, <3>1, <3>2 DEF LineOk
  <2> QED
    BY <1>1, <2>1, <2>2
<1> QED
  BY <1>1, <1>4 DEF Intact, s, h, rec, g

\* A prefix of a chain is a chain.
LEMMA CutChain ==
    ASSUME NEW f, f \in Seq(Lines(f)), NEW n \in 0..Len(f)
    PROVE  /\ Linked(f) => Linked(SubSeq(f, 1, n))
           /\ Intact(f) => Intact(SubSeq(f, 1, n))
<1> DEFINE g == SubSeq(f, 1, n)
<1>1. Len(f) \in Nat /\ Len(g) = n /\ \A i \in 1..n : g[i] = f[i]
  BY Prefix, LenProperties
<1> HIDE DEF g
<1>2. \A i \in 1..n : i \in 1..Len(f) /\ (i > 1 => i - 1 \in 1..n) /\ (i # 1 => i > 1)
  BY <1>1
<1>3. Linked(f) => Linked(g)
  BY <1>1, <1>2 DEF Linked
<1>4. Intact(f) => Intact(g)
  BY <1>1, <1>2 DEF Intact, LineOk
<1> QED
  BY <1>3, <1>4 DEF g

-----------------------------------------------------------------------------
(* The invariant.                                                          *)

LEMMA InitIInv == Init => IInv
<1> SUFFICES ASSUME Init PROVE IInv
  OBVIOUS
<1>1. Len(file) = 0 /\ Len(archive) = 0
  BY EmptyFile DEF Init
<1>2. file \in Seq(Lines(file)) /\ archive \in Seq(Lines(archive))
  BY EmptyFile DEF Init
<1>3. Linked(file) /\ Intact(file) /\ \A i \in 1..Len(archive) : Linked(archive[i])
  BY <1>1 DEF Linked, Intact
<1> QED
  BY <1>2, <1>3 DEF Init, IInv

\* What a process goes on from is the end of the file, whether it holds it in
\* memory or reads it back; after a rotation the file may be empty.
LEMMA KnownIsEnd ==
    ASSUME IInv, NEW p \in Procs
    PROVE  /\ causes \subseteq {"powerloss", "rotate"} /\ file # <<>> => Known(p) = EndOf(file)
           /\ causes \subseteq {"powerloss"} => Known(p) = EndOf(file)
<1>1. causes \subseteq {"powerloss"} => causes \subseteq {"powerloss", "rotate"}
  OBVIOUS
<1>2. causes \subseteq {"powerloss", "rotate"} => Recovered(file) = EndOf(file)
  BY RecoveredIsEnd DEF IInv
<1>3. CASE ready[p]
  BY <1>3 DEF IInv, InStep, Known
<1>4. CASE ~ready[p]
  BY <1>1, <1>2, <1>4 DEF Known
<1> QED
  BY <1>3, <1>4

\* The chain in memory after a record was linked.
LEMMA LinkMemory ==
    ASSUME IInv, NEW p \in Procs, NEW rec, Link(p, rec)
    PROVE  /\ DOMAIN seq' = Procs /\ DOMAIN lastHash' = Procs /\ DOMAIN ready' = Procs
           /\ seq'[p] = rec.seq /\ lastHash'[p] = rec.hash
           /\ \A q \in Procs \ {p} : ready'[q] = ready[q]
           /\ archive' = archive
BY DEF IInv, Link

\* Whatever is appended, the file remains a sequence of lines.
LEMMA AppendedFile ==
    ASSUME IInv, NEW x
    PROVE  Appended(x) \in Seq(Lines(Appended(x)))
<1>1. file \in Seq(Lines(file))
  BY DEF IInv
<1> QED
  BY <1>1, AppendLine, ReplaceLine DEF Appended

LEMMA EmitIInv ==
    ASSUME IInv, NEW p \in Procs, Emit(p)
    PROVE  IInv'
<1> DEFINE known == Known(p)
           rec == Record(known.seq + 1, known.hash, linked + 1)
<1>1. Link(p, rec) /\ file' = Appended(rec) /\ ragged' = FALSE
  BY DEF Emit, NextRecord, Write
<1>2. causes \subseteq causes' /\ ("shared" \in causes' \/ ~Shared(p))
  BY DEF Emit
<1>3. file' \in Seq(Lines(file')) /\ archive' \in Seq(Lines(archive'))
  <2>1. archive' = archive
    BY <1>1, LinkMemory
  <2>2. file' \in Seq(Lines(file'))
    BY <1>1, AppendedFile
  <2> QED
    BY <2>1, <2>2 DEF IInv
<1>4. ASSUME causes' \subseteq {"powerloss", "rotate"}
      PROVE  /\ Linked(file')
             /\ \A i \in 1..Len(archive') : Linked(archive'[i])
             /\ \A q \in Procs : ready'[q] => InStep(q)'
  <2>1. causes \subseteq {"powerloss", "rotate"} /\ ~Shared(p)
    BY <1>2, <1>4
  <2>2. ~ragged /\ Linked(file) /\ file \in Seq(Lines(file))
    BY <2>1 DEF IInv
  <2>3. file' = Append(file, rec)
    BY <1>1, <2>2 DEF Appended
  <2>4. file # <<>> => known = EndOf(file)
    BY <2>1, KnownIsEnd
  <2>5. Linked(file') /\ EndOf(file') = [seq |-> rec.seq, hash |-> rec.hash]
    <3>1. rec # Junk /\ rec.seq = known.seq + 1 /\ rec.prev_hash = known.hash
      BY RecordFields
    <3> HIDE DEF known, rec
    <3> QED
      BY <2>2, <2>3, <2>4, <3>1, ExtendLinked
  <2>6. \A i \in 1..Len(archive') : Linked(archive'[i])
    BY <1>1, <2>1, LinkMemory DEF IInv
  <2>7. \A q \in Procs : ready'[q] => q = p
    BY <1>1, <2>1, LinkMemory DEF Shared
  <2>8. InStep(p)'
    BY <1>1, <2>5, LinkMemory DEF InStep
  <2> QED
    BY <2>5, <2>6, <2>7, <2>8
<1>5. ASSUME causes' \subseteq {"powerloss"}
      PROVE  Intact(file')
  <2>1. causes \subseteq {"powerloss"}
    BY <1>2, <1>5
  <2>2. Intact(file) /\ ~ragged /\ known = EndOf(file) /\ file \in Seq(Lines(file))
    BY <2>1, KnownIsEnd DEF IInv
  <2>3. file' = Append(file, rec)
    BY <1>1, <2>2 DEF Appended
  <2> QED
    BY <2>2, <2>3, ExtendIntact
<1>6. DOMAIN seq' = Procs /\ DOMAIN lastHash' = Procs /\ DOMAIN ready' = Procs
  BY <1>1, LinkMemory
<1>7. causes' \subseteq {"powerloss"} => causes' \subseteq {"powerloss", "rotate"}
  OBVIOUS
<1> QED
  BY <1>1, <1>3, <1>4, <1>5, <1>6, <1>7 DEF IInv

\* A fault that breaks the chain leaves nothing to show but the types.
LEMMA BrokenIInv ==
    ASSUME IInv, NEW kind \in {"full", "short", "unreadable"}, kind \in causes',
           file' \in Seq(Lines(file')), archive' = archive,
           DOMAIN seq' = Procs, DOMAIN lastHash' = Procs, DOMAIN ready' = Procs
    PROVE  IInv'
<1>1. ~(causes' \subseteq {"powerloss", "rotate"}) /\ ~(causes' \subseteq {"powerloss"})
  OBVIOUS
<1> QED
  BY <1>1 DEF IInv

LEMMA EmitUnwrittenIInv ==
    ASSUME IInv, NEW p \in Procs, EmitUnwritten(p)
    PROVE  IInv'
<1>1. Link(p, NextRecord(Known(p))) /\ "full" \in causes' /\ file' = file
  BY DEF EmitUnwritten, Fault
<1>2. file' \in Seq(Lines(file'))
  BY <1>1 DEF IInv
<1> QED
  BY <1>1, <1>2, LinkMemory, BrokenIInv

LEMMA EmitShortIInv ==
    ASSUME IInv, NEW p \in Procs, EmitShort(p)
    PROVE  IInv'
<1>1. /\ Link(p, NextRecord(Known(p))) /\ "short" \in causes'
      /\ file' = Appended(Junk) \/ file' = Appended(NextRecord(Known(p)))
  BY DEF EmitShort, Fault
<1>2. file' \in Seq(Lines(file'))
  BY <1>1, AppendedFile
<1> QED
  BY <1>1, <1>2, LinkMemory, BrokenIInv

LEMMA EmitUnrecoveredIInv ==
    ASSUME IInv, NEW p \in Procs, EmitUnrecovered(p)
    PROVE  IInv'
<1> DEFINE rec == NextRecord([seq |-> 0, hash |-> GENESIS_HASH])
<1>1. Link(p, rec) /\ "unreadable" \in causes' /\ file' = Appended(rec)
  BY DEF EmitUnrecovered, Fault, Write
<1>2. file' \in Seq(Lines(file'))
  BY <1>1, AppendedFile
<1> QED
  BY <1>1, <1>2, LinkMemory, BrokenIInv

\* A process that has forgotten its chain claims nothing about the file.
LEMMA RestartIInv ==
    ASSUME IInv, NEW p \in Procs, Restart(p)
    PROVE  IInv'
<1>1. /\ DOMAIN seq' = Procs /\ DOMAIN lastHash' = Procs /\ DOMAIN ready' = Procs
      /\ ~ready'[p]
      /\ \A q \in Procs \ {p} :
            seq'[q] = seq[q] /\ lastHash'[q] = lastHash[q] /\ (ready'[q] => ready[q])
      /\ UNCHANGED <<file, ragged, archive, causes>>
  BY DEF Restart, Forget
<1>2. \A q \in Procs : ready'[q] => ready[q] /\ (InStep(q) => InStep(q)')
  BY <1>1 DEF InStep
<1> QED
  BY <1>1, <1>2 DEF IInv

LEMMA PowerLossIInv ==
    ASSUME IInv, PowerLoss
    PROVE  IInv'
<1>1. PICK n \in 0..(Len(file) - 1) : file' = SubSeq(file, 1, n)
  BY DEF PowerLoss
<1>2. /\ DOMAIN seq' = Procs /\ DOMAIN lastHash' = Procs /\ DOMAIN ready' = Procs
      /\ \A q \in Procs : ~ready'[q]
      /\ archive' = archive /\ ragged' = FALSE /\ causes \subseteq causes'
  BY DEF PowerLoss, Forget, Fault
<1>3. file \in Seq(Lines(file)) /\ n \in 0..Len(file)
  BY <1>1, LenProperties DEF IInv
<1>4. file' \in Seq(Lines(file'))
  BY <1>1, <1>3, Prefix
<1>5. causes' \subseteq {"powerloss", "rotate"} =>
        Linked(file') /\ \A i \in 1..Len(archive') : Linked(archive'[i])
  BY <1>1, <1>2, <1>3, CutChain DEF IInv
<1>6. causes' \subseteq {"powerloss"} => Intact(file')
  BY <1>1, <1>2, <1>3, CutChain DEF IInv
<1> QED
  BY <1>2, <1>4, <1>5, <1>6 DEF IInv

LEMMA RotateIInv ==
    ASSUME IInv, Rotate
    PROVE  IInv'
<1>1. /\ archive' = Append(archive, file) /\ file' = <<>> /\ ragged' = FALSE
      /\ "rotate" \in causes' /\ causes \subseteq causes'
      /\ UNCHANGED <<seq, lastHash, ready>>
  BY DEF Rotate, Fault, memory
<1>2. archive \in Seq(Lines(archive))
  BY DEF IInv
<1>3. /\ archive' \in Seq(Lines(archive')) /\ Len(archive) \in Nat
      /\ Len(archive') = Len(archive) + 1 /\ archive'[Len(archive) + 1] = file
      /\ \A i \in 1..Len(archive) : archive'[i] = archive[i]
  BY <1>1, <1>2, AppendLine
<1>4. ASSUME causes' \subseteq {"powerloss", "rotate"}
      PROVE  Linked(file') /\ \A i \in 1..Len(archive') : Linked(archive'[i])
  <2>1. Linked(file) /\ \A i \in 1..Len(archive) : Linked(archive[i])
    BY <1>1, <1>4 DEF IInv
  <2>2. Linked(file')
    BY <1>1, EmptyFile DEF Linked
  <2>3. ASSUME NEW i \in 1..(Len(archive) + 1) PROVE Linked(archive'[i])
    <3>1. i = Len(archive) + 1 \/ i \in 1..Len(archive)
      BY <1>3
    <3> QED
      BY <1>3, <2>1, <3>1
  <2> QED
    BY <1>3, <2>2, <2>3
<1>5. ~(causes' \subseteq {"powerloss"})
  BY <1>1
<1>6. file' \in Seq(Lines(file'))
  BY <1>1, EmptyFile
<1> QED
  BY <1>1, <1>3, <1>4, <1>5, <1>6 DEF IInv

LEMMA NextIInv == IInv /\ [Next]_vars => IInv'
<1> SUFFICES ASSUME IInv, [Next]_vars PROVE IInv'
  OBVIOUS
<1>1. ASSUME NEW p \in Procs, Emit(p) PROVE IInv'
  BY <1>1, EmitIInv
<1>2. ASSUME NEW p \in Procs, EmitUnwritten(p) PROVE IInv'
  BY <1>2, EmitUnwrittenIInv
<1>3. ASSUME NEW p \in Procs, EmitShort(p) PROVE IInv'
  BY <1>3, EmitShortIInv
<1>4. ASSUME NEW p \in Procs, EmitUnrecovered(p) PROVE IInv'
  BY <1>4, EmitUnrecoveredIInv
<1>5. ASSUME NEW p \in Procs, Restart(p) PROVE IInv'
  BY <1>5, RestartIInv
<1>6. CASE PowerLoss
  BY <1>6, PowerLossIInv
<1>7. CASE Rotate
  BY <1>7, RotateIInv
<1>8. CASE UNCHANGED vars
  BY <1>8 DEF vars, IInv, InStep
<1> QED
  BY <1>1, <1>2, <1>3, <1>4, <1>5, <1>6, <1>7, <1>8 DEF Next, Over

LEMMA Invariance == Spec => []IInv
BY InitIInv, NextIInv, PTL DEF Spec

-----------------------------------------------------------------------------

\* However often stewards are killed, started again and cut off from power,
\* the verifier reports nothing as long as no write fails, the file is readable
\* at start-up and is neither rotated nor shared.
THEOREM NoFalseAlarm == Spec => []AlarmHasACause
<1>1. IInv => AlarmHasACause
  BY DEF IInv, AlarmHasACause, verify
<1> QED
  BY <1>1, Invariance, PTL

\* Rotations cut the chain into pieces, and each of them is without gaps.
THEOREM SegmentsCorrect == Spec => []SegmentsAreLinked
<1>1. IInv => SegmentsAreLinked
  BY DEF IInv, SegmentsAreLinked
<1> QED
  BY <1>1, Invariance, PTL

-----------------------------------------------------------------------------
(* The least and the greatest of a set of positions.                       *)

LEMMA Least ==
    ASSUME NEW T, T \subseteq Nat, T # {}
    PROVE  \E x \in T : \A y \in T : x <= y
<1> DEFINE R == OpToRel(<, Nat)
<1>1. IsWellFoundedOn(R, Nat)
  BY NatLessThanWellFounded
<1>2. \A x, y \in Nat : <<x, y>> \in R <=> x < y
  BY DEF OpToRel
<1> HIDE DEF R
<1>3. PICK x \in T : \A y \in T : ~(<<y, x>> \in R)
  BY <1>1, WFMin
<1>4. \A y \in T : y \in Nat /\ ~(y < x)
  BY <1>2, <1>3
<1>5. x \in Nat /\ \A y \in T : x <= y
  BY <1>4
<1> QED
  BY <1>5

LEMMA Greatest ==
    ASSUME NEW n \in Nat, NEW T, T \subseteq 1..n, T # {}
    PROVE  Max(T) \in T /\ \A y \in T : Max(T) >= y
<1> DEFINE U == {n - y : y \in T}
<1>1. \A y \in T : n - y \in Nat
  <2> SUFFICES ASSUME NEW y \in T PROVE n - y \in Nat
    OBVIOUS
  <2>1. y \in 1..n
    OBVIOUS
  <2> QED
    BY <2>1
<1>2. U \subseteq Nat
  BY <1>1
<1>3. U # {}
  OBVIOUS
<1>4. \A y \in T : n - y \in U
  OBVIOUS
<1>5. \A u \in U : \E y \in T : u = n - y
  OBVIOUS
<1> HIDE DEF U
<1>6. PICK u \in U : \A v \in U : u <= v
  BY <1>2, <1>3, Least
<1>7. PICK x \in T : u = n - x
  BY <1>5
<1>8. \A y \in T : n - x <= n - y
  BY <1>4, <1>6, <1>7
<1>9. \A y \in T : x >= y
  <2> SUFFICES ASSUME NEW y \in T PROVE x >= y
    OBVIOUS
  <2>1. x \in Int /\ y \in Int /\ n - x <= n - y
    BY <1>8
  <2> QED
    BY <2>1
<1> QED
  BY <1>9 DEF Max

-----------------------------------------------------------------------------
(* The numbers on disk and in memory, and the lines that are kept.         *)

\* What a process goes on from is no number beyond the records linked.
LEMMA KnownNumber ==
    ASSUME IInv, NumbersInv, NEW p \in Procs
    PROVE  Known(p).seq \in 0..linked
<1>1. linked \in Nat /\ seq[p] \in Nat /\ seq[p] <= linked
  BY BoundsAssumption DEF NumbersInv, TypeOK
<1>2. CASE ready[p]
  BY <1>1, <1>2 DEF Known
<1>3. CASE ~ready[p] /\ Readable(file) = {}
  BY <1>1, <1>3 DEF Known, Recovered
<1>4. CASE ~ready[p] /\ Readable(file) # {}
  <2> DEFINE m == Max(Readable(file))
  <2>1. Len(file) \in Nat
    BY LenProperties DEF IInv
  <2>2. m \in Readable(file)
    BY <1>4, <2>1, Greatest DEF Readable
  <2> HIDE DEF m
  <2>3. m \in 1..Len(file) /\ file[m] # Junk
    BY <2>2 DEF Readable
  <2>4. file[m] \in Kept \ {Junk}
    BY <2>3 DEF Kept, Lines
  <2>5. file[m].seq \in 1..MaxRecords /\ file[m].seq <= linked
    BY <2>4 DEF NumbersInv, TypeOK, IsRecord
  <2>6. Known(p).seq = file[m].seq
    BY <1>4 DEF Known, Recovered, m
  <2> QED
    BY <1>1, <2>5, <2>6, BoundsAssumption
<1> QED
  BY <1>2, <1>3, <1>4

\* An append adds its line, and at most tears the line before it.
LEMMA LinesOfAppended ==
    ASSUME IInv, ragged => file # <<>>, NEW x
    PROVE  /\ Lines(Appended(x)) \subseteq Lines(file) \cup {x, Junk}
           /\ Appended(x) # <<>>
           /\ ~ragged => Lines(file) \cup {x} \subseteq Lines(Appended(x))
<1>1. file \in Seq(Lines(file)) /\ Len(file) \in Nat
  BY LenProperties DEF IInv
<1>2. CASE ragged
  <2>1. Appended(x) = [file EXCEPT ![Len(file)] = Junk]
    BY <1>2 DEF Appended
  <2>2. file \in [1..Len(file) -> Lines(file)]
    BY <1>1, LenProperties
  <2>3. Len(file) # 0
    BY <1>1, <1>2, EmptySeq
  <2>4. Appended(x) \in [1..Len(file) -> Lines(file) \cup {Junk}]
    BY <2>1, <2>2
  <2>5. Appended(x) \in Seq(Lines(file) \cup {Junk}) /\ Len(Appended(x)) = Len(file)
    <3>1. Appended(x) \in Seq(Lines(file) \cup {Junk})
      BY <1>1, <2>4, SeqDef
    <3>2. DOMAIN Appended(x) = 1..Len(file)
      BY <2>4
    <3>3. Len(Appended(x)) \in Nat /\ DOMAIN Appended(x) = 1..Len(Appended(x))
      BY <3>1, LenProperties
    <3> QED
      BY <1>1, <3>1, <3>2, <3>3
  <2>6. \A i \in 1..Len(file) : Appended(x)[i] \in Lines(file) \cup {Junk}
    BY <2>4
  <2>7. Appended(x) # <<>>
    BY <2>3, <2>5, EmptySeq
  <2> QED
    BY <1>2, <2>5, <2>6, <2>7 DEF Lines
<1>3. CASE ~ragged
  <2> DEFINE g == Append(file, x)
  <2>1. /\ Len(g) = Len(file) + 1 /\ g[Len(file) + 1] = x
        /\ \A i \in 1..Len(file) : g[i] = file[i]
        /\ g \in Seq(Lines(g))
    BY <1>1, AppendLine
  <2> HIDE DEF g
  <2>2. \A i \in 1..Len(g) : i = Len(file) + 1 \/ i \in 1..Len(file)
    BY <1>1, <2>1
  <2>3. \A i \in 1..Len(g) : g[i] \in Lines(file) \cup {x}
    BY <2>1, <2>2 DEF Lines
  <2>4. Len(file) + 1 \in 1..Len(g) /\ \A i \in 1..Len(file) : i \in 1..Len(g)
    BY <1>1, <2>1
  <2>5. x \in Lines(g)
    BY <2>1, <2>4 DEF Lines
  <2>6. \A i \in 1..Len(file) : file[i] \in Lines(g)
    <3> SUFFICES ASSUME NEW i \in 1..Len(file) PROVE file[i] \in Lines(g)
      OBVIOUS
    <3>1. i \in 1..Len(g) /\ file[i] = g[i]
      BY <2>1, <2>4
    <3> QED
      BY <3>1 DEF Lines
  <2>7. g # <<>>
    BY <1>1, <2>1, EmptyFile
  <2>8. Lines(g) \subseteq Lines(file) \cup {x}
    BY <2>3 DEF Lines
  <2>9. Lines(file) \subseteq Lines(g)
    BY <2>6 DEF Lines
  <2>10. Appended(x) = g
    BY <1>3 DEF Appended, g
  <2> QED
    BY <1>3, <2>5, <2>7, <2>8, <2>9, <2>10
<1> QED
  BY <1>2, <1>3

\* What is kept changes with the live file alone while nothing is rotated.
LEMMA KeptByAppend ==
    ASSUME IInv, NumbersInv, archive' = archive, NEW x, file' = Appended(x)
    PROVE  /\ Kept' \subseteq Kept \cup {x, Junk}
           /\ file' # <<>>
           /\ ~ragged => Kept \cup {x} \subseteq Kept'
<1>1. ragged => file # <<>>
  BY DEF NumbersInv, TypeOK
<1>2. /\ Lines(file') \subseteq Lines(file) \cup {x, Junk}
      /\ file' # <<>>
      /\ ~ragged => Lines(file) \cup {x} \subseteq Lines(file')
  BY <1>1, LinesOfAppended
<1>3. Kept' = Lines(file') \cup UNION {Lines(archive[i]) : i \in 1..Len(archive)}
  BY DEF Kept
<1>4. Kept = Lines(file) \cup UNION {Lines(archive[i]) : i \in 1..Len(archive)}
  BY DEF Kept
<1> DEFINE Archived == UNION {Lines(archive[i]) : i \in 1..Len(archive)}
<1>5. Kept' = Lines(file') \cup Archived /\ Kept = Lines(file) \cup Archived
  BY <1>3, <1>4
<1> HIDE DEF Archived
<1> QED
  BY <1>2, <1>5

\* Linking a record keeps every number within bounds, whatever of the record
\* reaches the file.
LEMMA LinkNumbers ==
    ASSUME IInv, NumbersInv, NEW p \in Procs,
           NEW s \in 0..linked, NEW h, NEW rec, rec = Record(s + 1, h, linked + 1),
           Link(p, rec),
           Kept' \subseteq Kept \cup {rec, Junk},
           ragged' \in BOOLEAN, ragged' => file' # <<>>,
           "short" \notin causes' => ~ragged',
           acked' \subseteq acked \cup {rec},
           causes' \subseteq AllFaults \cup {"shared"},
           AckedStaysReadable'
    PROVE  NumbersInv'
<1>1. linked \in Nat /\ MaxRecords \in Nat /\ linked < MaxRecords /\ linked' = linked + 1
  BY BoundsAssumption DEF NumbersInv, TypeOK, Link
<1>2. linked' \in 0..MaxRecords /\ linked + 1 \in 1..MaxRecords /\ s + 1 \in 1..MaxRecords
  BY <1>1
<1>3. rec.seq = s + 1 /\ rec.body = linked + 1 /\ rec.prev_hash = h
  BY RecordFields
<1>4. IsRecord(rec)
  BY <1>2, <1>3 DEF IsRecord
<1>5. \A line \in Kept' : line = Junk \/ IsRecord(line)
  BY <1>4 DEF NumbersInv, TypeOK
<1>6. \A line \in Kept' \ {Junk} : line.seq <= linked'
  <2> SUFFICES ASSUME NEW line \in Kept' \ {Junk} PROVE line.seq <= linked'
    OBVIOUS
  <2>1. CASE line = rec
    BY <1>1, <1>3, <2>1
  <2>2. CASE line # rec
    <3>1. line \in Kept \ {Junk}
      BY <2>2
    <3>2. line.seq <= linked /\ IsRecord(line)
      BY <3>1 DEF NumbersInv, TypeOK
    <3>3. line.seq \in Int
      BY <3>2 DEF IsRecord
    <3> QED
      BY <1>1, <3>2, <3>3
  <2> QED
    BY <2>1, <2>2
<1>7. seq' = [seq EXCEPT ![p] = s + 1] /\ ready' = [ready EXCEPT ![p] = TRUE]
  BY <1>3 DEF Link
<1>8. seq' \in [Procs -> 0..MaxRecords] /\ ready' \in [Procs -> BOOLEAN]
  <2>1. s + 1 \in 0..MaxRecords
    BY <1>1, <1>2
  <2> QED
    BY <1>7, <2>1 DEF NumbersInv, TypeOK
<1>9. \A q \in Procs : seq'[q] <= linked'
  <2> SUFFICES ASSUME NEW q \in Procs PROVE seq'[q] <= linked'
    OBVIOUS
  <2>1. seq[q] \in Int /\ seq[q] <= linked /\ seq'[q] = IF q = p THEN s + 1 ELSE seq[q]
    BY <1>7 DEF NumbersInv, TypeOK
  <2> QED
    BY <1>1, <2>1
<1>10. crashes' \in 0..MaxCrashes
  BY DEF Link, NumbersInv, TypeOK
<1>11. \A r \in acked' : IsRecord(r)
  BY <1>4 DEF NumbersInv, TypeOK
<1>12. TypeOK'
  BY <1>2, <1>5, <1>8, <1>10, <1>11 DEF TypeOK
<1> QED
  BY <1>6, <1>9, <1>12 DEF NumbersInv

\* The kinds of fault there are.
LEMMA FaultCauses ==
    ASSUME NumbersInv, NEW kind, Fault(kind)
    PROVE  /\ causes' \subseteq AllFaults \cup {"shared"}
           /\ kind \in causes' /\ causes \subseteq causes'
BY FaultsAssumption DEF Fault, NumbersInv, TypeOK

\* A write that is reported as done is on disk, next to all that was there.
LEMMA WrittenStays ==
    ASSUME IInv, NumbersInv, archive' = archive, NEW rec, Write(rec), causes \subseteq causes'
    PROVE  /\ Kept' \subseteq Kept \cup {rec, Junk}
           /\ ragged' = FALSE /\ acked' \subseteq acked \cup {rec}
           /\ AckedStaysReadable'
<1>1. file' = Appended(rec) /\ ragged' = FALSE /\ acked' = acked \cup {rec}
  BY DEF Write
<1>2. /\ Kept' \subseteq Kept \cup {rec, Junk}
      /\ ~ragged => Kept \cup {rec} \subseteq Kept'
  BY <1>1, KeptByAppend
<1>3. ASSUME causes' \cap {"short", "powerloss"} = {} PROVE acked' \subseteq Kept'
  <2>1. causes \cap {"short", "powerloss"} = {} /\ "short" \notin causes
    BY <1>3
  <2>2. acked \subseteq Kept /\ ~ragged
    BY <2>1 DEF NumbersInv, AckedStaysReadable
  <2> QED
    BY <1>1, <1>2, <2>2
<1> QED
  BY <1>1, <1>2, <1>3 DEF AckedStaysReadable

LEMMA EmitNumbers ==
    ASSUME IInv, NumbersInv, NEW p \in Procs, Emit(p)
    PROVE  NumbersInv'
<1> DEFINE s == Known(p).seq
           h == Known(p).hash
           rec == Record(s + 1, h, linked + 1)
<1>1. Link(p, rec) /\ Write(rec)
  BY DEF Emit, NextRecord
<1>2. causes \subseteq causes' /\ causes' \subseteq AllFaults \cup {"shared"}
  BY DEF Emit, NumbersInv, TypeOK
<1>3. s \in 0..linked
  BY KnownNumber
<1>4. archive' = archive
  BY <1>1 DEF Link
<1> HIDE DEF s, h
<1>5. /\ Kept' \subseteq Kept \cup {rec, Junk}
      /\ ragged' = FALSE /\ acked' \subseteq acked \cup {rec}
      /\ AckedStaysReadable'
  BY <1>1, <1>2, <1>4, WrittenStays
<1> QED
  BY <1>1, <1>2, <1>3, <1>5, LinkNumbers

LEMMA EmitUnwrittenNumbers ==
    ASSUME IInv, NumbersInv, NEW p \in Procs, EmitUnwritten(p)
    PROVE  NumbersInv'
<1> DEFINE s == Known(p).seq
           h == Known(p).hash
           rec == Record(s + 1, h, linked + 1)
<1>1. Link(p, rec) /\ Fault("full") /\ UNCHANGED <<file, ragged, acked>>
  BY DEF EmitUnwritten, NextRecord
<1>2. causes \subseteq causes' /\ causes' \subseteq AllFaults \cup {"shared"}
  BY <1>1, FaultCauses
<1>3. s \in 0..linked
  BY KnownNumber
<1>4. archive' = archive
  BY <1>1 DEF Link
<1>5. Kept' = Kept
  BY <1>1, <1>4 DEF Kept
<1>6. AckedStaysReadable'
  BY <1>1, <1>2, <1>5 DEF NumbersInv, AckedStaysReadable
<1>7. ragged' \in BOOLEAN /\ (ragged' => file' # <<>>) /\ ("short" \notin causes' => ~ragged')
  BY <1>1, <1>2 DEF NumbersInv, TypeOK
<1> HIDE DEF s, h
<1> QED
  BY <1>1, <1>2, <1>3, <1>5, <1>6, <1>7, LinkNumbers

LEMMA EmitShortNumbers ==
    ASSUME IInv, NumbersInv, NEW p \in Procs, EmitShort(p)
    PROVE  NumbersInv'
<1> DEFINE s == Known(p).seq
           h == Known(p).hash
           rec == Record(s + 1, h, linked + 1)
<1>1. /\ Link(p, rec) /\ Fault("short") /\ ragged' = TRUE /\ acked' = acked
      /\ file' = Appended(Junk) \/ file' = Appended(rec)
  BY DEF EmitShort, NextRecord
<1>2. causes' \subseteq AllFaults \cup {"shared"} /\ "short" \in causes'
  BY <1>1, FaultCauses
<1>3. s \in 0..linked
  BY KnownNumber
<1>4. archive' = archive
  BY <1>1 DEF Link
<1> HIDE DEF s, h
<1>5. Kept' \subseteq Kept \cup {rec, Junk} /\ file' # <<>>
  <2>1. CASE file' = Appended(Junk)
    BY <1>4, <2>1, KeptByAppend
  <2>2. CASE file' = Appended(rec)
    BY <1>4, <2>2, KeptByAppend
  <2> QED
    BY <1>1, <2>1, <2>2
<1>6. AckedStaysReadable'
  BY <1>2 DEF AckedStaysReadable
<1> QED
  BY <1>1, <1>2, <1>3, <1>5, <1>6, LinkNumbers

LEMMA EmitUnrecoveredNumbers ==
    ASSUME IInv, NumbersInv, NEW p \in Procs, EmitUnrecovered(p)
    PROVE  NumbersInv'
<1> DEFINE rec == Record(0 + 1, GENESIS_HASH, linked + 1)
<1>1. Link(p, rec) /\ Write(rec) /\ Fault("unreadable")
  BY DEF EmitUnrecovered, NextRecord
<1>2. causes \subseteq causes' /\ causes' \subseteq AllFaults \cup {"shared"}
  BY <1>1, FaultCauses
<1>3. 0 \in 0..linked
  BY DEF NumbersInv, TypeOK
<1>4. archive' = archive
  BY <1>1 DEF Link
<1>5. /\ Kept' \subseteq Kept \cup {rec, Junk}
      /\ ragged' = FALSE /\ acked' \subseteq acked \cup {rec}
      /\ AckedStaysReadable'
  BY <1>1, <1>2, <1>4, WrittenStays
<1> QED
  BY <1>1, <1>2, <1>3, <1>5, LinkNumbers

\* Processes that have forgotten the chain are within any bound.
LEMMA ForgetNumbers ==
    ASSUME NumbersInv, NEW P, Forget(P), linked' = linked, acked' = acked,
           Kept' \subseteq Kept,
           ragged' \in BOOLEAN, ragged' => file' # <<>>,
           "short" \notin causes' => ~ragged',
           causes' \subseteq AllFaults \cup {"shared"},
           crashes' \in 0..MaxCrashes,
           AckedStaysReadable'
    PROVE  NumbersInv'
<1>1. linked \in 0..MaxRecords /\ MaxRecords \in Nat
  BY BoundsAssumption DEF NumbersInv, TypeOK
<1>2. seq' = [p \in Procs |-> IF p \in P THEN 0 ELSE seq[p]]
  BY DEF Forget
<1>3. seq' \in [Procs -> 0..MaxRecords] /\ \A p \in Procs : seq'[p] <= linked
  BY <1>1, <1>2 DEF NumbersInv, TypeOK
<1>4. ready' \in [Procs -> BOOLEAN]
  BY DEF Forget
<1>5. TypeOK'
  BY <1>1, <1>3, <1>4 DEF NumbersInv, TypeOK
<1>6. \A line \in Kept' \ {Junk} : line.seq <= linked'
  BY DEF NumbersInv
<1> QED
  BY <1>3, <1>5, <1>6 DEF NumbersInv

LEMMA RestartNumbers ==
    ASSUME IInv, NumbersInv, NEW p \in Procs, Restart(p)
    PROVE  NumbersInv'
<1>1. /\ Forget({p}) /\ crashes < MaxCrashes /\ crashes' = crashes + 1
      /\ UNCHANGED <<file, ragged, archive, linked, acked, causes>>
  BY DEF Restart
<1>2. crashes' \in 0..MaxCrashes
  BY <1>1, BoundsAssumption DEF NumbersInv, TypeOK
<1>3. Kept' = Kept
  BY <1>1 DEF Kept
<1>4. AckedStaysReadable'
  BY <1>1, <1>3 DEF NumbersInv, AckedStaysReadable
<1>5. /\ ragged' \in BOOLEAN /\ (ragged' => file' # <<>>) /\ ("short" \notin causes' => ~ragged')
      /\ causes' \subseteq AllFaults \cup {"shared"}
  BY <1>1 DEF NumbersInv, TypeOK
<1> QED
  BY <1>1, <1>2, <1>3, <1>4, <1>5, ForgetNumbers

LEMMA PowerLossNumbers ==
    ASSUME IInv, NumbersInv, PowerLoss
    PROVE  NumbersInv'
<1>1. /\ Fault("powerloss") /\ Forget(Procs) /\ ragged' = FALSE
      /\ UNCHANGED <<archive, linked, crashes, acked>>
  BY DEF PowerLoss
<1>2. PICK n \in 0..(Len(file) - 1) : file' = SubSeq(file, 1, n)
  BY DEF PowerLoss
<1>3. Len(file) \in Nat /\ file \in Seq(Lines(file)) /\ n \in 0..Len(file)
  BY <1>2, LenProperties DEF IInv
<1>4. Len(file') = n /\ \A i \in 1..n : file'[i] = file[i] /\ i \in 1..Len(file)
  BY <1>2, <1>3, Prefix
<1>5. Lines(file') \subseteq Lines(file)
  BY <1>4 DEF Lines
<1>6. Kept' \subseteq Kept
  BY <1>1, <1>5 DEF Kept
<1>7. causes' \subseteq AllFaults \cup {"shared"} /\ "powerloss" \in causes'
  BY <1>1, FaultCauses
<1>8. AckedStaysReadable'
  BY <1>7 DEF AckedStaysReadable
<1>9. crashes' \in 0..MaxCrashes
  BY <1>1 DEF NumbersInv, TypeOK
<1> QED
  BY <1>1, <1>6, <1>7, <1>8, <1>9, ForgetNumbers

LEMMA RotateNumbers ==
    ASSUME IInv, NumbersInv, Rotate
    PROVE  NumbersInv'
<1>1. /\ Fault("rotate") /\ archive' = Append(archive, file) /\ file' = <<>> /\ ragged' = FALSE
      /\ UNCHANGED <<seq, lastHash, ready, linked, crashes, acked>>
  BY DEF Rotate, memory
<1>2. causes' \subseteq AllFaults \cup {"shared"} /\ causes \subseteq causes'
  BY <1>1, FaultCauses
<1>3. /\ Len(archive) \in Nat /\ Len(archive') = Len(archive) + 1
      /\ archive'[Len(archive) + 1] = file
      /\ \A i \in 1..Len(archive) : archive'[i] = archive[i]
  BY <1>1, AppendLine DEF IInv
<1>4. \A i \in 1..Len(archive') : i = Len(archive) + 1 \/ i \in 1..Len(archive)
  BY <1>3
<1>5. Kept' \subseteq Kept
  <2>1. Lines(file') = {}
    BY <1>1, EmptyFile DEF Lines
  <2>2. \A i \in 1..Len(archive') : Lines(archive'[i]) \subseteq Kept
    BY <1>3, <1>4 DEF Kept
  <2> QED
    BY <2>1, <2>2 DEF Kept
<1>6. Kept \subseteq Kept'
  <2>1. Len(archive) + 1 \in 1..Len(archive') /\ \A i \in 1..Len(archive) : i \in 1..Len(archive')
    BY <1>3
  <2>2. Lines(file) \subseteq Kept'
    BY <1>3, <2>1 DEF Kept
  <2>3. \A i \in 1..Len(archive) : Lines(archive[i]) \subseteq Kept'
    BY <1>3, <2>1 DEF Kept
  <2> QED
    BY <2>2, <2>3 DEF Kept
<1>7. AckedStaysReadable'
  BY <1>1, <1>2, <1>6 DEF NumbersInv, AckedStaysReadable
<1>8. TypeOK'
  BY <1>1, <1>2, <1>5 DEF NumbersInv, TypeOK
<1> QED
  BY <1>1, <1>5, <1>7, <1>8 DEF NumbersInv

LEMMA InitNumbers == Init => NumbersInv
<1> SUFFICES ASSUME Init PROVE NumbersInv
  OBVIOUS
<1>1. Kept = {}
  BY EmptyFile DEF Init, Kept, Lines
<1>2. linked = 0 /\ linked \in 0..MaxRecords /\ crashes \in 0..MaxCrashes
  BY BoundsAssumption DEF Init
<1>3. seq \in [Procs -> 0..MaxRecords] /\ ready \in [Procs -> BOOLEAN]
  BY BoundsAssumption DEF Init
<1>4. TypeOK
  BY <1>1, <1>2, <1>3 DEF Init, TypeOK
<1> QED
  BY <1>1, <1>2, <1>4 DEF Init, NumbersInv, AckedStaysReadable

LEMMA NextNumbers == IInv /\ NumbersInv /\ [Next]_vars => NumbersInv'
<1> SUFFICES ASSUME IInv, NumbersInv, [Next]_vars PROVE NumbersInv'
  OBVIOUS
<1>1. ASSUME NEW p \in Procs, Emit(p) PROVE NumbersInv'
  BY <1>1, EmitNumbers
<1>2. ASSUME NEW p \in Procs, EmitUnwritten(p) PROVE NumbersInv'
  BY <1>2, EmitUnwrittenNumbers
<1>3. ASSUME NEW p \in Procs, EmitShort(p) PROVE NumbersInv'
  BY <1>3, EmitShortNumbers
<1>4. ASSUME NEW p \in Procs, EmitUnrecovered(p) PROVE NumbersInv'
  BY <1>4, EmitUnrecoveredNumbers
<1>5. ASSUME NEW p \in Procs, Restart(p) PROVE NumbersInv'
  BY <1>5, RestartNumbers
<1>6. CASE PowerLoss
  BY <1>6, PowerLossNumbers
<1>7. CASE Rotate
  BY <1>7, RotateNumbers
<1>8. CASE UNCHANGED vars
  BY <1>8 DEF vars, NumbersInv, TypeOK, AckedStaysReadable, Kept
<1> QED
  BY <1>1, <1>2, <1>3, <1>4, <1>5, <1>6, <1>7, <1>8 DEF Next, Over

LEMMA NumbersInvariance == Spec => []NumbersInv
BY Invariance, InitNumbers, NextNumbers, PTL DEF Spec

\* The audit file and the chain state in memory have their types: every line is
\* a record of this chain or unreadable, no number passes the records linked.
THEOREM TypeCorrect == Spec => []TypeOK
<1>1. NumbersInv => TypeOK
  BY DEF NumbersInv
<1> QED
  BY <1>1, NumbersInvariance, PTL

\* However stewards are killed, started again, kept from writing or from reading,
\* share the file or have it rotated, what _emit wrote in full can still be read.
THEOREM AckedCorrect == Spec => []AckedStaysReadable
<1>1. NumbersInv => AckedStaysReadable
  BY DEF NumbersInv
<1> QED
  BY <1>1, NumbersInvariance, PTL

-----------------------------------------------------------------------------
(* What the verifier reports of a changed file.                            *)

\* A file every line of which parses, and one line of which is wrong, is
\* reported as a mismatch: the walk stops at a line that parses.
LEMMA Detected ==
    ASSUME NEW S, Junk \notin S, NEW f \in Seq(S),
           NEW k \in 1..Len(f), ~LineOk(f, k)
    PROVE  verify(f) = 1
<1> DEFINE Bad == {i \in 1..Len(f) : ~LineOk(f, i)}
<1>1. Len(f) \in Nat /\ \A i \in 1..Len(f) : f[i] # Junk
  BY LenProperties
<1>2. Bad \subseteq Nat /\ Bad # {}
  <2>1. 1..Len(f) \subseteq Nat
    BY <1>1
  <2> QED
    BY <2>1
<1>3. PICK m \in Bad : \A y \in Bad : m <= y
  BY <1>2, Least
<1>4. m \in 1..Len(f) /\ ~LineOk(f, m)
  BY <1>3
<1>5. \A j \in 1..(m - 1) : LineOk(f, j)
  <2> SUFFICES ASSUME NEW j \in 1..(m - 1), ~LineOk(f, j) PROVE FALSE
    OBVIOUS
  <2>1. j \in 1..Len(f) /\ m \in Int /\ j \in Int /\ j < m
    BY <1>1, <1>4
  <2>2. m <= j
    BY <1>3, <2>1
  <2> QED
    BY <2>1, <2>2
<1> HIDE DEF Bad
<1>6. FirstBad(f) \in 1..Len(f)
  BY <1>4, <1>5 DEF FirstBad
<1>7. ~Intact(f)
  BY DEF Intact
<1> QED
  BY <1>1, <1>6, <1>7 DEF verify

\* A deleted line leaves the one after it where its number does not fit.
LEMMA RemovedLine ==
    ASSUME NEW S, NEW f \in Seq(S), Intact(f), NEW i \in 1..Len(f), i # Len(f)
    PROVE  /\ RemoveAt(f, i) \in Seq(S)
           /\ i \in 1..Len(RemoveAt(f, i)) /\ ~LineOk(RemoveAt(f, i), i)
<1> DEFINE a == SubSeq(f, 1, i - 1)
           b == SubSeq(f, i + 1, Len(f))
<1>1. Len(f) \in Nat /\ i \in Nat /\ i >= 1 /\ i < Len(f)
  BY LenProperties
<1>2. \A j \in 1..Len(f) : f[j] \in S
  BY LenProperties
<1>3. a \in Seq(S) /\ Len(a) = i - 1
  <2>1. i - 1 \in Int /\ 1 \in Int /\ \A j \in 1..(i - 1) : f[j] \in S
    BY <1>1, <1>2
  <2>2. a \in Seq(S) /\ Len(a) = IF 1 <= i - 1 THEN i - 1 - 1 + 1 ELSE 0
    BY <2>1, SubSeqProperties
  <2> QED
    BY <1>1, <2>2
<1>4. b \in Seq(S) /\ Len(b) = Len(f) - i /\ b[1] = f[i + 1]
  <2>1. i + 1 \in Int /\ Len(f) \in Int /\ \A j \in (i + 1)..Len(f) : f[j] \in S
    BY <1>1, <1>2
  <2>2. /\ b \in Seq(S)
        /\ Len(b) = IF i + 1 <= Len(f) THEN Len(f) - (i + 1) + 1 ELSE 0
        /\ \A j \in 1..(Len(f) - (i + 1) + 1) : b[j] = f[i + 1 + j - 1]
    BY <2>1, SubSeqProperties
  <2>3. 1 \in 1..(Len(f) - (i + 1) + 1) /\ i + 1 + 1 - 1 = i + 1
    BY <1>1
  <2>4. b[1] = f[i + 1]
    BY <2>2, <2>3
  <2> QED
    BY <1>1, <2>2, <2>4
<1>5. RemoveAt(f, i) = a \o b
  BY DEF RemoveAt
<1> HIDE DEF a, b
<1>6. /\ a \o b \in Seq(S) /\ Len(a \o b) = Len(a) + Len(b)
      /\ \A j \in 1..(Len(a) + Len(b)) : (a \o b)[j] = IF j <= Len(a) THEN a[j] ELSE b[j - Len(a)]
  BY <1>3, <1>4, ConcatProperties
<1>7. i \in 1..(Len(a) + Len(b)) /\ ~(i <= Len(a)) /\ i - Len(a) = 1
  BY <1>1, <1>3, <1>4
<1>8. (a \o b)[i] = f[i + 1]
  BY <1>4, <1>6, <1>7
<1>9. i + 1 \in 1..Len(f) /\ i + 1 # i
  BY <1>1
<1>10. f[i + 1].seq = i + 1
  BY <1>9 DEF Intact, LineOk
<1>11. ~LineOk(a \o b, i)
  BY <1>8, <1>9, <1>10 DEF LineOk
<1> QED
  BY <1>5, <1>6, <1>7, <1>11

\* An inserted line pushes the one at its place where its number does not fit.
LEMMA InsertedLine ==
    ASSUME NEW S, NEW f \in Seq(S), Intact(f), NEW i \in 1..Len(f), NEW e \in S
    PROVE  /\ InsertAt(f, i, e) \in Seq(S)
           /\ i + 1 \in 1..Len(InsertAt(f, i, e)) /\ ~LineOk(InsertAt(f, i, e), i + 1)
<1> DEFINE a == SubSeq(f, 1, i - 1)
           b == SubSeq(f, i, Len(f))
           c == a \o <<e>>
<1>1. Len(f) \in Nat /\ i \in Nat /\ i >= 1 /\ i <= Len(f)
  BY LenProperties
<1>2. \A j \in 1..Len(f) : f[j] \in S
  BY LenProperties
<1>3. a \in Seq(S) /\ Len(a) = i - 1
  <2>1. i - 1 \in Int /\ 1 \in Int /\ \A j \in 1..(i - 1) : f[j] \in S
    BY <1>1, <1>2
  <2>2. a \in Seq(S) /\ Len(a) = IF 1 <= i - 1 THEN i - 1 - 1 + 1 ELSE 0
    BY <2>1, SubSeqProperties
  <2> QED
    BY <1>1, <2>2
<1>4. b \in Seq(S) /\ Len(b) = Len(f) - i + 1 /\ b[1] = f[i]
  <2>1. i \in Int /\ Len(f) \in Int /\ \A j \in i..Len(f) : f[j] \in S
    BY <1>1, <1>2
  <2>2. /\ b \in Seq(S)
        /\ Len(b) = IF i <= Len(f) THEN Len(f) - i + 1 ELSE 0
        /\ \A j \in 1..(Len(f) - i + 1) : b[j] = f[i + j - 1]
    BY <2>1, SubSeqProperties
  <2>3. 1 \in 1..(Len(f) - i + 1) /\ i + 1 - 1 = i
    BY <1>1
  <2>4. b[1] = f[i]
    BY <2>2, <2>3
  <2> QED
    BY <1>1, <2>2, <2>4
<1>5. InsertAt(f, i, e) = c \o b
  BY DEF InsertAt
<1>6. <<e>> \in Seq(S) /\ Len(<<e>>) = 1
  OBVIOUS
<1>7. c \in Seq(S) /\ Len(c) = i
  <2>1. c \in Seq(S) /\ Len(c) = Len(a) + Len(<<e>>)
    BY <1>3, <1>6, ConcatProperties
  <2> QED
    BY <1>1, <1>3, <1>6, <2>1
<1> HIDE DEF a, b, c
<1>8. /\ c \o b \in Seq(S) /\ Len(c \o b) = Len(c) + Len(b)
      /\ \A j \in 1..(Len(c) + Len(b)) : (c \o b)[j] = IF j <= Len(c) THEN c[j] ELSE b[j - Len(c)]
  BY <1>4, <1>7, ConcatProperties
<1>9. i + 1 \in 1..(Len(c) + Len(b)) /\ ~(i + 1 <= Len(c)) /\ i + 1 - Len(c) = 1
  <2>1. Len(c) = i /\ Len(b) = Len(f) - i + 1
    BY <1>4, <1>7
  <2>2. \A n \in Nat, k \in Nat :
           k >= 1 /\ k <= n => k + 1 \in 1..(k + (n - k + 1)) /\ ~(k + 1 <= k) /\ k + 1 - k = 1
    OBVIOUS
  <2> QED
    BY <1>1, <2>1, <2>2
<1>10. (c \o b)[i + 1] = f[i]
  <2>1. (c \o b)[i + 1] = b[i + 1 - Len(c)]
    BY <1>8, <1>9
  <2>2. b[i + 1 - Len(c)] = b[1]
    BY <1>9
  <2> QED
    BY <1>4, <2>1, <2>2
<1>11. f[i].seq = i /\ i # i + 1
  BY <1>1 DEF Intact, LineOk
<1>12. ~LineOk(c \o b, i + 1)
  BY <1>10, <1>11 DEF LineOk
<1> QED
  BY <1>5, <1>8, <1>9, <1>12

\* A line rewritten in place.
LEMMA RewrittenLine ==
    ASSUME NEW S, NEW f \in Seq(S), NEW i \in 1..Len(f), NEW e \in S
    PROVE  /\ [f EXCEPT ![i] = e] \in Seq(S)
           /\ Len([f EXCEPT ![i] = e]) = Len(f)
           /\ [f EXCEPT ![i] = e][i] = e
           /\ \A j \in 1..Len(f) : j # i => [f EXCEPT ![i] = e][j] = f[j]
<1>1. Len(f) \in Nat /\ f \in [1..Len(f) -> S]
  BY LenProperties
<1> DEFINE g == [f EXCEPT ![i] = e]
<1>2. g \in [1..Len(f) -> S] /\ g[i] = e /\ \A j \in 1..Len(f) : j # i => g[j] = f[j]
  BY <1>1
<1>3. g \in Seq(S) /\ DOMAIN g = 1..Len(f)
  BY <1>1, <1>2, SeqDef
<1>4. Len(g) \in Nat /\ DOMAIN g = 1..Len(g)
  BY <1>3, LenProperties
<1>5. Len(g) = Len(f)
  <2> HIDE DEF g
  <2> QED
    BY <1>1, <1>3, <1>4
<1> QED
  BY <1>2, <1>3, <1>5

\* A record whose content, or whose link, was rewritten: it still parses, its
\* number is what it was and its hash is that of what it said before.
LEMMA RewrittenRecord ==
    ASSUME NEW r, IsRecord(r)
    PROVE  /\ [r EXCEPT !.body = 0] # Junk
           /\ [r EXCEPT !.body = 0].hash
                # Hash([r EXCEPT !.body = 0].seq, [r EXCEPT !.body = 0].prev_hash,
                       [r EXCEPT !.body = 0].body)
           /\ [r EXCEPT !.prev_hash = GENESIS_HASH] # Junk
           /\ [r EXCEPT !.prev_hash = GENESIS_HASH].prev_hash = GENESIS_HASH
           /\ r.hash # GENESIS_HASH
<1> DEFINE s == r.seq
           h == r.prev_hash
           b == r.body
<1>1. b # 0
  BY BoundsAssumption DEF IsRecord
<1>2. r = [seq |-> s, prev_hash |-> h, body |-> b, hash |-> <<s, h, b>>]
  BY DEF IsRecord, Record, Hash
<1> HIDE DEF s, h, b
<1> DEFINE x == [r EXCEPT !.body = 0]
           y == [r EXCEPT !.prev_hash = GENESIS_HASH]
<1>3. x = [seq |-> s, prev_hash |-> h, body |-> 0, hash |-> <<s, h, b>>]
  BY <1>2
<1>4. y = [seq |-> s, prev_hash |-> GENESIS_HASH, body |-> b, hash |-> <<s, h, b>>]
  BY <1>2
<1>5. <<s, h, b>> # <<s, h, 0>> /\ <<s, h, b>> # <<>>
  BY <1>1
<1>6. DOMAIN Junk = {"text"} /\ DOMAIN x # {"text"} /\ DOMAIN y # {"text"}
  BY <1>3, <1>4 DEF Junk
<1>7. x # Junk /\ y # Junk
  BY <1>6
<1>8. r.hash = <<s, h, b>> /\ x.hash = <<s, h, b>> /\ x.seq = s /\ x.prev_hash = h /\ x.body = 0
  BY <1>2, <1>3
<1>9. y.prev_hash = GENESIS_HASH
  BY <1>4
<1> QED
  BY <1>5, <1>7, <1>8, <1>9 DEF Hash, GENESIS_HASH

\* Every change to an intact file leaves a file of lines that parse, one of
\* which does not fit.
LEMMA ChangedFile ==
    ASSUME NEW f, f \in Seq(Lines(f)), Intact(f), \A line \in Lines(f) : IsRecord(line),
           NEW g \in Changes(f)
    PROVE  verify(g) = 1
<1> DEFINE S == {r \in Lines(f) \cup {[f[i] EXCEPT !.body = 0] : i \in 1..Len(f)}
                       \cup {[f[i] EXCEPT !.prev_hash = GENESIS_HASH] : i \in 1..Len(f)} : r # Junk}
           I == 1..Len(f)
<1>1. Len(f) \in Nat /\ f \in [1..Len(f) -> Lines(f)] /\ \A i \in 1..Len(f) : IsRecord(f[i])
  BY LenProperties DEF Lines
<1>2. \A i \in 1..Len(f) : f[i] # Junk /\ f[i].seq = i
  BY DEF Intact, LineOk
<1>3. Junk \notin S
  OBVIOUS
<1>4. /\ \A i \in I : f[i] \in S
      /\ \A i \in I : [f[i] EXCEPT !.body = 0] \in S
      /\ \A i \in I : [f[i] EXCEPT !.prev_hash = GENESIS_HASH] \in S
  BY <1>1, <1>2, RewrittenRecord DEF Lines
<1> HIDE DEF S
<1>5. f \in [1..Len(f) -> S] /\ f \in Seq(S)
  BY <1>1, <1>4, SeqDef
<1>6. ASSUME NEW i \in I \ {Len(f)}, g = RemoveAt(f, i) PROVE verify(g) = 1
  BY <1>3, <1>5, <1>6, RemovedLine, Detected
<1>7. ASSUME NEW i \in I, NEW j \in I, g = InsertAt(f, i, f[j]) PROVE verify(g) = 1
  BY <1>3, <1>4, <1>5, <1>7, InsertedLine, Detected
<1>8. ASSUME NEW x \in I \X I, x[1] < x[2], g = [f EXCEPT ![x[1]] = f[x[2]], ![x[2]] = f[x[1]]]
      PROVE  verify(g) = 1
  <2>1. x[1] \in I /\ x[2] \in I /\ x[1] # x[2]
    BY <1>1, <1>8
  <2> DEFINE h == [f EXCEPT ![x[1]] = f[x[2]]]
  <2>2. h \in Seq(S) /\ Len(h) = Len(f) /\ h[x[1]] = f[x[2]]
    BY <1>4, <1>5, <2>1, RewrittenLine
  <2>3. g = [h EXCEPT ![x[2]] = f[x[1]]]
    BY <1>8
  <2> HIDE DEF h
  <2>4. g \in Seq(S) /\ Len(g) = Len(f) /\ g[x[1]] = h[x[1]]
    BY <1>4, <2>1, <2>2, <2>3, RewrittenLine
  <2>5. g[x[1]].seq # x[1]
    BY <1>2, <2>1, <2>2, <2>4
  <2>6. ~LineOk(g, x[1])
    BY <2>5 DEF LineOk
  <2> QED
    BY <1>3, <2>1, <2>4, <2>6, Detected
<1>9. ASSUME NEW i \in I, g = [f EXCEPT ![i].body = 0] PROVE verify(g) = 1
  <2> DEFINE e == [f[i] EXCEPT !.body = 0]
  <2>1. e \in S /\ e.hash # Hash(e.seq, e.prev_hash, e.body)
    BY <1>1, <1>4, RewrittenRecord
  <2>2. g = [f EXCEPT ![i] = e]
    BY <1>9
  <2> HIDE DEF e
  <2>3. g \in Seq(S) /\ Len(g) = Len(f) /\ g[i] = e
    BY <1>5, <2>1, <2>2, RewrittenLine
  <2>4. ~LineOk(g, i)
    BY <2>1, <2>3 DEF LineOk
  <2> QED
    BY <1>3, <2>3, <2>4, Detected
<1>10. ASSUME NEW i \in I \ {1}, g = [f EXCEPT ![i].prev_hash = GENESIS_HASH] PROVE verify(g) = 1
  <2> DEFINE e == [f[i] EXCEPT !.prev_hash = GENESIS_HASH]
  <2>1. e \in S /\ e.prev_hash = GENESIS_HASH
    BY <1>1, <1>4, RewrittenRecord
  <2>2. g = [f EXCEPT ![i] = e]
    BY <1>10
  <2> HIDE DEF e
  <2>3. g \in Seq(S) /\ Len(g) = Len(f) /\ g[i] = e /\ \A j \in I : j # i => g[j] = f[j]
    BY <1>5, <2>1, <2>2, RewrittenLine
  <2>4. i - 1 \in I /\ i - 1 # i /\ i # 1
    BY <1>1
  <2>5. g[i - 1].hash # GENESIS_HASH
    BY <1>1, <2>3, <2>4, RewrittenRecord
  <2>6. ~LineOk(g, i)
    BY <2>1, <2>3, <2>4, <2>5 DEF LineOk
  <2> QED
    BY <1>3, <2>3, <2>6, Detected
<1>11. \/ \E i \in I \ {Len(f)} : g = RemoveAt(f, i)
       \/ \E i \in I, j \in I : g = InsertAt(f, i, f[j])
       \/ \E x \in I \X I : x[1] < x[2] /\ g = [f EXCEPT ![x[1]] = f[x[2]], ![x[2]] = f[x[1]]]
       \/ \E i \in I : g = [f EXCEPT ![i].body = 0]
       \/ \E i \in I \ {1} : g = [f EXCEPT ![i].prev_hash = GENESIS_HASH]
  BY DEF Changes
<1> QED
  BY <1>6, <1>7, <1>8, <1>9, <1>10, <1>11

\* Deleting, inserting, exchanging or altering a line of an intact file, of any
\* length, is reported as a mismatch.
THEOREM DetectionCorrect == Spec => []ChangesAreDetected
<1>1. ASSUME IInv, NumbersInv, Intact(file), NEW g \in Changes(file) PROVE verify(g) = 1
  <2>1. file \in Seq(Lines(file))
    BY <1>1 DEF IInv
  <2>2. \A line \in Lines(file) : line \in Kept /\ line # Junk
    BY <1>1 DEF Kept, Lines, Intact, LineOk
  <2>3. \A line \in Lines(file) : IsRecord(line)
    BY <1>1, <2>2 DEF NumbersInv, TypeOK
  <2> QED
    BY <1>1, <2>1, <2>3, ChangedFile
<1>2. IInv /\ NumbersInv => ChangesAreDetected
  BY <1>1 DEF ChangesAreDetected
<1> QED
  BY <1>2, Invariance, NumbersInvariance, PTL
=============================================================================
