------------------------- MODULE SqlExecution_proofs -------------------------
(***************************************************************************)
(* Proofs about execute_sql_safe, for every number of concurrent calls, of *)
(* threads and of cancellations from outside.                              *)
(***************************************************************************)
EXTENDS SqlExecution, SequenceTheorems, WellFoundedInduction, TLAPS

-----------------------------------------------------------------------------
(* The executor's queue.                                                   *)

\* e is in q once at most.
Single(q, e) == \A i, j \in 1..Len(q) : q[i] = e /\ q[j] = e => i = j

LEMMA Least ==
    ASSUME NEW T, T \subseteq Nat, T # {}
    PROVE  Min(T) \in T /\ \A y \in T : Min(T) <= y
<1> DEFINE R == OpToRel(<, Nat)
<1>1. IsWellFoundedOn(R, Nat)
  BY NatLessThanWellFounded
<1>2. \A x, y \in Nat : <<x, y>> \in R <=> x < y
  BY DEF OpToRel
<1> HIDE DEF R
<1>3. PICK x \in T : \A y \in T : ~(<<y, x>> \in R)
  BY <1>1, WFMin
<1>4. \A y \in T : y \in Nat /\ ~(y < x)
  BY <1>2, <1>3
<1>5. x \in Nat /\ \A y \in T : x <= y
  BY <1>4
<1> QED
  BY <1>5 DEF Min

\* Deleting one position of a queue.
LEMMA RemovedPosition ==
    ASSUME NEW S, NEW q \in Seq(S), NEW k \in 1..Len(q)
    PROVE  /\ RemoveAt(q, k) \in Seq(S)
           /\ \A e : Contains(RemoveAt(q, k), e) => Contains(q, e)
           /\ \A e : Contains(q, e) /\ e # q[k] => Contains(RemoveAt(q, k), e)
           /\ \A e : Single(q, e) => Single(RemoveAt(q, k), e)
<1> DEFINE a == SubSeq(q, 1, k - 1)
           b == SubSeq(q, k + 1, Len(q))
<1>1. Len(q) \in Nat /\ k \in Nat /\ k >= 1 /\ k <= Len(q)
  BY LenProperties
<1>2. \A j \in 1..Len(q) : q[j] \in S
  BY LenProperties
<1>3. a \in Seq(S) /\ Len(a) = k - 1 /\ \A j \in 1..(k - 1) : a[j] = q[j]
  <2>1. k - 1 \in Int /\ 1 \in Int /\ \A j \in 1..(k - 1) : q[j] \in S
    BY <1>1, <1>2
  <2>2. /\ a \in Seq(S) /\ Len(a) = IF 1 <= k - 1 THEN k - 1 - 1 + 1 ELSE 0
        /\ \A j \in 1..(k - 1 - 1 + 1) : a[j] = q[1 + j - 1]
    BY <2>1, SubSeqProperties
  <2>3. \A j \in 1..(k - 1) : j \in 1..(k - 1 - 1 + 1) /\ 1 + j - 1 = j
    BY <1>1
  <2> QED
    BY <1>1, <2>2, <2>3
<1>4. b \in Seq(S) /\ Len(b) = Len(q) - k /\ \A j \in 1..(Len(q) - k) : b[j] = q[k + j]
  <2>1. k + 1 \in Int /\ Len(q) \in Int /\ \A j \in (k + 1)..Len(q) : q[j] \in S
    BY <1>1, <1>2
  <2>2. /\ b \in Seq(S)
        /\ Len(b) = IF k + 1 <= Len(q) THEN Len(q) - (k + 1) + 1 ELSE 0
        /\ \A j \in 1..(Len(q) - (k + 1) + 1) : b[j] = q[k + 1 + j - 1]
    BY <2>1, SubSeqProperties
  <2>3. \A j \in 1..(Len(q) - k) : j \in 1..(Len(q) - (k + 1) + 1) /\ k + 1 + j - 1 = k + j
    BY <1>1
  <2> QED
    BY <1>1, <2>2, <2>3
<1>5. RemoveAt(q, k) = a \o b
  BY DEF RemoveAt
<1> DEFINE g == a \o b
<1>6. /\ g \in Seq(S) /\ Len(g) = Len(a) + Len(b)
      /\ \A j \in 1..(Len(a) + Len(b)) : g[j] = IF j <= Len(a) THEN a[j] ELSE b[j - Len(a)]
  BY <1>3, <1>4, ConcatProperties
<1> HIDE DEF a, b, g
<1>7. Len(g) = Len(q) - 1
  BY <1>1, <1>3, <1>4, <1>6
<1>8. \A j \in 1..(k - 1) : j \in 1..Len(g) /\ g[j] = q[j] /\ j \in 1..Len(q)
  <2> SUFFICES ASSUME NEW j \in 1..(k - 1) PROVE j \in 1..Len(g) /\ g[j] = q[j] /\ j \in 1..Len(q)
    OBVIOUS
  <2>1. j \in 1..Len(g) /\ j \in 1..Len(q)
    BY <1>1, <1>7
  <2>2. j <= Len(a)
    BY <1>1, <1>3
  <2> QED
    BY <1>3, <1>6, <2>1, <2>2
<1>9. \A j \in 1..(Len(q) - k) :
         k - 1 + j \in 1..Len(g) /\ g[k - 1 + j] = q[k + j] /\ k + j \in 1..Len(q)
  <2> SUFFICES ASSUME NEW j \in 1..(Len(q) - k)
               PROVE  k - 1 + j \in 1..Len(g) /\ g[k - 1 + j] = q[k + j] /\ k + j \in 1..Len(q)
    OBVIOUS
  <2>1. k - 1 + j \in 1..Len(g) /\ k + j \in 1..Len(q)
    BY <1>1, <1>7
  <2>2. Len(a) = k - 1
    BY <1>3
  <2>3. ~(k - 1 + j <= Len(a)) /\ k - 1 + j - Len(a) = j
    BY <1>1, <2>2
  <2>4. g[k - 1 + j] = b[j]
    BY <1>6, <2>1, <2>3
  <2> QED
    BY <1>4, <2>1, <2>4
<1>10. ASSUME NEW e, Contains(g, e) PROVE Contains(q, e)
  <2>1. PICK j \in 1..Len(g) : g[j] = e
    BY <1>10 DEF Contains
  <2>2. CASE j < k
    <3>1. j \in 1..(k - 1)
      BY <1>1, <1>7, <2>2
    <3> QED
      BY <1>8, <2>1, <3>1 DEF Contains
  <2>3. CASE j >= k
    <3>1. j - k + 1 \in 1..(Len(q) - k) /\ k - 1 + (j - k + 1) = j
      BY <1>1, <1>7, <2>3
    <3>2. g[j] = q[k + (j - k + 1)] /\ k + (j - k + 1) \in 1..Len(q)
      BY <1>9, <3>1
    <3> QED
      BY <2>1, <3>2 DEF Contains
  <2> QED
    BY <1>1, <1>7, <2>2, <2>3
<1>11. ASSUME NEW e, Contains(q, e), e # q[k] PROVE Contains(g, e)
  <2>1. PICK j \in 1..Len(q) : q[j] = e
    BY <1>11 DEF Contains
  <2>2. CASE j < k
    <3>1. j \in 1..(k - 1)
      BY <1>1, <2>2
    <3> QED
      BY <1>8, <2>1, <3>1 DEF Contains
  <2>3. CASE j > k
    <3>1. j - k \in 1..(Len(q) - k) /\ k + (j - k) = j
      BY <1>1, <2>3
    <3>2. k - 1 + (j - k) \in 1..Len(g) /\ g[k - 1 + (j - k)] = q[j]
      BY <1>9, <3>1
    <3> QED
      BY <2>1, <3>2 DEF Contains
  <2>4. j # k
    BY <1>11, <2>1
  <2> QED
    BY <1>1, <2>2, <2>3, <2>4
<1>12. ASSUME NEW e, Single(q, e), NEW i \in 1..Len(g), NEW j \in 1..Len(g), g[i] = e, g[j] = e
       PROVE  i = j
  <2> DEFINE From(n) == IF n < k THEN n ELSE n + 1
  <2>1. ASSUME NEW n \in 1..Len(g) PROVE From(n) \in 1..Len(q) /\ g[n] = q[From(n)]
    <3>1. CASE n < k
      <4>1. n \in 1..(k - 1)
        BY <1>1, <1>7, <3>1
      <4> QED
        BY <1>8, <3>1, <4>1
    <3>2. CASE n >= k
      <4>1. n - k + 1 \in 1..(Len(q) - k) /\ k - 1 + (n - k + 1) = n /\ k + (n - k + 1) = n + 1
            /\ ~(n < k)
        BY <1>1, <1>7, <3>2
      <4> QED
        BY <1>9, <4>1
    <3> QED
      BY <1>1, <1>7, <3>1, <3>2
  <2>2. From(i) = From(j)
    <3> HIDE DEF From
    <3> QED
      BY <1>12, <2>1 DEF Single
  <2>3. i \in Int /\ j \in Int /\ k \in Int
    BY <1>1, <1>7
  <2> QED
    BY <2>2, <2>3
<1>13. \A e : Single(q, e) => Single(g, e)
  BY <1>12 DEF Single
<1> QED
  BY <1>5, <1>6, <1>10, <1>11, <1>13 DEF g

\* Cancelling the future of a job takes no other job out of the queue.
LEMMA Removed ==
    ASSUME NEW S, NEW q \in Seq(S), NEW x
    PROVE  /\ RemoveFirst(q, x) \in Seq(S)
           /\ \A e : Contains(RemoveFirst(q, x), e) => Contains(q, e)
           /\ \A e : Contains(q, e) /\ e # x => Contains(RemoveFirst(q, x), e)
           /\ \A e : Single(q, e) => Single(RemoveFirst(q, x), e)
<1>1. CASE ~\E i \in 1..Len(q) : q[i] = x
  BY <1>1 DEF RemoveFirst
<1>2. CASE \E i \in 1..Len(q) : q[i] = x
  <2> DEFINE I == {i \in 1..Len(q) : q[i] = x}
             k == Min(I)
  <2>1. I \subseteq Nat /\ I # {}
    BY <1>2, LenProperties
  <2>2. k \in I
    BY <2>1, Least
  <2>3. SelectInSeq(q, LAMBDA v : v = x) = k
    BY <2>1 DEF SelectInSeq
  <2>4. RemoveFirst(q, x) = RemoveAt(q, k)
    BY <1>2, <2>3 DEF RemoveFirst
  <2>5. k \in 1..Len(q) /\ q[k] = x
    BY <2>2
  <2> HIDE DEF k, I
  <2> QED
    BY <2>4, <2>5, RemovedPosition
<1> QED
  BY <1>1, <1>2

LEMMA Appended ==
    ASSUME NEW S, NEW q \in Seq(S), NEW x \in S
    PROVE  /\ Append(q, x) \in Seq(S)
           /\ \A e : Contains(Append(q, x), e) <=> e = x \/ Contains(q, e)
           /\ \A e : Single(q, e) /\ (e = x => ~Contains(q, e)) => Single(Append(q, x), e)
<1> DEFINE g == Append(q, x)
<1>1. /\ g \in Seq(S) /\ Len(q) \in Nat /\ Len(g) = Len(q) + 1 /\ g[Len(q) + 1] = x
      /\ \A i \in 1..Len(q) : g[i] = q[i]
  BY AppendProperties, LenProperties
<1> HIDE DEF g
<1>2. /\ \A i \in 1..Len(g) : i = Len(q) + 1 \/ i \in 1..Len(q)
      /\ \A i \in 1..Len(q) : i \in 1..Len(g)
      /\ Len(q) + 1 \in 1..Len(g)
  BY <1>1
<1>3. \A e : Contains(g, e) <=> e = x \/ Contains(q, e)
  BY <1>1, <1>2 DEF Contains
<1>4. ASSUME NEW e, Single(q, e), e = x => ~Contains(q, e) PROVE Single(g, e)
  <2> SUFFICES ASSUME NEW i \in 1..Len(g), NEW j \in 1..Len(g), g[i] = e, g[j] = e PROVE i = j
    BY DEF Single
  <2>1. CASE e = x
    <3>1. \A n \in 1..Len(q) : q[n] # e
      BY <1>4, <2>1 DEF Contains
    <3> QED
      BY <1>1, <1>2, <3>1
  <2>2. CASE e # x
    BY <1>1, <1>2, <1>4, <2>2 DEF Single
  <2> QED
    BY <2>1, <2>2
<1> QED
  BY <1>1, <1>3, <1>4 DEF g

LEMMA Taken ==
    ASSUME NEW S, NEW q \in Seq(S), q # <<>>
    PROVE  /\ Tail(q) \in Seq(S) /\ Head(q) \in S
           /\ \A e : Contains(q, e) <=> e = Head(q) \/ Contains(Tail(q), e)
           /\ \A e : Single(q, e) => Single(Tail(q), e) /\ (e = Head(q) => ~Contains(Tail(q), e))
<1> DEFINE g == Tail(q)
<1>1. /\ Head(q) \in S /\ g \in Seq(S) /\ Len(g) = Len(q) - 1
      /\ \A i \in 1..Len(g) : g[i] = q[i + 1]
  BY HeadTailProperties
<1>2. Len(q) \in Nat /\ Len(q) # 0 /\ Head(q) = q[1]
  BY LenProperties, EmptySeq
<1> HIDE DEF g
<1>3. /\ 1 \in 1..Len(q)
      /\ \A i \in 1..Len(q) : i = 1 \/ (i - 1 \in 1..Len(g) /\ i - 1 + 1 = i)
      /\ \A i \in 1..Len(g) : i + 1 \in 1..Len(q)
  BY <1>1, <1>2
<1>4. ASSUME NEW e, Contains(q, e) PROVE e = Head(q) \/ Contains(g, e)
  <2>1. PICK i \in 1..Len(q) : q[i] = e
    BY <1>4 DEF Contains
  <2>2. CASE i = 1
    BY <1>2, <2>1, <2>2
  <2>3. CASE i # 1
    <3>1. i - 1 \in 1..Len(g) /\ g[i - 1] = q[i]
      BY <1>1, <1>3, <2>3
    <3> QED
      BY <2>1, <3>1 DEF Contains
  <2> QED
    BY <2>2, <2>3
<1>5. ASSUME NEW e, e = Head(q) \/ Contains(g, e) PROVE Contains(q, e)
  <2>1. CASE e = Head(q)
    BY <1>2, <1>3, <2>1 DEF Contains
  <2>2. CASE Contains(g, e)
    <3>1. PICK i \in 1..Len(g) : g[i] = e
      BY <2>2 DEF Contains
    <3> QED
      BY <1>1, <1>3, <3>1 DEF Contains
  <2> QED
    BY <1>5, <2>1, <2>2
<1>6. ASSUME NEW e, Single(q, e) PROVE Single(g, e)
  <2> SUFFICES ASSUME NEW i \in 1..Len(g), NEW j \in 1..Len(g), g[i] = e, g[j] = e PROVE i = j
    BY DEF Single
  <2>1. i + 1 \in 1..Len(q) /\ j + 1 \in 1..Len(q) /\ q[i + 1] = e /\ q[j + 1] = e
    BY <1>1, <1>3
  <2>2. i + 1 = j + 1
    BY <1>6, <2>1 DEF Single
  <2> QED
    BY <1>1, <1>2, <2>2
<1>7. ASSUME NEW e, Single(q, e), e = Head(q), Contains(g, e) PROVE FALSE
  <2>1. PICK i \in 1..Len(g) : g[i] = e
    BY <1>7 DEF Contains
  <2>2. i + 1 \in 1..Len(q) /\ q[i + 1] = e /\ q[1] = e /\ i + 1 # 1
    BY <1>1, <1>2, <1>3, <1>7, <2>1
  <2> QED
    BY <1>3, <1>7, <2>2 DEF Single
<1> QED
  BY <1>1, <1>4, <1>5, <1>6, <1>7 DEF g

-----------------------------------------------------------------------------
(* What is claimed of one call.                                            *)

Accounted(c) ==
    At(c, "done") /\ task[c].known /\ stmt[c] = "RUNNING" =>
        \/ CancelPending(c)
        \/ cancelReq[c] \in {"refused", "dropped"}
        \/ task[c].reply = "BLANK"

RecordTrue(c) ==
    /\ record[c] \in Terminal => stmt[c] = record[c]
    /\ outcome[c] = "success" => stmt[c] = "SUCCEEDED"

CallInv(c) ==
    /\ PhaseInv(c) /\ ReplyInv(c) /\ PoolInv(c) /\ CancelInv(c) /\ FaultFreeInv(c)
    /\ Accounted(c) /\ RecordTrue(c)

LEMMA IInvByCall ==
    /\ IInv <=> TypeOK /\ \A c \in Calls : CallInv(c)
    /\ IInv' <=> TypeOK' /\ \A c \in Calls : CallInv(c)'
BY DEF IInv, CallInv, Accounted, RecordTrue, GhostsAreAccounted, TerminalRecordsAreTrue

\* A step that leaves a call, its statement and its jobs alone.
LEMMA Untouched ==
    ASSUME NEW d \in Calls, CallInv(d),
           task'[d] = task[d], stmt'[d] = stmt[d], cancelReq'[d] = cancelReq[d],
           record'[d] = record[d], outcome'[d] = outcome[d],
           \A pc \in JobPcs : InPool(<<d, pc>>)' <=> InPool(<<d, pc>>)
    PROVE  CallInv(d)'
<1>1. CancelPcs \subseteq JobPcs
  BY DEF CancelPcs, JobPcs
<1>2. CancelPending(d)' <=> CancelPending(d)
  <2>1. CancelPending(d) <=> \E pc \in CancelPcs : InPool(<<d, pc>>)
    BY DEF CancelPending, InPool
  <2>2. CancelPending(d)' <=> \E pc \in CancelPcs : InPool(<<d, pc>>)'
    BY DEF CancelPending, InPool
  <2> QED
    BY <1>1, <2>1, <2>2
<1>3. PhaseInv(d)'
  BY DEF CallInv, PhaseInv
<1>4. ReplyInv(d)'
  BY DEF CallInv, ReplyInv, At
<1>5. PoolInv(d)'
  BY <1>1 DEF CallInv, PoolInv
<1>6. CancelInv(d)'
  BY DEF CallInv, CancelInv, At
<1>7. FaultFreeInv(d)'
  BY DEF CallInv, FaultFreeInv, At
<1>8. Accounted(d)'
  BY <1>2 DEF CallInv, Accounted, At
<1>9. RecordTrue(d)'
  BY DEF CallInv, RecordTrue
<1> QED
  BY <1>3, <1>4, <1>5, <1>6, <1>7, <1>8, <1>9 DEF CallInv

\* The ways the pool can look to the calls a coroutine's step is not about.
LEMMA OtherJobs ==
    ASSUME TypeOK, NEW c \in Calls, NEW d \in Calls, d # c, running' = running,
           \/ queue' = Withdraw(c)
           \/ \E p \in JobPcs : queue' = Append(Withdraw(c), <<c, p>>)
    PROVE  \A pc \in JobPcs : InPool(<<d, pc>>)' <=> InPool(<<d, pc>>)
<1>1. queue \in Seq(Jobs)
  BY DEF TypeOK
<1>2. /\ Withdraw(c) \in Seq(Jobs)
      /\ \A pc \in JobPcs : Contains(Withdraw(c), <<d, pc>>) <=> Contains(queue, <<d, pc>>)
  <2>1. \A pc \in JobPcs : <<d, pc>> # <<c, task[c].pc>>
    OBVIOUS
  <2> QED
    BY <1>1, <2>1, Removed DEF Withdraw
<1>3. CASE queue' = Withdraw(c)
  BY <1>2, <1>3 DEF InPool
<1>4. CASE \E p \in JobPcs : queue' = Append(Withdraw(c), <<c, p>>)
  <2>1. PICK p \in JobPcs : queue' = Append(Withdraw(c), <<c, p>>)
    BY <1>4
  <2>2. <<c, p>> \in Jobs
    BY DEF Jobs
  <2>3. \A pc \in JobPcs : Contains(queue', <<d, pc>>) <=> Contains(Withdraw(c), <<d, pc>>)
    <3>1. \A e : Contains(queue', e) <=> e = <<c, p>> \/ Contains(Withdraw(c), e)
      BY <1>2, <2>1, <2>2, Appended
    <3>2. \A pc \in JobPcs : <<d, pc>> # <<c, p>>
      OBVIOUS
    <3> QED
      BY <3>1, <3>2
  <2> QED
    BY <1>2, <2>3 DEF InPool
<1> QED
  BY <1>3, <1>4

\* Handing the executor a job.
LEMMA Awaits ==
    ASSUME TypeOK, NEW c \in Calls, NEW t \in Task, NEW pc \in JobPcs,
           AwaitThread(c, t, pc), running' = running
    PROVE  /\ task' \in [Calls -> Task] /\ queue' \in Seq(Jobs)
           /\ task'[c] = [t EXCEPT !.pc = pc, !.reply = "pending"]
           /\ \A d \in Calls \ {c} : task'[d] = task[d]
           /\ InPool(<<c, pc>>)'
           /\ \A p \in JobPcs \ {pc} : InPool(<<c, p>>)' => InPool(<<c, p>>)
<1> DEFINE x == [t EXCEPT !.pc = pc, !.reply = "pending"]
<1>1. queue \in Seq(Jobs) /\ task \in [Calls -> Task]
  BY DEF TypeOK
<1>2. task' = [task EXCEPT ![c] = x] /\ queue' = Append(Withdraw(c), <<c, pc>>)
  BY DEF AwaitThread
<1>3. x \in Task
  BY DEF Task, Pcs, Waiting, Replies
<1>4. task' \in [Calls -> Task] /\ task'[c] = x /\ \A d \in Calls \ {c} : task'[d] = task[d]
  <2> HIDE DEF x
  <2> QED
    BY <1>1, <1>2, <1>3
<1>5. Withdraw(c) \in Seq(Jobs) /\ \A e : Contains(Withdraw(c), e) => Contains(queue, e)
  BY <1>1, Removed DEF Withdraw
<1>6. <<c, pc>> \in Jobs
  BY DEF Jobs
<1>7. queue' \in Seq(Jobs) /\ \A e : Contains(queue', e) <=> e = <<c, pc>> \/ Contains(Withdraw(c), e)
  <2> DEFINE w == Withdraw(c)
             j == <<c, pc>>
  <2>1. w \in Seq(Jobs) /\ j \in Jobs /\ queue' = Append(w, j)
    BY <1>2, <1>5, <1>6
  <2> HIDE DEF w, j
  <2>2. queue' \in Seq(Jobs) /\ \A e : Contains(queue', e) <=> e = j \/ Contains(w, e)
    BY <2>1, Appended
  <2> QED
    BY <2>2 DEF w, j
<1>8. InPool(<<c, pc>>)'
  BY <1>7 DEF InPool
<1>9. \A p \in JobPcs \ {pc} : InPool(<<c, p>>)' => InPool(<<c, p>>)
  <2>1. \A p \in JobPcs \ {pc} : <<c, p>> # <<c, pc>>
    OBVIOUS
  <2> QED
    BY <1>5, <1>7, <2>1 DEF InPool
<1> QED
  BY <1>4, <1>7, <1>8, <1>9

\* A call suspends in a thread: what has to hold of the task it takes along.
LEMMA ToAwait ==
    ASSUME IInv, NEW c \in Calls, NEW t \in Task, NEW pc \in JobPcs,
           AwaitThread(c, t, pc), UNCHANGED <<running, stmt, record, outcome>>,
           cancelReq' = cancelReq \/ cancelReq' = [cancelReq EXCEPT ![c] = "asked"],
           pc \in {"resolving", "submitting"} => ~t.known,
           pc \notin {"resolving", "submitting"} => t.known /\ t.seen = "RUNNING",
           t.seen \in {"none", "RUNNING"}, t.known => stmt[c] # "none",
           task[c].known => t.known, task[c].cancels > 0 => t.cancels > 0,
           pc = "refetching" => cancelReq'[c] \in {"sent", "refused"},
           pc = "aborting" /\ c \notin SdkFaults => t.timer = "fired" \/ t.cancels > 0
    PROVE  IInv'
<1>1. TypeOK /\ CallInv(c)
  BY IInvByCall
<1>2. /\ task' \in [Calls -> Task] /\ queue' \in Seq(Jobs)
      /\ task'[c] = [t EXCEPT !.pc = pc, !.reply = "pending"]
      /\ \A d \in Calls \ {c} : task'[d] = task[d]
      /\ InPool(<<c, pc>>)'
      /\ \A p \in JobPcs \ {pc} : InPool(<<c, p>>)' => InPool(<<c, p>>)
  BY <1>1, Awaits
<1>3. /\ task'[c].pc = pc /\ task'[c].reply = "pending" /\ task'[c].known = t.known
      /\ task'[c].seen = t.seen /\ task'[c].timer = t.timer /\ task'[c].cancels = t.cancels
  BY <1>2 DEF Task
<1>4. cancelReq' \in [Calls -> {"none", "asked", "sent", "refused", "dropped"}]
      /\ \A d \in Calls \ {c} : cancelReq'[d] = cancelReq[d]
      /\ cancelReq'[c] \in {cancelReq[c], "asked"}
  BY <1>1 DEF TypeOK
<1>5. TypeOK'
  BY <1>1, <1>2, <1>4 DEF TypeOK
<1>6. ASSUME NEW d \in Calls \ {c} PROVE CallInv(d)'
  <2>1. \A p \in JobPcs : InPool(<<d, p>>)' <=> InPool(<<d, p>>)
    BY <1>1, OtherJobs DEF AwaitThread
  <2>2. CallInv(d)
    BY IInvByCall
  <2> QED
    BY <1>2, <1>4, <2>1, <2>2, Untouched
<1>7. pc # "idle" /\ pc # "done" /\ pc # "sleeping"
  BY DEF JobPcs
<1>8. PhaseInv(c)'
  BY <1>3, <1>7 DEF PhaseInv
<1>9. ReplyInv(c)'
  BY <1>3 DEF ReplyInv, At, Terminal
<1>10. PoolInv(c)'
  <2>1. ASSUME NEW p \in CancelPcs, InPool(<<c, p>>)' PROVE task'[c].known
    <3>1. CASE p = pc
      BY <1>3, <3>1 DEF CancelPcs
    <3>2. CASE p # pc
      <4>1. InPool(<<c, p>>)
        BY <1>2, <2>1, <3>2 DEF CancelPcs, JobPcs
      <4>2. task[c].known
        BY <1>1, <4>1 DEF CallInv, PoolInv
      <4> QED
        BY <1>3, <4>2
    <3> QED
      BY <3>1, <3>2
  <2> QED
    BY <1>2, <1>3, <2>1 DEF PoolInv
<1>11. CancelInv(c)'
  BY <1>1, <1>3, <1>4 DEF CallInv, CancelInv, At
<1>12. FaultFreeInv(c)'
  BY <1>1, <1>3, <1>4 DEF CallInv, FaultFreeInv, At
<1>13. Accounted(c)'
  BY <1>3, <1>7 DEF Accounted, At
<1>14. RecordTrue(c)'
  BY <1>1 DEF CallInv, RecordTrue
<1>15. CallInv(c)'
  BY <1>8, <1>9, <1>10, <1>11, <1>12, <1>13, <1>14 DEF CallInv
<1> QED
  BY <1>5, <1>6, <1>15, IInvByCall

\* A call suspends in asyncio.sleep.
LEMMA ToSleep ==
    ASSUME IInv, NEW c \in Calls, NEW t \in Task,
           task' = [task EXCEPT ![c] = [t EXCEPT !.pc = "sleeping", !.reply = "pending"]],
           UNCHANGED <<queue, running, stmt, cancelReq, record, outcome>>,
           t.known, t.seen = "RUNNING", stmt[c] # "none",
           task[c].cancels > 0 => t.cancels > 0
    PROVE  IInv'
<1> DEFINE x == [t EXCEPT !.pc = "sleeping", !.reply = "pending"]
<1>1. TypeOK /\ CallInv(c)
  BY IInvByCall
<1>2. x \in Task
  BY DEF Task, Pcs, Waiting, Replies
<1>3. /\ task' \in [Calls -> Task] /\ task'[c] = x
      /\ \A d \in Calls \ {c} : task'[d] = task[d]
  <2> HIDE DEF x
  <2> QED
    BY <1>1, <1>2 DEF TypeOK, x
<1>4. /\ task'[c].pc = "sleeping" /\ task'[c].reply = "pending" /\ task'[c].known
      /\ task'[c].seen = "RUNNING" /\ task'[c].timer = t.timer /\ task'[c].cancels = t.cancels
  BY <1>3 DEF Task
<1>5. TypeOK'
  BY <1>1, <1>3 DEF TypeOK
<1>6. \A job : InPool(job)' <=> InPool(job)
  BY DEF InPool
<1>7. ASSUME NEW d \in Calls \ {c} PROVE CallInv(d)'
  <2>1. CallInv(d)
    BY IInvByCall
  <2> QED
    BY <1>3, <1>6, <2>1, Untouched
<1>8. PhaseInv(c)'
  BY <1>4 DEF PhaseInv
<1>9. ReplyInv(c)'
  BY <1>4 DEF ReplyInv, At, Terminal
<1>10. PoolInv(c)'
  BY <1>4 DEF PoolInv, JobPcs
<1>11. CancelInv(c)'
  BY <1>1, <1>4 DEF CallInv, CancelInv, At, CancelPcs
<1>12. FaultFreeInv(c)'
  BY <1>1, <1>4 DEF CallInv, FaultFreeInv, At
<1>13. Accounted(c)'
  BY <1>4 DEF Accounted, At
<1>14. RecordTrue(c)'
  BY <1>1 DEF CallInv, RecordTrue
<1>15. CallInv(c)'
  BY <1>8, <1>9, <1>10, <1>11, <1>12, <1>13, <1>14 DEF CallInv
<1> QED
  BY <1>5, <1>7, <1>15, IInvByCall

\* A call leaves the tool: what has to hold of what it leaves behind.
LEMMA ToDone ==
    ASSUME IInv, NEW c \in Calls, NEW t \in Task, NEW r \in Seen,
           NEW o \in {"success", "error", "timeout", "cancelled"},
           Leave(c, t, r, o), UNCHANGED <<running, stmt>>,
           cancelReq' \in [Calls -> {"none", "asked", "sent", "refused", "dropped"}],
           \A d \in Calls \ {c} : cancelReq'[d] = cancelReq[d],
           cancelReq'[c] = cancelReq[c] \/ cancelReq'[c] = "dropped",
           c \notin SdkFaults /\ cancelReq'[c] = "dropped" => t.cancels > 0,
           t.seen \in {"none", "RUNNING"}, t.reply = task[c].reply, t.known => stmt[c] # "none",
           task[c].known => t.known, task[c].cancels > 0 => t.cancels > 0,
           r \in Terminal => stmt[c] = r, o = "success" => stmt[c] = "SUCCEEDED",
           t.known /\ stmt[c] = "RUNNING" =>
               \/ cancelReq'[c] \in {"refused", "dropped"} \/ t.reply = "BLANK"
               \/ \E pc \in CancelPcs : <<c, pc>> \in running
    PROVE  IInv'
<1> DEFINE x == [t EXCEPT !.pc = "done"]
<1>1. TypeOK /\ CallInv(c)
  BY IInvByCall
<1>2. x \in Task
  BY DEF Task, Pcs
<1>3. /\ task' \in [Calls -> Task] /\ task'[c] = x
      /\ \A d \in Calls \ {c} : task'[d] = task[d]
  <2> HIDE DEF x
  <2>1. task' = [task EXCEPT ![c] = x]
    BY DEF Leave, x
  <2> QED
    BY <1>1, <1>2, <2>1 DEF TypeOK
<1>4. /\ task'[c].pc = "done" /\ task'[c].reply = t.reply /\ task'[c].known = t.known
      /\ task'[c].seen = t.seen /\ task'[c].timer = t.timer /\ task'[c].cancels = t.cancels
  BY <1>3 DEF Task
<1>5. queue' \in Seq(Jobs) /\ \A job : InPool(job)' => InPool(job)
  <2>1. queue \in Seq(Jobs) /\ queue' = Withdraw(c)
    BY <1>1 DEF TypeOK, Leave
  <2>2. queue' \in Seq(Jobs) /\ \A e : Contains(queue', e) => Contains(queue, e)
    BY <2>1, Removed DEF Withdraw
  <2> QED
    BY <2>2 DEF InPool
<1>6. /\ record' \in [Calls -> Seen] /\ record'[c] = r
      /\ outcome' \in [Calls -> {"none", "success", "error", "timeout", "cancelled"}]
      /\ outcome'[c] = o
      /\ \A d \in Calls \ {c} : record'[d] = record[d] /\ outcome'[d] = outcome[d]
  BY <1>1 DEF TypeOK, Leave
<1>7. TypeOK'
  BY <1>1, <1>3, <1>5, <1>6 DEF TypeOK
<1>8. ASSUME NEW d \in Calls \ {c} PROVE CallInv(d)'
  <2>1. \A p \in JobPcs : InPool(<<d, p>>)' <=> InPool(<<d, p>>)
    BY <1>1, OtherJobs DEF Leave
  <2>2. CallInv(d)
    BY IInvByCall
  <2> QED
    BY <1>3, <1>6, <2>1, <2>2, Untouched
<1>9. PhaseInv(c)'
  BY <1>4 DEF PhaseInv, Waiting, JobPcs
<1>10. ReplyInv(c)'
  BY <1>1, <1>4 DEF CallInv, ReplyInv, At
<1>11. PoolInv(c)'
  BY <1>1, <1>4, <1>5 DEF CallInv, PoolInv, JobPcs
<1>12. CancelInv(c)'
  BY <1>1, <1>4 DEF CallInv, CancelInv, At, CancelPcs
<1>13. FaultFreeInv(c)'
  BY <1>1, <1>4 DEF CallInv, FaultFreeInv, At
<1>14. Accounted(c)'
  BY <1>4 DEF Accounted, At, CancelPending, InPool
<1>15. RecordTrue(c)'
  BY <1>6 DEF RecordTrue
<1>16. CallInv(c)'
  BY <1>9, <1>10, <1>11, <1>12, <1>13, <1>14, <1>15 DEF CallInv
<1> QED
  BY <1>7, <1>8, <1>16, IInvByCall

-----------------------------------------------------------------------------
(* The coroutine.                                                          *)

\* What a call holds at the head of a stretch.
LEMMA Holds ==
    ASSUME IInv, NEW c \in Calls
    PROVE  /\ task[c] \in Task /\ CallInv(c)
           /\ task[c].seen \in {"none", "RUNNING"}
           /\ task[c].known => stmt[c] # "none"
           /\ cancelReq \in [Calls -> {"none", "asked", "sent", "refused", "dropped"}]
           /\ c \notin SdkFaults /\ cancelReq[c] = "dropped" => task[c].cancels > 0
BY IInvByCall DEF TypeOK, CallInv, PhaseInv, FaultFreeInv

LEMMA InvokeIInv ==
    ASSUME IInv, NEW c \in Calls, NEW allowed \in BOOLEAN, Invoke(c, allowed)
    PROVE  IInv'
<1> DEFINE t == task[c]
<1>1. /\ t \in Task /\ t.seen \in {"none", "RUNNING"} /\ t.pc = "idle" /\ ~t.known
      /\ cancelReq \in [Calls -> {"none", "asked", "sent", "refused", "dropped"}]
      /\ c \notin SdkFaults /\ cancelReq[c] = "dropped" => t.cancels > 0
  BY Holds DEF Invoke, At, CallInv, PhaseInv
<1>2. UNCHANGED <<running, stmt, cancelReq>>
  BY DEF Invoke
<1>3. CASE AwaitThread(c, t, "resolving") /\ UNCHANGED <<record, outcome>>
  <2>1. "resolving" \in JobPcs
    BY DEF JobPcs
  <2> QED
    BY <1>1, <1>2, <1>3, <2>1, ToAwait
<1>4. CASE Leave(c, t, "none", "error")
  <2>1. "none" \in Seen /\ "none" \notin Terminal
    BY DEF Seen, Terminal
  <2> QED
    BY <1>1, <1>2, <1>4, <2>1, ToDone
<1> QED
  BY <1>3, <1>4 DEF Invoke

LEMMA ResolvedIInv ==
    ASSUME IInv, NEW c \in Calls, Resolved(c)
    PROVE  IInv'
<1> DEFINE t == task[c]
<1>1. /\ t \in Task /\ t.seen \in {"none", "RUNNING"} /\ t.pc = "resolving" /\ ~t.known
      /\ cancelReq \in [Calls -> {"none", "asked", "sent", "refused", "dropped"}]
      /\ c \notin SdkFaults /\ cancelReq[c] = "dropped" => t.cancels > 0
  BY Holds DEF Resolved, Answered, At, CallInv, PhaseInv
<1>2. UNCHANGED <<running, stmt, cancelReq>>
  BY DEF Resolved
<1>3. CASE AwaitThread(c, t, "submitting") /\ UNCHANGED <<record, outcome>>
  <2>1. "submitting" \in JobPcs
    BY DEF JobPcs
  <2> QED
    BY <1>1, <1>2, <1>3, <2>1, ToAwait
<1>4. CASE Leave(c, t, "none", "error")
  <2>1. "none" \in Seen /\ "none" \notin Terminal
    BY DEF Seen, Terminal
  <2> QED
    BY <1>1, <1>2, <1>4, <2>1, ToDone
<1> QED
  BY <1>3, <1>4 DEF Resolved

\* A call returns the response it has, whose status is that of the statement.
LEMMA ReturnIInv ==
    ASSUME IInv, NEW c \in Calls, NEW t \in Task,
           NEW status \in {"RUNNING", "NO_ID", "BLANK"} \cup Terminal, ReturnResp(c, t, status),
           UNCHANGED <<running, stmt, cancelReq>>,
           t.seen \in {"none", "RUNNING"}, t.reply = task[c].reply, t.known => stmt[c] # "none",
           task[c].known => t.known, task[c].cancels > 0 => t.cancels > 0,
           t.cancels = task[c].cancels,
           status \in Terminal => stmt[c] = status,
           t.known /\ stmt[c] = "RUNNING" => cancelReq[c] = "refused" \/ t.reply = "BLANK"
    PROVE  IInv'
<1>1. PICK o \in ReturnOutcomes(status) : Leave(c, t, FinalState(t, status), o)
  BY DEF ReturnResp
<1>2. o \in {"success", "error", "timeout", "cancelled"} /\ (o = "success" => status = "SUCCEEDED")
  BY DEF ReturnOutcomes
<1>3. FinalState(t, status) \in {status, "BLANK", "RUNNING"}
  BY DEF FinalState
<1>4. FinalState(t, status) \in Seen /\ (FinalState(t, status) \in Terminal => stmt[c] = FinalState(t, status))
  BY <1>3 DEF Seen, Terminal
<1>5. o = "success" => stmt[c] = "SUCCEEDED"
  BY <1>2 DEF Terminal
<1>6. /\ cancelReq \in [Calls -> {"none", "asked", "sent", "refused", "dropped"}]
      /\ c \notin SdkFaults /\ cancelReq[c] = "dropped" => t.cancels > 0
  BY Holds
<1> QED
  BY <1>1, <1>2, <1>4, <1>5, <1>6, ToDone

\* The polling loop goes on, or starts to cancel.
LEMMA PollLoopIInv ==
    ASSUME IInv, NEW c \in Calls, NEW t \in Task, PollLoop(c, t),
           UNCHANGED <<running, stmt, record, outcome>>,
           t.known, t.seen = "RUNNING", stmt[c] # "none",
           t.cancels = task[c].cancels
    PROVE  IInv'
<1>1. CASE AwaitThread(c, t, "expiring") /\ cancelReq' = [cancelReq EXCEPT ![c] = "asked"]
  <2>1. "expiring" \in JobPcs
    BY DEF JobPcs
  <2> QED
    BY <1>1, <2>1, ToAwait
<1>2. CASE /\ task' = [task EXCEPT ![c] = [t EXCEPT !.pc = "sleeping", !.reply = "pending"]]
           /\ UNCHANGED <<queue, cancelReq>>
  BY <1>2, ToSleep
<1> QED
  BY <1>1, <1>2 DEF PollLoop

\* The abort path: a request to cancel is made whatever happened before.
LEMMA AbortIInv ==
    ASSUME IInv, NEW c \in Calls, NEW t \in Task, Abort(c, t), UNCHANGED <<running, stmt>>,
           t.known, t.seen = "RUNNING", stmt[c] # "none",
           task[c].cancels > 0 => t.cancels > 0,
           c \notin SdkFaults => t.timer = "fired" \/ t.cancels > 0
    PROVE  IInv'
<1>1. /\ AwaitThread(c, t, "aborting") /\ cancelReq' = [cancelReq EXCEPT ![c] = "asked"]
      /\ UNCHANGED <<record, outcome>>
  BY DEF Abort
<1>2. "aborting" \in JobPcs
  BY DEF JobPcs
<1> QED
  BY <1>1, <1>2, ToAwait

LEMMA SubmittedIInv ==
    ASSUME IInv, NEW c \in Calls, Submitted(c)
    PROVE  IInv'
<1> DEFINE t == task[c]
           r == task[c].reply
<1>1. /\ t \in Task /\ t.seen \in {"none", "RUNNING"} /\ t.pc = "submitting" /\ ~t.known
      /\ cancelReq \in [Calls -> {"none", "asked", "sent", "refused", "dropped"}]
      /\ c \notin SdkFaults /\ cancelReq[c] = "dropped" => t.cancels > 0
  BY Holds DEF Submitted, Answered, At, CallInv, PhaseInv
<1>2. /\ r \in {"error", "RUNNING", "NO_ID", "BLANK"} \cup Terminal
      /\ r # "error" => stmt[c] # "none"
      /\ r \in Terminal => stmt[c] = r
  BY Holds DEF Submitted, Answered, CallInv, ReplyInv
<1>3. UNCHANGED <<running, stmt>>
  BY DEF Submitted
<1>4. CASE Leave(c, t, "none", "error") /\ UNCHANGED cancelReq
  <2>1. "none" \in Seen /\ "none" \notin Terminal
    BY DEF Seen, Terminal
  <2> QED
    BY <1>1, <1>3, <1>4, <2>1, ToDone
<1>5. CASE /\ r # "error" /\ r # "RUNNING"
           /\ ReturnResp(c, [t EXCEPT !.known = (r # "NO_ID")], r)
           /\ UNCHANGED cancelReq
  <2> DEFINE x == [t EXCEPT !.known = (r # "NO_ID")]
  <2>1. /\ x \in Task /\ x.known = (r # "NO_ID") /\ x.seen = t.seen /\ x.reply = r
        /\ x.cancels = t.cancels
    BY <1>1 DEF Task
  <2>2. r \in {"NO_ID", "BLANK"} \cup Terminal
    BY <1>2, <1>5
  <2>3. x.known /\ stmt[c] = "RUNNING" => x.reply = "BLANK"
    BY <1>2, <2>1, <2>2 DEF Terminal
  <2> HIDE DEF x
  <2>4. ReturnResp(c, x, r)
    BY <1>5 DEF x
  <2> QED
    BY <1>1, <1>2, <1>3, <1>5, <2>1, <2>2, <2>3, <2>4, ReturnIInv
<1>6. CASE /\ r = "RUNNING"
           /\ \E spent \in BOOLEAN : PollLoop(c, [t EXCEPT !.seen = r, !.known = TRUE, !.due = spent])
           /\ UNCHANGED <<record, outcome>>
  <2>1. PICK spent \in BOOLEAN : PollLoop(c, [t EXCEPT !.seen = r, !.known = TRUE, !.due = spent])
    BY <1>6
  <2> DEFINE x == [t EXCEPT !.seen = r, !.known = TRUE, !.due = spent]
  <2>2. x \in Task /\ x.known /\ x.seen = "RUNNING" /\ x.cancels = t.cancels
    BY <1>1, <1>6 DEF Task, Seen
  <2>3. PollLoop(c, x)
    BY <2>1
  <2>4. stmt[c] # "none"
    BY <1>2, <1>6
  <2> HIDE DEF x
  <2> QED
    BY <1>3, <1>6, <2>2, <2>3, <2>4, PollLoopIInv
<1> QED
  BY <1>4, <1>5, <1>6 DEF Submitted

\* What a call holds once it has learnt its statement's id.
LEMMA Engaged ==
    ASSUME IInv, NEW c \in Calls, task[c].pc \in Waiting \ {"resolving", "submitting"}
    PROVE  task[c].known /\ task[c].seen = "RUNNING" /\ stmt[c] # "none"
BY Holds DEF CallInv, PhaseInv

LEMMA WakeIInv ==
    ASSUME IInv, NEW c \in Calls, Wake(c)
    PROVE  IInv'
<1>1. task[c].pc = "sleeping" /\ task[c].pc \in Waiting \ {"resolving", "submitting"}
  BY DEF Wake, At, Waiting
<1>2. task[c] \in Task /\ "polling" \in JobPcs
  BY Holds DEF JobPcs
<1>3. /\ AwaitThread(c, task[c], "polling")
      /\ UNCHANGED <<running, stmt, cancelReq, record, outcome>>
  BY DEF Wake
<1>4. task[c].known /\ task[c].seen = "RUNNING" /\ stmt[c] # "none"
  BY <1>1, Engaged
<1> QED
  BY <1>2, <1>3, <1>4, ToAwait

LEMMA PolledIInv ==
    ASSUME IInv, NEW c \in Calls, Polled(c)
    PROVE  IInv'
<1> DEFINE t == task[c]
           r == task[c].reply
<1>1. /\ t.pc = "polling" /\ t.pc \in Waiting \ {"resolving", "submitting"} /\ r # "pending"
      /\ UNCHANGED <<running, stmt>>
  BY DEF Polled, Answered, At, Waiting, JobPcs
<1>2. t \in Task /\ t.known /\ t.seen = "RUNNING" /\ stmt[c] # "none"
  BY <1>1, Engaged, Holds
<1>3. /\ r \in {"error", "RUNNING", "BLANK"} \cup Terminal
      /\ r \in Terminal => stmt[c] = r
      /\ c \notin SdkFaults => r # "error"
  BY <1>1, Holds DEF CallInv, ReplyInv, FaultFreeInv
<1>4. CASE r = "error" /\ Abort(c, [t EXCEPT !.exc = "sdk"])
  <2> DEFINE x == [t EXCEPT !.exc = "sdk"]
  <2>1. x \in Task /\ x.known /\ x.seen = "RUNNING" /\ x.cancels = t.cancels
    BY <1>2 DEF Task
  <2>2. Abort(c, x) /\ c \in SdkFaults
    BY <1>3, <1>4
  <2> HIDE DEF x
  <2> QED
    BY <1>1, <1>2, <2>1, <2>2, AbortIInv
<1>5. CASE r = "RUNNING" /\ PollLoop(c, [t EXCEPT !.seen = r]) /\ UNCHANGED <<record, outcome>>
  <2> DEFINE x == [t EXCEPT !.seen = r]
  <2>1. x \in Task /\ x.known /\ x.seen = "RUNNING" /\ x.cancels = t.cancels
    BY <1>2, <1>5 DEF Task, Seen
  <2>2. PollLoop(c, x)
    BY <1>5
  <2> HIDE DEF x
  <2> QED
    BY <1>1, <1>2, <1>5, <2>1, <2>2, PollLoopIInv
<1>6. CASE r # "error" /\ r # "RUNNING" /\ ReturnResp(c, t, r) /\ UNCHANGED cancelReq
  <2>1. t.known /\ stmt[c] = "RUNNING" => t.reply = "BLANK"
    BY <1>3, <1>6 DEF Terminal
  <2> QED
    BY <1>1, <1>2, <1>3, <1>6, <2>1, ReturnIInv
<1> QED
  BY <1>4, <1>5, <1>6 DEF Polled

LEMMA ExpiredIInv ==
    ASSUME IInv, NEW c \in Calls, Expired(c)
    PROVE  IInv'
<1>1. /\ task[c].pc = "expiring" /\ task[c].pc \in Waiting \ {"resolving", "submitting"}
      /\ task[c].pc \in CancelPcs /\ task[c].reply # "pending"
  BY DEF Expired, Answered, At, Waiting, JobPcs, CancelPcs
<1>2. task[c] \in Task /\ "refetching" \in JobPcs
  BY Holds DEF JobPcs
<1>3. /\ AwaitThread(c, task[c], "refetching")
      /\ UNCHANGED <<running, stmt, cancelReq, record, outcome>>
  BY DEF Expired
<1>4. task[c].known /\ task[c].seen = "RUNNING" /\ stmt[c] # "none"
  BY <1>1, Engaged
<1>5. cancelReq'[c] \in {"sent", "refused"}
  BY <1>1, <1>3, Holds DEF CallInv, CancelInv
<1> QED
  BY <1>2, <1>3, <1>4, <1>5, ToAwait

\* The refetch comes after the answer to the request to cancel: a statement that
\* still runs has had that request refused.
LEMMA RefetchedIInv ==
    ASSUME IInv, NEW c \in Calls, Refetched(c)
    PROVE  IInv'
<1> DEFINE t == task[c]
           r == task[c].reply
<1>1. /\ t.pc = "refetching" /\ t.pc \in Waiting \ {"resolving", "submitting"} /\ r # "pending"
      /\ UNCHANGED <<running, stmt>>
  BY DEF Refetched, Answered, At, Waiting, JobPcs
<1>2. t \in Task /\ t.known /\ t.seen = "RUNNING" /\ stmt[c] # "none"
  BY <1>1, Engaged, Holds
<1>3. /\ r \in {"error", "RUNNING", "BLANK"} \cup Terminal
      /\ r \in Terminal => stmt[c] = r
      /\ c \notin SdkFaults => r # "error"
  BY <1>1, Holds DEF CallInv, ReplyInv, FaultFreeInv
<1>4. cancelReq[c] \in {"sent", "refused"} /\ (cancelReq[c] = "sent" => stmt[c] # "RUNNING")
  BY <1>1, Holds DEF CallInv, CancelInv, At
<1>5. CASE r = "error" /\ Abort(c, [t EXCEPT !.exc = "sdk"])
  <2> DEFINE x == [t EXCEPT !.exc = "sdk"]
  <2>1. x \in Task /\ x.known /\ x.seen = "RUNNING" /\ x.cancels = t.cancels
    BY <1>2 DEF Task
  <2>2. Abort(c, x) /\ c \in SdkFaults
    BY <1>3, <1>5
  <2> HIDE DEF x
  <2> QED
    BY <1>1, <1>2, <2>1, <2>2, AbortIInv
<1>6. CASE r # "error" /\ ReturnResp(c, t, r) /\ UNCHANGED cancelReq
  <2>1. t.known /\ stmt[c] = "RUNNING" => cancelReq[c] = "refused"
    BY <1>4
  <2> QED
    BY <1>1, <1>2, <1>3, <1>6, <2>1, ReturnIInv
<1> QED
  BY <1>5, <1>6 DEF Refetched

\* How the guard reports an exception is never a success.
LEMMA RaiseIsNoSuccess ==
    \A t : RaiseOutcome(t) \in {"error", "timeout", "cancelled"}
BY DEF RaiseOutcome

LEMMA AbortedIInv ==
    ASSUME IInv, NEW c \in Calls, Aborted(c)
    PROVE  IInv'
<1> DEFINE t == task[c]
           r == AbortState(t)
           o == RaiseOutcome(t)
<1>1. /\ t.pc = "aborting" /\ t.pc \in Waiting \ {"resolving", "submitting"}
      /\ t.pc \in CancelPcs /\ t.reply # "pending"
  BY DEF Aborted, Answered, At, Waiting, JobPcs, CancelPcs
<1>2. t \in Task /\ t.known /\ t.seen = "RUNNING" /\ stmt[c] # "none"
  BY <1>1, Engaged, Holds
<1>3. cancelReq[c] \in {"sent", "refused"} /\ (cancelReq[c] = "sent" => stmt[c] # "RUNNING")
  BY <1>1, Holds DEF CallInv, CancelInv
<1>4. r = "RUNNING" /\ r \in Seen /\ r \notin Terminal
  BY <1>2 DEF AbortState, Seen, Terminal
<1>5. o \in {"success", "error", "timeout", "cancelled"} /\ o # "success"
  BY RaiseIsNoSuccess
<1>6. Leave(c, t, r, o) /\ UNCHANGED <<running, stmt, cancelReq>>
  BY DEF Aborted
<1>7. /\ cancelReq \in [Calls -> {"none", "asked", "sent", "refused", "dropped"}]
      /\ c \notin SdkFaults /\ cancelReq[c] = "dropped" => t.cancels > 0
  BY Holds
<1> HIDE DEF r, o
<1> QED
  BY <1>2, <1>3, <1>4, <1>5, <1>6, <1>7, ToDone

\* A cancellation in the abort path drops its job from the queue, or leaves it to
\* the thread that has taken it.
LEMMA AbortJob ==
    ASSUME IInv, NEW c \in Calls, task[c].pc = "aborting",
           ~Contains(queue, <<c, "aborting">>), stmt[c] = "RUNNING"
    PROVE  cancelReq[c] = "refused" \/ \E pc \in CancelPcs : <<c, pc>> \in running
<1>1. "aborting" \in CancelPcs /\ "aborting" \in JobPcs
  BY DEF CancelPcs, JobPcs
<1>2. CASE task[c].reply = "pending"
  <2>1. InPool(<<c, "aborting">>)
    BY <1>1, <1>2, Holds DEF CallInv, PoolInv
  <2>2. <<c, "aborting">> \in running
    BY <2>1 DEF InPool
  <2> QED
    BY <1>1, <2>2
<1>3. CASE task[c].reply # "pending"
  BY <1>1, <1>3, Holds DEF CallInv, CancelInv
<1> QED
  BY <1>2, <1>3

\* CancelledError, raised at any await by the timer or from outside.
LEMMA InterruptIInv ==
    ASSUME IInv, NEW c \in Calls, NEW t \in Task, Interrupt(c, t),
           t.pc = task[c].pc, t.reply = task[c].reply, t.known = task[c].known,
           t.seen = task[c].seen,
           task[c].cancels > 0 => t.cancels > 0,
           t.timer = "fired" \/ t.cancels > 0,
           t.pc = "aborting" /\ c \notin SdkFaults => t.cancels > 0
    PROVE  IInv'
<1> DEFINE x == [t EXCEPT !.exc = "cancelled"]
           r == AbortState(x)
           o == RaiseOutcome(x)
<1>1. /\ x \in Task /\ x.pc = t.pc /\ x.reply = t.reply /\ x.known = t.known /\ x.seen = t.seen
      /\ x.timer = t.timer /\ x.cancels = t.cancels
  BY DEF Task
<1>2. /\ x.seen \in {"none", "RUNNING"} /\ (x.known => stmt[c] # "none")
      /\ cancelReq \in [Calls -> {"none", "asked", "sent", "refused", "dropped"}]
      /\ c \notin SdkFaults /\ cancelReq[c] = "dropped" => x.cancels > 0
  BY <1>1, Holds
<1>3. o \in {"success", "error", "timeout", "cancelled"} /\ o # "success"
  BY RaiseIsNoSuccess
<1>4. UNCHANGED <<running, stmt>>
  BY DEF Interrupt
<1>5. CASE t.pc \in {"resolving", "submitting"} /\ Leave(c, x, "none", o) /\ UNCHANGED cancelReq
  <2>1. ~x.known
    BY <1>1, <1>5, Holds DEF CallInv, PhaseInv
  <2>2. "none" \in Seen /\ "none" \notin Terminal
    BY DEF Seen, Terminal
  <2> HIDE DEF x, r, o
  <2> QED
    BY <1>1, <1>2, <1>3, <1>4, <1>5, <2>1, <2>2, ToDone
<1>6. CASE t.pc \in {"sleeping", "polling", "expiring", "refetching"} /\ Abort(c, x)
  <2>1. task[c].pc \in Waiting \ {"resolving", "submitting"}
    BY <1>6 DEF Waiting, JobPcs
  <2>2. x.known /\ x.seen = "RUNNING" /\ stmt[c] # "none"
    BY <1>1, <2>1, Engaged
  <2> HIDE DEF x, r, o
  <2> QED
    BY <1>1, <1>4, <1>6, <2>2, AbortIInv
<1>7. CASE /\ t.pc = "aborting" /\ Leave(c, x, r, o)
           /\ cancelReq' = [cancelReq EXCEPT ![c] =
                  IF Contains(queue, <<c, "aborting">>) THEN "dropped" ELSE @]
  <2>1. task[c].pc \in Waiting \ {"resolving", "submitting"}
    BY <1>7 DEF Waiting, JobPcs
  <2>2. x.known /\ x.seen = "RUNNING" /\ stmt[c] # "none"
    BY <1>1, <2>1, Engaged
  <2>3. r = "RUNNING" /\ r \in Seen /\ r \notin Terminal
    BY <2>2 DEF AbortState, Seen, Terminal
  <2>4. /\ cancelReq' \in [Calls -> {"none", "asked", "sent", "refused", "dropped"}]
        /\ \A d \in Calls \ {c} : cancelReq'[d] = cancelReq[d]
        /\ cancelReq'[c] = IF Contains(queue, <<c, "aborting">>) THEN "dropped" ELSE cancelReq[c]
    BY <1>2, <1>7
  <2>5. x.known /\ stmt[c] = "RUNNING" =>
            \/ cancelReq'[c] \in {"refused", "dropped"}
            \/ \E pc \in CancelPcs : <<c, pc>> \in running
    BY <1>7, <2>4, AbortJob
  <2>6. c \notin SdkFaults => x.cancels > 0
    BY <1>1, <1>7
  <2>7. cancelReq'[c] = cancelReq[c] \/ cancelReq'[c] = "dropped"
    BY <2>4
  <2>8. Leave(c, x, r, o)
    BY <1>7
  <2> HIDE DEF x, r, o
  <2> QED
    BY <1>1, <1>2, <1>3, <1>4, <2>2, <2>3, <2>4, <2>5, <2>6, <2>7, <2>8, ToDone
<1> QED
  BY <1>5, <1>6, <1>7 DEF Interrupt

\* The timer fires once; in the abort path of a call without faults it has fired
\* already, or somebody else has cancelled.
LEMMA TimerFiresIInv ==
    ASSUME IInv, NEW c \in Calls, TimerFires(c)
    PROVE  IInv'
<1> DEFINE t == [task[c] EXCEPT !.timer = "fired"]
<1>1. task[c] \in Task
  BY Holds
<1>2. /\ t \in Task /\ t.pc = task[c].pc /\ t.reply = task[c].reply /\ t.known = task[c].known
      /\ t.seen = task[c].seen /\ t.cancels = task[c].cancels /\ t.timer = "fired"
  BY <1>1 DEF Task
<1>3. Interrupt(c, t) /\ task[c].timer = "armed"
  BY DEF TimerFires
<1>4. task[c].pc = "aborting" /\ c \notin SdkFaults => task[c].cancels > 0
  BY <1>3, Holds DEF CallInv, FaultFreeInv, At
<1> HIDE DEF t
<1> QED
  BY <1>2, <1>3, <1>4, InterruptIInv

LEMMA ExternalCancelIInv ==
    ASSUME IInv, NEW c \in Calls, ExternalCancel(c)
    PROVE  IInv'
<1> DEFINE t == [task[c] EXCEPT !.cancels = @ + 1]
<1>1. task[c] \in Task /\ task[c].cancels < MaxCancels
  BY Holds DEF ExternalCancel
<1>2. task[c].cancels \in 0..MaxCancels /\ task[c].cancels + 1 \in 0..MaxCancels
      /\ task[c].cancels + 1 > 0
  BY <1>1, MaxCancelsAssumption DEF Task
<1>3. /\ t \in Task /\ t.pc = task[c].pc /\ t.reply = task[c].reply /\ t.known = task[c].known
      /\ t.seen = task[c].seen /\ t.cancels = task[c].cancels + 1
  BY <1>1, <1>2 DEF Task
<1>4. Interrupt(c, t)
  BY DEF ExternalCancel
<1> HIDE DEF t
<1> QED
  BY <1>2, <1>3, <1>4, InterruptIInv

LEMMA DeadlinePassesIInv ==
    ASSUME IInv, NEW c \in Calls, DeadlinePasses(c)
    PROVE  IInv'
<1> DEFINE x == [task[c] EXCEPT !.due = TRUE]
<1>1. TypeOK /\ task[c] \in Task /\ CallInv(c)
  BY Holds, IInvByCall
<1>2. /\ x \in Task /\ x.pc = task[c].pc /\ x.reply = task[c].reply /\ x.known = task[c].known
      /\ x.seen = task[c].seen /\ x.cancels = task[c].cancels /\ x.timer = task[c].timer
  BY <1>1 DEF Task
<1>3. task' = [task EXCEPT ![c] = x] /\ UNCHANGED <<queue, running, stmt, cancelReq, record, outcome>>
  BY DEF DeadlinePasses
<1> HIDE DEF x
<1>4. /\ task' \in [Calls -> Task] /\ task'[c] = x
      /\ \A d \in Calls \ {c} : task'[d] = task[d]
  BY <1>1, <1>2, <1>3 DEF TypeOK
<1>5. TypeOK'
  BY <1>1, <1>3, <1>4 DEF TypeOK
<1>6. \A job : InPool(job)' <=> InPool(job)
  BY <1>3 DEF InPool
<1>7. ASSUME NEW d \in Calls \ {c} PROVE CallInv(d)'
  <2>1. CallInv(d)
    BY IInvByCall
  <2> QED
    BY <1>3, <1>4, <1>6, <2>1, Untouched
<1>8. PhaseInv(c)' /\ ReplyInv(c)'
  BY <1>1, <1>2, <1>3, <1>4 DEF CallInv, PhaseInv, ReplyInv, At
<1>9. PoolInv(c)'
  BY <1>1, <1>2, <1>4, <1>6 DEF CallInv, PoolInv
<1>10. CancelInv(c)' /\ FaultFreeInv(c)'
  BY <1>1, <1>2, <1>3, <1>4 DEF CallInv, CancelInv, FaultFreeInv, At
<1>11. Accounted(c)'
  BY <1>1, <1>2, <1>3, <1>4, <1>6 DEF CallInv, Accounted, CancelPending, At
<1>12. RecordTrue(c)'
  BY <1>1, <1>3 DEF CallInv, RecordTrue
<1>13. CallInv(c)'
  BY <1>8, <1>9, <1>10, <1>11, <1>12 DEF CallInv
<1> QED
  BY <1>5, <1>7, <1>13, IInvByCall

-----------------------------------------------------------------------------
(* The thread pool.                                                        *)

\* A job that a thread takes stays in the pool.
LEMMA ThreadTakesIInv ==
    ASSUME IInv, ThreadTakes
    PROVE  IInv'
<1>1. TypeOK /\ queue \in Seq(Jobs) /\ queue # <<>>
  BY IInvByCall DEF TypeOK, ThreadTakes
<1>2. /\ running' = running \cup {Head(queue)} /\ queue' = Tail(queue)
      /\ UNCHANGED <<task, stmt, cancelReq, record, outcome>>
  BY DEF ThreadTakes
<1>3. /\ queue' \in Seq(Jobs) /\ Head(queue) \in Jobs
      /\ \A e : Contains(queue, e) <=> e = Head(queue) \/ Contains(queue', e)
  BY <1>1, <1>2, Taken
<1>4. \A job : InPool(job)' <=> InPool(job)
  BY <1>2, <1>3 DEF InPool
<1>5. TypeOK'
  BY <1>1, <1>2, <1>3 DEF TypeOK
<1>6. ASSUME NEW d \in Calls PROVE CallInv(d)'
  <2>1. CallInv(d)
    BY IInvByCall
  <2> QED
    BY <1>2, <1>4, <2>1, Untouched
<1> QED
  BY <1>5, <1>6, IInvByCall

\* A thread ends its job: what has to hold of the result, the statement and the
\* request to cancel it.
LEMMA JobEnds ==
    ASSUME IInv, NEW c \in Calls, NEW pc \in JobPcs, NEW result, ThreadEnds(c, pc, result),
           At(c, pc) => result \in Replies \ {"pending"},
           At(c, pc) /\ pc = "submitting" =>
               result = "error" \/ (result \in {"RUNNING", "NO_ID", "BLANK"} \cup Terminal /\ stmt[c] # "none"),
           At(c, pc) /\ pc \in {"polling", "refetching"} =>
               result \in {"error", "RUNNING", "BLANK"} \cup Terminal,
           At(c, pc) /\ result \in Terminal => stmt[c] = result,
           c \notin OddReplies => result # "BLANK", c \notin SdkFaults => result # "error",
           stmt' \in [Calls -> StmtStates],
           \A d \in Calls \ {c} : stmt'[d] = stmt[d] /\ cancelReq'[d] = cancelReq[d],
           stmt'[c] = stmt[c] \/ (stmt[c] = "RUNNING" /\ stmt'[c] = "CANCELING"),
           cancelReq' \in [Calls -> {"none", "asked", "sent", "refused", "dropped"}],
           pc \notin CancelPcs => cancelReq'[c] = cancelReq[c],
           pc \in CancelPcs => cancelReq'[c] \in {"sent", "refused"},
           pc \in CancelPcs /\ cancelReq'[c] = "sent" => stmt'[c] \notin {"none", "RUNNING"},
           pc \in CancelPcs /\ c \notin SdkFaults => cancelReq'[c] = "sent"
    PROVE  IInv'
<1>1. TypeOK /\ CallInv(c) /\ task[c] \in Task /\ task \in [Calls -> Task]
  BY Holds, IInvByCall DEF TypeOK
<1>2. /\ <<c, pc>> \in running /\ running' = running \ {<<c, pc>>}
      /\ task' = IF At(c, pc) THEN [task EXCEPT ![c].reply = result] ELSE task
      /\ UNCHANGED <<queue, record, outcome>>
  BY DEF ThreadEnds
<1>3. /\ task' \in [Calls -> Task] /\ \A d \in Calls \ {c} : task'[d] = task[d]
      /\ task'[c].pc = task[c].pc /\ task'[c].known = task[c].known /\ task'[c].seen = task[c].seen
      /\ task'[c].timer = task[c].timer /\ task'[c].cancels = task[c].cancels
      /\ task'[c].reply = IF At(c, pc) THEN result ELSE task[c].reply
  <2>1. CASE ~At(c, pc)
    BY <1>1, <1>2, <2>1
  <2>2. CASE At(c, pc)
    <3> DEFINE x == [task[c] EXCEPT !.reply = result]
    <3>1. /\ x \in Task /\ x.pc = task[c].pc /\ x.known = task[c].known /\ x.seen = task[c].seen
          /\ x.timer = task[c].timer /\ x.cancels = task[c].cancels /\ x.reply = result
      BY <1>1, <2>2 DEF Task
    <3>2. task' = [task EXCEPT ![c] = x]
      BY <1>2, <2>2
    <3> HIDE DEF x
    <3>3. task' \in [Calls -> Task] /\ task'[c] = x /\ \A d \in Calls \ {c} : task'[d] = task[d]
      BY <1>1, <3>1, <3>2
    <3> QED
      BY <2>2, <3>1, <3>3
  <2> QED
    BY <2>1, <2>2
<1>4. /\ \A p \in JobPcs \ {pc} : InPool(<<c, p>>)' <=> InPool(<<c, p>>)
      /\ \A p \in JobPcs : InPool(<<c, p>>)' => InPool(<<c, p>>)
      /\ \A d \in Calls \ {c} : \A p \in JobPcs : InPool(<<d, p>>)' <=> InPool(<<d, p>>)
  BY <1>2 DEF InPool
<1>5. TypeOK'
  BY <1>1, <1>2, <1>3 DEF TypeOK
<1>6. ASSUME NEW d \in Calls \ {c} PROVE CallInv(d)'
  <2>1. CallInv(d)
    BY IInvByCall
  <2>2. record' = record /\ outcome' = outcome
    BY <1>2
  <2> QED
    BY <1>3, <1>4, <2>1, <2>2, Untouched
<1>7. CancelPcs \subseteq JobPcs
  BY DEF CancelPcs, JobPcs
<1>8. PhaseInv(c)'
  BY <1>1, <1>3 DEF CallInv, PhaseInv
<1>9. ReplyInv(c)'
  <2>1. stmt[c] # "none" => stmt'[c] # "none"
    OBVIOUS
  <2>2. stmt[c] \in Terminal => stmt'[c] = stmt[c]
    BY DEF Terminal
  <2>3. CASE At(c, pc)
    <3>1. task[c].pc = pc /\ task'[c].reply = result /\ result # "pending"
      BY <1>3, <2>3 DEF At
    <3>2. At(c, "submitting")' =>
            result = "error" \/ (result \in {"RUNNING", "NO_ID", "BLANK"} \cup Terminal /\ stmt'[c] # "none")
      BY <1>3, <2>1, <2>3, <3>1 DEF At
    <3>3. task'[c].pc \in {"polling", "refetching"} =>
            result \in {"error", "RUNNING", "BLANK"} \cup Terminal
      BY <1>3, <2>3, <3>1
    <3>4. result \in Terminal => stmt'[c] = result
      BY <2>2, <2>3
    <3> QED
      BY <3>1, <3>2, <3>3, <3>4 DEF ReplyInv
  <2>4. CASE ~At(c, pc)
    BY <1>1, <1>3, <2>1, <2>2, <2>4 DEF CallInv, ReplyInv, At
  <2> QED
    BY <2>3, <2>4
<1>10. PoolInv(c)'
  <2>1. ASSUME task'[c].pc \in JobPcs, task'[c].reply = "pending"
        PROVE  InPool(<<c, task[c].pc>>)'
    <3>1. ~At(c, pc) /\ task[c].reply = "pending"
      BY <1>3, <2>1
    <3>2. PICK p \in JobPcs \ {pc} : p = task[c].pc /\ InPool(<<c, p>>)
      BY <1>1, <1>3, <2>1, <3>1 DEF CallInv, PoolInv, At
    <3>3. InPool(<<c, p>>)' /\ task'[c].pc = p
      BY <1>3, <1>4, <3>2
    <3> QED
      BY <3>3
  <2>2. \A p \in CancelPcs : InPool(<<c, p>>)' => task'[c].known
    BY <1>1, <1>3, <1>4, <1>7 DEF CallInv, PoolInv
  <2> QED
    BY <2>1, <2>2 DEF PoolInv
<1>11. CancelInv(c)'
  <2>1. cancelReq'[c] = "sent" => stmt'[c] \notin {"none", "RUNNING"}
    BY <1>1 DEF CallInv, CancelInv
  <2>2. task'[c].pc \in CancelPcs /\ task'[c].reply # "pending" => cancelReq'[c] \in {"sent", "refused"}
    <3>1. CASE At(c, pc)
      BY <1>1, <1>3, <3>1 DEF At
    <3>2. CASE ~At(c, pc)
      BY <1>1, <1>3, <3>2 DEF CallInv, CancelInv
    <3> QED
      BY <3>1, <3>2
  <2>3. task'[c].pc = "refetching" => cancelReq'[c] \in {"sent", "refused"}
    BY <1>1, <1>3 DEF CallInv, CancelInv, At
  <2> QED
    BY <2>1, <2>2, <2>3 DEF CancelInv, At
<1>12. FaultFreeInv(c)'
  BY <1>1, <1>3 DEF CallInv, FaultFreeInv, At
<1>13. Accounted(c)'
  <2> SUFFICES ASSUME task'[c].pc = "done", task'[c].known, stmt'[c] = "RUNNING",
                      cancelReq'[c] \notin {"refused", "dropped"}, task'[c].reply # "BLANK"
               PROVE  CancelPending(c)'
    BY DEF Accounted, At
  <2>1. ~At(c, pc) /\ At(c, "done") /\ task[c].known /\ stmt[c] = "RUNNING"
    BY <1>3 DEF At, JobPcs
  <2>2. pc \notin CancelPcs /\ cancelReq[c] \notin {"refused", "dropped"}
    OBVIOUS
  <2>3. CancelPending(c)
    BY <1>1, <1>3, <2>1, <2>2 DEF CallInv, Accounted
  <2>4. PICK p \in CancelPcs : InPool(<<c, p>>)
    BY <2>3 DEF CancelPending, InPool
  <2>5. InPool(<<c, p>>)'
    BY <1>4, <1>7, <2>2, <2>4
  <2> QED
    BY <2>5 DEF CancelPending, InPool
<1>14. RecordTrue(c)'
  BY <1>1, <1>2 DEF CallInv, RecordTrue, Terminal
<1>15. CallInv(c)'
  BY <1>8, <1>9, <1>10, <1>11, <1>12, <1>13, <1>14 DEF CallInv
<1> QED
  BY <1>5, <1>6, <1>15, IInvByCall

\* A thread ends a job that only reads.
LEMMA ReaderEnds ==
    ASSUME IInv, NEW c \in Calls, NEW pc \in JobPcs \ CancelPcs, NEW result,
           ThreadEnds(c, pc, result), UNCHANGED <<stmt, cancelReq>>,
           At(c, pc) => result \in Replies \ {"pending"},
           At(c, pc) /\ pc = "submitting" =>
               result = "error" \/ (result \in {"RUNNING", "NO_ID", "BLANK"} \cup Terminal /\ stmt[c] # "none"),
           At(c, pc) /\ pc \in {"polling", "refetching"} =>
               result \in {"error", "RUNNING", "BLANK"} \cup Terminal,
           At(c, pc) /\ result \in Terminal => stmt[c] = result,
           c \notin OddReplies => result # "BLANK", c \notin SdkFaults => result # "error"
    PROVE  IInv'
<1>1. /\ stmt' \in [Calls -> StmtStates]
      /\ cancelReq' \in [Calls -> {"none", "asked", "sent", "refused", "dropped"}]
  BY IInvByCall DEF TypeOK
<1>2. \A d \in Calls \ {c} : stmt'[d] = stmt[d] /\ cancelReq'[d] = cancelReq[d]
  OBVIOUS
<1>3. stmt'[c] = stmt[c] \/ (stmt[c] = "RUNNING" /\ stmt'[c] = "CANCELING")
  OBVIOUS
<1>4. pc \notin CancelPcs => cancelReq'[c] = cancelReq[c]
  OBVIOUS
<1>5. pc \in CancelPcs => cancelReq'[c] \in {"sent", "refused"}
  OBVIOUS
<1>6. pc \in CancelPcs /\ cancelReq'[c] = "sent" => stmt'[c] \notin {"none", "RUNNING"}
  OBVIOUS
<1>7. pc \in CancelPcs /\ c \notin SdkFaults => cancelReq'[c] = "sent"
  OBVIOUS
<1>8. pc \in JobPcs
  OBVIOUS
<1> QED
  BY <1>1, <1>2, <1>3, <1>4, <1>5, <1>6, <1>7, <1>8, JobEnds

LEMMA ResolveReturnsIInv ==
    ASSUME IInv, NEW c \in Calls, ResolveReturns(c)
    PROVE  IInv'
<1>1. PICK result \in {"ok", "unavailable"} \cup (IF c \in SdkFaults THEN {"error"} ELSE {}) :
         ThreadEnds(c, "resolving", result)
  BY DEF ResolveReturns
<1>2. /\ result \in Replies \ {"pending"} /\ result \notin Terminal /\ result # "BLANK"
      /\ c \notin SdkFaults => result # "error"
  BY <1>1 DEF Replies, Terminal
<1>3. "resolving" \in JobPcs \ CancelPcs
  BY DEF JobPcs, CancelPcs
<1>4. UNCHANGED <<stmt, cancelReq>>
  BY DEF ResolveReturns
<1> QED
  BY <1>1, <1>2, <1>3, <1>4, ReaderEnds

\* What is reported of a statement that exists.
LEMMA ReportedStates ==
    ASSUME TypeOK, NEW c \in Calls, stmt[c] # "none"
    PROVE  /\ Reported(stmt[c]) \in {"RUNNING"} \cup Terminal
           /\ Reported(stmt[c]) \in Terminal => stmt[c] = Reported(stmt[c])
<1>1. stmt[c] \in {"RUNNING", "CANCELING"} \cup Terminal
  BY DEF TypeOK, StmtStates
<1> QED
  BY <1>1 DEF Reported, Terminal

LEMMA SubmitReturnsIInv ==
    ASSUME IInv, NEW c \in Calls, SubmitReturns(c)
    PROVE  IInv'
<1>1. UNCHANGED <<stmt, cancelReq>> /\ TypeOK
  BY IInvByCall DEF SubmitReturns
<1>2. "submitting" \in JobPcs \ CancelPcs
  BY DEF JobPcs, CancelPcs
<1>3. CASE c \in SdkFaults /\ ThreadEnds(c, "submitting", "error")
  <2>1. "error" \in Replies \ {"pending"} /\ "error" \notin Terminal
    BY DEF Replies, Terminal
  <2> QED
    BY <1>1, <1>2, <1>3, <2>1, ReaderEnds
<1>4. ASSUME stmt[c] # "none",
             NEW result \in {Reported(stmt[c])} \cup OddOnes(c), ThreadEnds(c, "submitting", result)
      PROVE  IInv'
  <2>1. /\ Reported(stmt[c]) \in {"RUNNING"} \cup Terminal
        /\ Reported(stmt[c]) \in Terminal => stmt[c] = Reported(stmt[c])
    BY <1>1, <1>4, ReportedStates
  <2>2. result = Reported(stmt[c]) \/ (c \in OddReplies /\ result \in {"BLANK", "NO_ID"})
    BY <1>4 DEF OddOnes
  <2>3. /\ result \in {"RUNNING", "NO_ID", "BLANK"} \cup Terminal
        /\ result \in Terminal => stmt[c] = result
    BY <2>1, <2>2 DEF Terminal
  <2>4. result \in Replies \ {"pending"} /\ result # "error" /\ (c \notin OddReplies => result # "BLANK")
    BY <2>1, <2>2, <2>3 DEF Replies, Terminal
  <2> QED
    BY <1>1, <1>2, <1>4, <2>3, <2>4, ReaderEnds
<1> QED
  BY <1>3, <1>4 DEF SubmitReturns

LEMMA GetReturnsIInv ==
    ASSUME IInv, NEW c \in Calls, NEW pc \in JobPcs, GetReturns(c, pc)
    PROVE  IInv'
<1>1. UNCHANGED <<stmt, cancelReq>> /\ TypeOK /\ pc \in {"polling", "refetching"}
  BY IInvByCall DEF GetReturns
<1>2. pc \in JobPcs \ CancelPcs /\ pc # "submitting"
  BY <1>1 DEF CancelPcs
<1>3. PICK result \in {Reported(stmt[c])} \cup (OddOnes(c) \ {"NO_ID"})
                      \cup (IF c \in SdkFaults THEN {"error"} ELSE {}) : ThreadEnds(c, pc, result)
  BY DEF GetReturns
<1>4. \/ result = Reported(stmt[c]) \/ (c \in OddReplies /\ result = "BLANK") \/ (c \in SdkFaults /\ result = "error")
  BY <1>3 DEF OddOnes
<1>5. ASSUME At(c, pc) PROVE stmt[c] # "none"
  <2>1. task[c].pc \in Waiting \ {"resolving", "submitting"}
    BY <1>1, <1>5 DEF At, Waiting, JobPcs
  <2> QED
    BY <2>1, Engaged
<1>6. At(c, pc) => /\ result \in {"error", "RUNNING", "BLANK"} \cup Terminal
                   /\ result \in Terminal => stmt[c] = result
  BY <1>1, <1>4, <1>5, ReportedStates DEF Terminal
<1>7. At(c, pc) => result \in Replies \ {"pending"}
  BY <1>6 DEF Replies, Terminal
<1>8. Reported(stmt[c]) # "BLANK" /\ Reported(stmt[c]) # "error"
  <2>1. stmt[c] \in StmtStates
    BY <1>1 DEF TypeOK
  <2> QED
    BY <2>1 DEF Reported, StmtStates, Terminal
<1>9. (c \notin OddReplies => result # "BLANK") /\ (c \notin SdkFaults => result # "error")
  BY <1>4, <1>8
<1> QED
  BY <1>1, <1>2, <1>3, <1>6, <1>7, <1>9, ReaderEnds

LEMMA CancelReturnsIInv ==
    ASSUME IInv, NEW c \in Calls, NEW pc \in JobPcs, CancelReturns(c, pc)
    PROVE  IInv'
<1>1. TypeOK /\ CallInv(c) /\ pc \in CancelPcs /\ ThreadEnds(c, pc, "ok")
  BY IInvByCall DEF CancelReturns
<1>2. pc # "submitting" /\ pc \notin {"polling", "refetching"}
  BY <1>1 DEF CancelPcs
<1>3. "ok" \in Replies \ {"pending"} /\ "ok" \notin Terminal
  BY DEF Replies, Terminal
<1>4. stmt[c] # "none"
  <2>1. InPool(<<c, pc>>)
    BY <1>1 DEF ThreadEnds, InPool
  <2> QED
    BY <1>1, <2>1 DEF CallInv, PoolInv, PhaseInv
<1>5. CASE /\ stmt' = [stmt EXCEPT ![c] = IF @ = "RUNNING" THEN "CANCELING" ELSE @]
           /\ cancelReq' = [cancelReq EXCEPT ![c] = "sent"]
  <2>1. /\ stmt' \in [Calls -> StmtStates]
        /\ \A d \in Calls \ {c} : stmt'[d] = stmt[d] /\ cancelReq'[d] = cancelReq[d]
        /\ stmt'[c] = IF stmt[c] = "RUNNING" THEN "CANCELING" ELSE stmt[c]
        /\ cancelReq' \in [Calls -> {"none", "asked", "sent", "refused", "dropped"}]
        /\ cancelReq'[c] = "sent"
    BY <1>1, <1>5 DEF TypeOK, StmtStates
  <2> QED
    BY <1>1, <1>2, <1>3, <1>4, <2>1, JobEnds
<1>6. CASE c \in SdkFaults /\ cancelReq' = [cancelReq EXCEPT ![c] = "refused"] /\ UNCHANGED stmt
  <2>1. /\ stmt' \in [Calls -> StmtStates]
        /\ \A d \in Calls \ {c} : stmt'[d] = stmt[d] /\ cancelReq'[d] = cancelReq[d]
        /\ cancelReq' \in [Calls -> {"none", "asked", "sent", "refused", "dropped"}]
        /\ cancelReq'[c] = "refused"
    BY <1>1, <1>6 DEF TypeOK
  <2> QED
    BY <1>1, <1>2, <1>3, <1>6, <2>1, JobEnds
<1> QED
  BY <1>1, <1>5, <1>6 DEF CancelReturns

-----------------------------------------------------------------------------
(* The workspace.                                                          *)

\* A statement begins, or ends; none that exists starts to run again.
LEMMA StatementMoves ==
    ASSUME IInv, NEW c \in Calls, NEW s \in StmtStates, stmt' = [stmt EXCEPT ![c] = s],
           stmt[c] \notin Terminal, s # "none", s = "RUNNING" => stmt[c] = "none",
           UNCHANGED <<task, queue, running, cancelReq, record, outcome>>
    PROVE  IInv'
<1>1. TypeOK /\ CallInv(c) /\ stmt \in [Calls -> StmtStates]
  BY IInvByCall DEF TypeOK
<1>2. stmt' \in [Calls -> StmtStates] /\ stmt'[c] = s /\ \A d \in Calls \ {c} : stmt'[d] = stmt[d]
  BY <1>1
<1>3. TypeOK'
  BY <1>1, <1>2 DEF TypeOK
<1>4. \A job : InPool(job)' <=> InPool(job)
  BY DEF InPool
<1>5. ASSUME NEW d \in Calls \ {c} PROVE CallInv(d)'
  <2>1. CallInv(d)
    BY IInvByCall
  <2> QED
    BY <1>2, <1>4, <2>1, Untouched
<1>6. PhaseInv(c)' /\ PoolInv(c)'
  BY <1>1, <1>2, <1>4 DEF CallInv, PhaseInv, PoolInv
<1>7. ReplyInv(c)'
  BY <1>1, <1>2 DEF CallInv, ReplyInv, At
<1>8. CancelInv(c)' /\ FaultFreeInv(c)'
  BY <1>1, <1>2 DEF CallInv, CancelInv, FaultFreeInv, At
<1>9. Accounted(c)'
  BY <1>1, <1>2 DEF CallInv, PhaseInv, Accounted
<1>10. RecordTrue(c)'
  BY <1>1, <1>2 DEF CallInv, RecordTrue, Terminal
<1>11. CallInv(c)'
  BY <1>6, <1>7, <1>8, <1>9, <1>10 DEF CallInv
<1> QED
  BY <1>3, <1>5, <1>11, IInvByCall

LEMMA WorkspaceIInv ==
    ASSUME IInv, NEW c \in Calls, StatementCreated(c) \/ QueryEnds(c) \/ CancellationEnds(c)
    PROVE  IInv'
<1>1. \E s \in StmtStates :
         /\ stmt' = [stmt EXCEPT ![c] = s]
         /\ stmt[c] \notin Terminal /\ s # "none" /\ (s = "RUNNING" => stmt[c] = "none")
  BY DEF StatementCreated, QueryEnds, CancellationEnds, StmtStates, Terminal
<1>2. UNCHANGED <<task, queue, running, cancelReq, record, outcome>>
  BY DEF StatementCreated, QueryEnds, CancellationEnds
<1> QED
  BY <1>1, <1>2, StatementMoves

-----------------------------------------------------------------------------
(* The invariant.                                                          *)

LEMMA InitIInv == Init => IInv
<1> SUFFICES ASSUME Init PROVE IInv
  OBVIOUS
<1> DEFINE x == [pc |-> "idle", timer |-> "armed", cancels |-> 0, due |-> FALSE,
                 reply |-> "pending", seen |-> "none", known |-> FALSE, exc |-> "none"]
<1>1. x \in Task
  BY MaxCancelsAssumption DEF Task, Pcs, Waiting, Replies, Seen
<1>2. queue \in Seq(Jobs) /\ Len(queue) = 0
  BY EmptySeq DEF Init
<1>3. TypeOK
  <2>1. task \in [Calls -> Task]
    BY <1>1 DEF Init
  <2> QED
    BY <1>2, <2>1 DEF Init, TypeOK, StmtStates, Seen
<1>4. \A job : ~InPool(job)
  BY <1>2 DEF InPool, Contains, Init
<1>5. ASSUME NEW c \in Calls PROVE CallInv(c)
  <2>1. /\ task[c].pc = "idle" /\ task[c].reply = "pending" /\ ~task[c].known
        /\ task[c].seen = "none" /\ stmt[c] = "none" /\ cancelReq[c] = "none"
        /\ record[c] = "none" /\ outcome[c] = "none"
    BY DEF Init
  <2>2. PhaseInv(c)
    BY <2>1 DEF PhaseInv, Waiting, JobPcs
  <2>3. ReplyInv(c)
    BY <2>1 DEF ReplyInv, At, Terminal
  <2>4. PoolInv(c)
    BY <1>4, <2>1 DEF PoolInv, JobPcs
  <2>5. CancelInv(c) /\ FaultFreeInv(c)
    BY <2>1 DEF CancelInv, FaultFreeInv, CancelPcs, At
  <2>6. Accounted(c) /\ RecordTrue(c)
    BY <2>1 DEF Accounted, RecordTrue, At, Terminal
  <2> QED
    BY <2>2, <2>3, <2>4, <2>5, <2>6 DEF CallInv
<1> QED
  BY <1>3, <1>5, IInvByCall

LEMMA NextIInv == IInv /\ [Next]_vars => IInv'
<1> SUFFICES ASSUME IInv, [Next]_vars PROVE IInv'
  OBVIOUS
<1>1. CASE ThreadTakes
  BY <1>1, ThreadTakesIInv
<1>2. ASSUME NEW c \in Calls, Coroutine(c) PROVE IInv'
  BY <1>2, InvokeIInv, ResolvedIInv, SubmittedIInv, WakeIInv, PolledIInv, ExpiredIInv,
     RefetchedIInv, AbortedIInv DEF Coroutine
<1>3. ASSUME NEW c \in Calls, TimerFires(c) \/ ExternalCancel(c) \/ DeadlinePasses(c) PROVE IInv'
  BY <1>3, TimerFiresIInv, ExternalCancelIInv, DeadlinePassesIInv
<1>4. ASSUME NEW c \in Calls, SdkReturns(c) PROVE IInv'
  BY <1>4, WorkspaceIInv, ResolveReturnsIInv, SubmitReturnsIInv, GetReturnsIInv,
     CancelReturnsIInv DEF SdkReturns
<1>5. ASSUME NEW c \in Calls, QueryEnds(c) \/ CancellationEnds(c) PROVE IInv'
  BY <1>5, WorkspaceIInv
<1>6. CASE UNCHANGED vars
  <2>1. UNCHANGED <<task, queue, running, stmt, cancelReq, record, outcome>>
    BY <1>6 DEF vars
  <2>2. \A job : InPool(job)' <=> InPool(job)
    BY <2>1 DEF InPool
  <2>3. ASSUME NEW d \in Calls PROVE CallInv(d)'
    <3>1. CallInv(d)
      BY IInvByCall
    <3> QED
      BY <2>1, <2>2, <3>1, Untouched
  <2>4. TypeOK'
    BY <2>1, IInvByCall DEF TypeOK
  <2> QED
    BY <2>3, <2>4, IInvByCall
<1> QED
  BY <1>1, <1>2, <1>3, <1>4, <1>5, <1>6 DEF Next, Quiet

\* The inductive invariant.
THEOREM Invariance == Spec => []IInv
BY InitIInv, NextIInv, PTL DEF Spec

\* Every variable keeps its type, for any number of calls and threads.
THEOREM TypeCorrect == Spec => []TypeOK
<1>1. IInv => TypeOK
  BY DEF IInv
<1> QED
  BY <1>1, Invariance, PTL

\* A statement that runs on after a call that knew its id ended is being
\* cancelled, or the request was refused, or dropped by a second cancellation, or
\* the call ended on a response without status; whatever the calls, cancellations,
\* SDK failures and odd replies.
THEOREM GhostsCorrect == Spec => []GhostsAreAccounted
<1>1. IInv => GhostsAreAccounted
  BY DEF IInv
<1> QED
  BY <1>1, Invariance, PTL

\* A terminal state in the audit trail, and a success, are the statement's own.
THEOREM RecordsCorrect == Spec => []TerminalRecordsAreTrue
<1>1. IInv => TerminalRecordsAreTrue
  BY DEF IInv
<1> QED
  BY <1>1, Invariance, PTL

\* A call whose SDK calls do not fail and whose replies are complete loses no
\* statement by the deadline and the guard's timeout, whatever fails for others.
THEOREM TimeoutsCorrect == Spec => []TimeoutsLeaveNoGhost
<1>1. ASSUME IInv PROVE TimeoutsLeaveNoGhost
  <2> SUFFICES ASSUME NEW c \in Sound, At(c, "done"), task[c].known, task[c].cancels = 0,
                      stmt[c] = "RUNNING"
               PROVE  CancelPending(c)
    BY DEF TimeoutsLeaveNoGhost
  <2>1. c \notin SdkFaults /\ c \notin OddReplies /\ FaultFreeInv(c) /\ Accounted(c)
    BY <1>1, IInvByCall DEF CallInv, Sound
  <2>2. task[c].reply # "BLANK" /\ cancelReq[c] # "refused" /\ cancelReq[c] # "dropped"
    BY <2>1 DEF FaultFreeInv
  <2> QED
    BY <2>1, <2>2 DEF Accounted
<1> QED
  BY <1>1, Invariance, PTL

-----------------------------------------------------------------------------
(* The requests to cancel in the pool.                                     *)

\* What a call does of itself, or when it is cancelled, from one await to the
\* next: t is what it holds then.
NoRequest(c) == \A pc \in CancelPcs : ~InPool(<<c, pc>>)

GoesOn(c) ==
    /\ \E pc \in JobPcs \ CancelPcs : AwaitThread(c, task[c], pc)
    /\ NoRequest(c)
    /\ UNCHANGED <<cancelReq, record, outcome>>

Sleeps(c, t) ==
    /\ task' = [task EXCEPT ![c] = [t EXCEPT !.pc = "sleeping", !.reply = "pending"]]
    /\ t.reply # "BLANK" /\ task[c].pc # "idle"
    /\ NoRequest(c)
    /\ UNCHANGED <<queue, cancelReq, record, outcome>>

AsksBy(c, t, pc) ==
    /\ AwaitThread(c, t, pc)
    /\ t.known /\ task[c].pc # "idle"
    /\ \A p \in CancelPcs : InPool(<<c, p>>) => p = "expiring" /\ pc = "aborting"
    /\ cancelReq' = [cancelReq EXCEPT ![c] = "asked"]
    /\ UNCHANGED <<record, outcome>>

Asks(c, t) == \E pc \in CancelPcs : AsksBy(c, t, pc)

LeavesWith(c, t, r, o) ==
    /\ Leave(c, t, r, o)
    /\ t.known => r # "none"
    /\ \/ /\ NoRequest(c) \/ ~Contains(queue, <<c, task[c].pc>>) \/ task[c].pc \notin CancelPcs
          /\ UNCHANGED cancelReq
       \/ /\ task[c].pc \in CancelPcs /\ Contains(queue, <<c, task[c].pc>>)
          /\ cancelReq' = [cancelReq EXCEPT ![c] = "dropped"]

Leaves(c, t) ==
    \E r \in Seen, o \in {"success", "error", "timeout", "cancelled"} : LeavesWith(c, t, r, o)

Stretch(c, t) ==
    /\ t \in Task /\ t.reply = task[c].reply /\ task[c].pc # "done"
    /\ t.known = task[c].known \/ (t.known /\ stmt[c] # "none")
    /\ UNCHANGED <<running, stmt>>
    /\ GoesOn(c) \/ Sleeps(c, t) \/ Asks(c, t) \/ Leaves(c, t)

LEMMA NoneAsked ==
    ASSUME NEW c \in Calls, RequestInv(c),
           \/ task[c].pc \notin {"expiring", "aborting", "done"}
           \/ task[c].pc = "expiring" /\ task[c].reply # "pending"
    PROVE  NoRequest(c)
BY DEF RequestInv, NoRequest, CancelPcs, At

LEMMA InvokeStretch ==
    ASSUME IInv, NEW c \in Calls, RequestInv(c), NEW allowed \in BOOLEAN, Invoke(c, allowed)
    PROVE  Stretch(c, task[c])
<1>1. /\ task[c] \in Task /\ task[c].pc = "idle" /\ ~task[c].known
      /\ UNCHANGED <<running, stmt, cancelReq>>
  BY Holds DEF Invoke, At, CallInv, PhaseInv
<1>2. NoRequest(c)
  BY <1>1, NoneAsked
<1>3. CASE AwaitThread(c, task[c], "resolving") /\ UNCHANGED <<record, outcome>>
  <2>1. "resolving" \in JobPcs \ CancelPcs
    BY DEF JobPcs, CancelPcs
  <2>2. GoesOn(c)
    BY <1>1, <1>2, <1>3, <2>1 DEF GoesOn
  <2> QED
    BY <1>1, <2>2 DEF Stretch
<1>4. CASE Leave(c, task[c], "none", "error")
  <2>1. LeavesWith(c, task[c], "none", "error")
    BY <1>1, <1>2, <1>4 DEF LeavesWith
  <2>2. "none" \in Seen
    BY DEF Seen
  <2>3. Leaves(c, task[c])
    BY <2>1, <2>2 DEF Leaves
  <2> QED
    BY <1>1, <2>3 DEF Stretch
<1> QED
  BY <1>3, <1>4 DEF Invoke

LEMMA ResolvedStretch ==
    ASSUME IInv, NEW c \in Calls, RequestInv(c), Resolved(c)
    PROVE  Stretch(c, task[c])
<1>1. /\ task[c] \in Task /\ task[c].pc = "resolving" /\ ~task[c].known
      /\ UNCHANGED <<running, stmt, cancelReq>>
  BY Holds DEF Resolved, Answered, At, CallInv, PhaseInv
<1>2. NoRequest(c)
  BY <1>1, NoneAsked
<1>3. CASE AwaitThread(c, task[c], "submitting") /\ UNCHANGED <<record, outcome>>
  <2>1. "submitting" \in JobPcs \ CancelPcs
    BY DEF JobPcs, CancelPcs
  <2>2. GoesOn(c)
    BY <1>1, <1>2, <1>3, <2>1 DEF GoesOn
  <2> QED
    BY <1>1, <2>2 DEF Stretch
<1>4. CASE Leave(c, task[c], "none", "error")
  <2>1. LeavesWith(c, task[c], "none", "error")
    BY <1>1, <1>2, <1>4 DEF LeavesWith
  <2>2. "none" \in Seen
    BY DEF Seen
  <2>3. Leaves(c, task[c])
    BY <2>1, <2>2 DEF Leaves
  <2> QED
    BY <1>1, <2>3 DEF Stretch
<1> QED
  BY <1>3, <1>4 DEF Resolved

\* A response that is returned is always recorded.
LEMMA ReturnLeaves ==
    ASSUME NEW c \in Calls, NEW t \in Task,
           NEW status \in {"RUNNING", "NO_ID", "BLANK"} \cup Terminal, ReturnResp(c, t, status),
           t.seen \in {"none", "RUNNING"}, NoRequest(c), UNCHANGED cancelReq
    PROVE  Leaves(c, t)
<1>1. PICK o \in ReturnOutcomes(status) : Leave(c, t, FinalState(t, status), o)
  BY DEF ReturnResp
<1>2. o \in {"success", "error", "timeout", "cancelled"}
  BY DEF ReturnOutcomes
<1>3. FinalState(t, status) \in Seen /\ FinalState(t, status) # "none"
  BY DEF FinalState, Seen, Terminal
<1>4. LeavesWith(c, t, FinalState(t, status), o)
  BY <1>1, <1>3 DEF LeavesWith
<1> QED
  BY <1>2, <1>3, <1>4 DEF Leaves

\* The polling loop sleeps, or asks to cancel.
LEMMA PollLoopStretch ==
    ASSUME NEW c \in Calls, NEW t \in Task, PollLoop(c, t), UNCHANGED <<running, stmt, record, outcome>>,
           task[c].pc \notin {"idle", "done"}, t.known, stmt[c] # "none",
           t.reply = task[c].reply, t.reply # "BLANK", NoRequest(c)
    PROVE  Stretch(c, t)
<1>1. CASE AwaitThread(c, t, "expiring") /\ cancelReq' = [cancelReq EXCEPT ![c] = "asked"]
  <2>1. AsksBy(c, t, "expiring") /\ "expiring" \in CancelPcs
    BY <1>1 DEF AsksBy, NoRequest, CancelPcs
  <2>2. Asks(c, t)
    BY <2>1 DEF Asks
  <2> QED
    BY <2>2 DEF Stretch
<1>2. CASE /\ task' = [task EXCEPT ![c] = [t EXCEPT !.pc = "sleeping", !.reply = "pending"]]
           /\ UNCHANGED <<queue, cancelReq>>
  <2>1. Sleeps(c, t)
    BY <1>2 DEF Sleeps
  <2> QED
    BY <2>1 DEF Stretch
<1> QED
  BY <1>1, <1>2 DEF PollLoop

\* The abort path asks, whatever is left of an earlier request.
LEMMA AbortStretch ==
    ASSUME NEW c \in Calls, NEW t \in Task, Abort(c, t), UNCHANGED <<running, stmt>>,
           task[c].pc \notin {"idle", "done"}, t.known, stmt[c] # "none", t.reply = task[c].reply,
           ~InPool(<<c, "aborting">>)
    PROVE  Stretch(c, t)
<1>1. AsksBy(c, t, "aborting") /\ "aborting" \in CancelPcs
  BY DEF Abort, AsksBy, CancelPcs
<1>2. Asks(c, t)
  BY <1>1 DEF Asks
<1> QED
  BY <1>2 DEF Stretch

LEMMA SubmittedStretch ==
    ASSUME IInv, NEW c \in Calls, RequestInv(c), Submitted(c)
    PROVE  \E t : Stretch(c, t)
<1> DEFINE t == task[c]
           r == task[c].reply
<1>1. /\ t \in Task /\ t.seen \in {"none", "RUNNING"} /\ t.pc = "submitting" /\ ~t.known
      /\ UNCHANGED <<running, stmt>>
  BY Holds DEF Submitted, Answered, At, CallInv, PhaseInv
<1>2. /\ r \in {"error", "RUNNING", "NO_ID", "BLANK"} \cup Terminal
      /\ r # "error" => stmt[c] # "none"
  BY Holds DEF Submitted, Answered, CallInv, ReplyInv
<1>3. NoRequest(c)
  BY <1>1, NoneAsked
<1>4. CASE Leave(c, t, "none", "error") /\ UNCHANGED cancelReq
  <2>1. LeavesWith(c, t, "none", "error")
    BY <1>1, <1>3, <1>4 DEF LeavesWith
  <2>2. "none" \in Seen
    BY DEF Seen
  <2>3. Leaves(c, t)
    BY <2>1, <2>2 DEF Leaves
  <2>4. Stretch(c, t)
    BY <1>1, <2>3 DEF Stretch
  <2> QED
    BY <2>4
<1>5. CASE /\ r # "error" /\ r # "RUNNING"
           /\ ReturnResp(c, [t EXCEPT !.known = (r # "NO_ID")], r)
           /\ UNCHANGED cancelReq
  <2> DEFINE x == [t EXCEPT !.known = (r # "NO_ID")]
  <2>1. x \in Task /\ x.seen \in {"none", "RUNNING"} /\ x.reply = r
        /\ (x.known = t.known \/ x.known)
    BY <1>1 DEF Task
  <2>2. r \in {"RUNNING", "NO_ID", "BLANK"} \cup Terminal /\ stmt[c] # "none" /\ ReturnResp(c, x, r)
    BY <1>2, <1>5
  <2> HIDE DEF x
  <2>3. Leaves(c, x)
    BY <1>3, <1>5, <2>1, <2>2, ReturnLeaves
  <2>4. Stretch(c, x)
    BY <1>1, <2>1, <2>2, <2>3 DEF Stretch
  <2> QED
    BY <2>4
<1>6. CASE /\ r = "RUNNING"
           /\ \E spent \in BOOLEAN : PollLoop(c, [t EXCEPT !.seen = r, !.known = TRUE, !.due = spent])
           /\ UNCHANGED <<record, outcome>>
  <2>1. PICK spent \in BOOLEAN : PollLoop(c, [t EXCEPT !.seen = r, !.known = TRUE, !.due = spent])
    BY <1>6
  <2> DEFINE x == [t EXCEPT !.seen = r, !.known = TRUE, !.due = spent]
  <2>2. x \in Task /\ x.known /\ x.reply = r /\ x.reply # "BLANK" /\ stmt[c] # "none"
    BY <1>1, <1>2, <1>6 DEF Task, Seen
  <2>3. PollLoop(c, x)
    BY <2>1
  <2> HIDE DEF x
  <2>4. Stretch(c, x)
    BY <1>1, <1>3, <1>6, <2>2, <2>3, PollLoopStretch
  <2> QED
    BY <2>4
<1> QED
  BY <1>4, <1>5, <1>6 DEF Submitted

LEMMA WakeStretch ==
    ASSUME IInv, NEW c \in Calls, RequestInv(c), Wake(c)
    PROVE  Stretch(c, task[c])
<1>1. /\ task[c] \in Task /\ task[c].pc = "sleeping" /\ AwaitThread(c, task[c], "polling")
      /\ UNCHANGED <<running, stmt, cancelReq, record, outcome>>
  BY Holds DEF Wake, At
<1>2. NoRequest(c) /\ "polling" \in JobPcs \ CancelPcs
  BY <1>1, NoneAsked DEF JobPcs, CancelPcs
<1>3. GoesOn(c)
  BY <1>1, <1>2 DEF GoesOn
<1> QED
  BY <1>1, <1>3 DEF Stretch

LEMMA ExpiredStretch ==
    ASSUME IInv, NEW c \in Calls, RequestInv(c), Expired(c)
    PROVE  Stretch(c, task[c])
<1>1. /\ task[c] \in Task /\ task[c].pc = "expiring" /\ task[c].reply # "pending"
      /\ AwaitThread(c, task[c], "refetching")
      /\ UNCHANGED <<running, stmt, cancelReq, record, outcome>>
  BY Holds DEF Expired, Answered, At
<1>2. NoRequest(c) /\ "refetching" \in JobPcs \ CancelPcs
  BY <1>1, NoneAsked DEF JobPcs, CancelPcs
<1>3. GoesOn(c)
  BY <1>1, <1>2 DEF GoesOn
<1> QED
  BY <1>1, <1>3 DEF Stretch

\* A poll, or the refetch after a cancellation, brings a response.
LEMMA PolledStretch ==
    ASSUME IInv, NEW c \in Calls, RequestInv(c), Polled(c) \/ Refetched(c)
    PROVE  \E t : Stretch(c, t)
<1> DEFINE t == task[c]
           r == task[c].reply
<1>1. /\ t.pc \in {"polling", "refetching"} /\ t.pc \in Waiting \ {"resolving", "submitting"}
      /\ r # "pending" /\ UNCHANGED <<running, stmt>>
  BY DEF Polled, Refetched, Answered, At, Waiting, JobPcs
<1>2. t \in Task /\ t.known /\ t.seen = "RUNNING" /\ stmt[c] # "none"
  BY <1>1, Engaged, Holds
<1>3. r \in {"error", "RUNNING", "BLANK"} \cup Terminal
  BY <1>1, Holds DEF CallInv, ReplyInv
<1>4. NoRequest(c) /\ ~InPool(<<c, "aborting">>)
  BY <1>1, NoneAsked DEF NoRequest, CancelPcs
<1>5. CASE r = "error" /\ Abort(c, [t EXCEPT !.exc = "sdk"])
  <2> DEFINE x == [t EXCEPT !.exc = "sdk"]
  <2>1. x \in Task /\ x.known /\ x.reply = r /\ Abort(c, x)
    BY <1>2, <1>5 DEF Task
  <2> HIDE DEF x
  <2>2. Stretch(c, x)
    BY <1>1, <1>2, <1>4, <2>1, AbortStretch
  <2> QED
    BY <2>2
<1>6. CASE r = "RUNNING" /\ PollLoop(c, [t EXCEPT !.seen = r]) /\ UNCHANGED <<record, outcome>>
  <2> DEFINE x == [t EXCEPT !.seen = r]
  <2>1. x \in Task /\ x.known /\ x.reply = r /\ x.reply # "BLANK" /\ PollLoop(c, x)
    BY <1>2, <1>6 DEF Task, Seen
  <2> HIDE DEF x
  <2>2. Stretch(c, x)
    BY <1>1, <1>2, <1>4, <1>6, <2>1, PollLoopStretch
  <2> QED
    BY <2>2
<1>7. CASE r # "error" /\ ReturnResp(c, t, r) /\ UNCHANGED cancelReq
  <2>1. Leaves(c, t)
    BY <1>2, <1>3, <1>4, <1>7, ReturnLeaves
  <2>2. Stretch(c, t)
    BY <1>1, <1>2, <2>1 DEF Stretch
  <2> QED
    BY <2>2
<1> QED
  BY <1>5, <1>6, <1>7 DEF Polled, Refetched

LEMMA AbortedStretch ==
    ASSUME IInv, NEW c \in Calls, RequestInv(c), Aborted(c)
    PROVE  Stretch(c, task[c])
<1> DEFINE r == AbortState(task[c])
           o == RaiseOutcome(task[c])
<1>1. /\ task[c].pc = "aborting" /\ task[c].pc \in Waiting \ {"resolving", "submitting"}
      /\ task[c].reply # "pending" /\ Leave(c, task[c], r, o)
      /\ UNCHANGED <<running, stmt, cancelReq>>
  BY DEF Aborted, Answered, At, Waiting, JobPcs
<1>2. task[c] \in Task /\ task[c].seen = "RUNNING"
  BY <1>1, Engaged, Holds
<1>3. r = "RUNNING" /\ r \in Seen /\ r # "none"
  BY <1>2 DEF AbortState, Seen
<1>4. o \in {"success", "error", "timeout", "cancelled"}
  BY RaiseIsNoSuccess
<1> HIDE DEF r, o
<1>5. ~Contains(queue, <<c, task[c].pc>>)
  BY <1>1 DEF RequestInv, At, CancelPcs, InPool
<1>6. LeavesWith(c, task[c], r, o)
  BY <1>1, <1>3, <1>5 DEF LeavesWith
<1>7. Leaves(c, task[c])
  BY <1>3, <1>4, <1>6 DEF Leaves
<1> QED
  BY <1>1, <1>2, <1>7 DEF Stretch

\* A cancellation in the abort path takes the request along if no thread has it.
LEMMA InterruptStretch ==
    ASSUME IInv, NEW c \in Calls, RequestInv(c), NEW t \in Task, Interrupt(c, t),
           t.pc = task[c].pc, t.reply = task[c].reply, t.known = task[c].known,
           t.seen = task[c].seen
    PROVE  \E x : Stretch(c, x)
<1> DEFINE x == [t EXCEPT !.exc = "cancelled"]
           r == AbortState(x)
           o == RaiseOutcome(x)
<1>1. /\ x \in Task /\ x.pc = task[c].pc /\ x.reply = task[c].reply /\ x.known = task[c].known
      /\ x.seen = task[c].seen
  BY DEF Task
<1>2. o \in {"success", "error", "timeout", "cancelled"}
  BY RaiseIsNoSuccess
<1>3. UNCHANGED <<running, stmt>>
  BY DEF Interrupt
<1>4. CASE t.pc \in {"resolving", "submitting"} /\ Leave(c, x, "none", o) /\ UNCHANGED cancelReq
  <2>1. ~x.known /\ "none" \in Seen /\ task[c].pc # "done"
    BY <1>1, <1>4, Holds DEF CallInv, PhaseInv, Seen
  <2>2. NoRequest(c)
    BY <1>4, NoneAsked
  <2> HIDE DEF x, r, o
  <2>3. LeavesWith(c, x, "none", o)
    BY <1>4, <2>1, <2>2 DEF LeavesWith
  <2>4. Leaves(c, x)
    BY <1>2, <2>1, <2>3 DEF Leaves
  <2>5. Stretch(c, x)
    BY <1>1, <1>3, <2>1, <2>4 DEF Stretch
  <2> QED
    BY <2>5
<1>5. CASE t.pc \in {"sleeping", "polling", "expiring", "refetching"} /\ Abort(c, x)
  <2>1. task[c].pc \in Waiting \ {"resolving", "submitting"} /\ task[c].pc \notin {"idle", "done", "aborting"}
    BY <1>5 DEF Waiting, JobPcs
  <2>2. x.known /\ stmt[c] # "none"
    BY <1>1, <2>1, Engaged
  <2>3. ~InPool(<<c, "aborting">>)
    BY <2>1 DEF RequestInv
  <2> HIDE DEF x, r, o
  <2>4. Stretch(c, x)
    BY <1>1, <1>3, <1>5, <2>1, <2>2, <2>3, AbortStretch
  <2> QED
    BY <2>4
<1>6. CASE /\ t.pc = "aborting" /\ Leave(c, x, r, o)
           /\ cancelReq' = [cancelReq EXCEPT ![c] =
                  IF Contains(queue, <<c, "aborting">>) THEN "dropped" ELSE @]
  <2>1. task[c].pc = "aborting" /\ task[c].pc \in Waiting \ {"resolving", "submitting"}
        /\ task[c].pc \in CancelPcs
    BY <1>6 DEF Waiting, JobPcs, CancelPcs
  <2>2. r = "RUNNING" /\ r \in Seen /\ r # "none"
    BY <1>1, <2>1, Engaged DEF AbortState, Seen
  <2>3. \/ Contains(queue, <<c, task[c].pc>>) /\ cancelReq' = [cancelReq EXCEPT ![c] = "dropped"]
        \/ ~Contains(queue, <<c, task[c].pc>>) /\ UNCHANGED cancelReq
    BY <1>6, <2>1, Holds
  <2>4. Leave(c, x, r, o)
    BY <1>6
  <2> HIDE DEF x, r, o
  <2>5. LeavesWith(c, x, r, o)
    BY <2>1, <2>2, <2>3, <2>4 DEF LeavesWith
  <2>6. Leaves(c, x)
    BY <1>2, <2>2, <2>5 DEF Leaves
  <2>7. Stretch(c, x)
    BY <1>1, <1>3, <2>1, <2>6 DEF Stretch
  <2> QED
    BY <2>7
<1> QED
  BY <1>4, <1>5, <1>6 DEF Interrupt

LEMMA CancellationStretch ==
    ASSUME IInv, NEW c \in Calls, RequestInv(c), TimerFires(c) \/ ExternalCancel(c)
    PROVE  \E x : Stretch(c, x)
<1>1. task[c] \in Task
  BY Holds
<1>2. CASE TimerFires(c)
  <2> DEFINE t == [task[c] EXCEPT !.timer = "fired"]
  <2>1. /\ t \in Task /\ t.pc = task[c].pc /\ t.reply = task[c].reply /\ t.known = task[c].known
        /\ t.seen = task[c].seen
    BY <1>1 DEF Task
  <2>2. Interrupt(c, t)
    BY <1>2 DEF TimerFires
  <2> HIDE DEF t
  <2> QED
    BY <2>1, <2>2, InterruptStretch
<1>3. CASE ExternalCancel(c)
  <2> DEFINE t == [task[c] EXCEPT !.cancels = @ + 1]
  <2>1. task[c].cancels \in 0..MaxCancels /\ task[c].cancels + 1 \in 0..MaxCancels
    BY <1>1, <1>3, MaxCancelsAssumption DEF Task, ExternalCancel
  <2>2. /\ t \in Task /\ t.pc = task[c].pc /\ t.reply = task[c].reply /\ t.known = task[c].known
        /\ t.seen = task[c].seen
    BY <1>1, <2>1 DEF Task
  <2>3. Interrupt(c, t)
    BY <1>3 DEF ExternalCancel
  <2> HIDE DEF t
  <2> QED
    BY <2>2, <2>3, InterruptStretch
<1> QED
  BY <1>2, <1>3

\* Every step of a coroutine is such a stretch.
LEMMA CoroutineStretch ==
    ASSUME IInv, RequestsInv, NEW c \in Calls, Coroutine(c) \/ TimerFires(c) \/ ExternalCancel(c)
    PROVE  \E t : Stretch(c, t)
<1>1. RequestInv(c)
  BY DEF RequestsInv
<1>2. CASE Coroutine(c)
  <2>1. ASSUME NEW allowed \in BOOLEAN, Invoke(c, allowed) PROVE \E t : Stretch(c, t)
    BY <1>1, <2>1, InvokeStretch
  <2>2. CASE Resolved(c)
    BY <1>1, <2>2, ResolvedStretch
  <2>3. CASE Submitted(c)
    BY <1>1, <2>3, SubmittedStretch
  <2>4. CASE Wake(c)
    BY <1>1, <2>4, WakeStretch
  <2>5. CASE Polled(c) \/ Refetched(c)
    BY <1>1, <2>5, PolledStretch
  <2>6. CASE Expired(c)
    BY <1>1, <2>6, ExpiredStretch
  <2>7. CASE Aborted(c)
    BY <1>1, <2>7, AbortedStretch
  <2> QED
    BY <1>2, <2>1, <2>2, <2>3, <2>4, <2>5, <2>6, <2>7 DEF Coroutine
<1>3. CASE TimerFires(c) \/ ExternalCancel(c)
  BY <1>1, <1>3, CancellationStretch
<1> QED
  BY <1>2, <1>3

LEMMA OnceIsSingle ==
    ASSUME NEW job
    PROVE  /\ Once(job) <=> (job \in running => ~Contains(queue, job)) /\ Single(queue, job)
           /\ Once(job)' <=> (job \in running' => ~Contains(queue', job)) /\ Single(queue', job)
BY DEF Once, Single

\* A step that leaves the place of a call, its reply and its jobs alone.
LEMMA RequestKept ==
    ASSUME NEW d \in Calls, RequestInv(d),
           task'[d].pc = task[d].pc, task'[d].reply = task[d].reply,
           \A pc \in JobPcs : InPool(<<d, pc>>)' <=> InPool(<<d, pc>>),
           \A pc \in CancelPcs : Once(<<d, pc>>)'
    PROVE  RequestInv(d)'
<1>1. CancelPcs \subseteq JobPcs /\ "expiring" \in CancelPcs /\ "aborting" \in CancelPcs
  BY DEF CancelPcs, JobPcs
<1> QED
  BY <1>1 DEF RequestInv, At

\* No stretch of a coroutine puts a job in the pool that is there already.
LEMMA OnceWithdrawn ==
    ASSUME TypeOK, NEW c \in Calls, queue' = Withdraw(c), running' = running, NEW job, Once(job)
    PROVE  Once(job)'
<1>1. queue \in Seq(Jobs)
  BY DEF TypeOK
<1>2. /\ Contains(queue', job) => Contains(queue, job)
      /\ Single(queue, job) => Single(queue', job)
  BY <1>1, Removed DEF Withdraw
<1> QED
  BY <1>2, OnceIsSingle

LEMMA OnceAwaited ==
    ASSUME TypeOK, NEW c \in Calls, NEW t, NEW pc \in JobPcs, AwaitThread(c, t, pc),
           running' = running, NEW job, Once(job), job = <<c, pc>> => ~InPool(job)
    PROVE  Once(job)'
<1> DEFINE w == Withdraw(c)
           x == <<c, pc>>
<1>1. queue \in Seq(Jobs) /\ x \in Jobs /\ queue' = Append(w, x)
  BY DEF TypeOK, Jobs, AwaitThread
<1>2. /\ w \in Seq(Jobs) /\ (Contains(w, job) => Contains(queue, job))
      /\ Single(queue, job) => Single(w, job)
  BY <1>1, Removed DEF Withdraw
<1>3. job = x => job \notin running /\ ~Contains(queue, job)
  BY DEF InPool
<1> HIDE DEF w, x
<1>4. /\ Contains(queue', job) <=> job = x \/ Contains(w, job)
      /\ Single(w, job) /\ (job = x => ~Contains(w, job)) => Single(queue', job)
  BY <1>1, <1>2, Appended
<1> QED
  BY <1>2, <1>3, <1>4, OnceIsSingle

LEMMA StretchRequests ==
    ASSUME TypeOK, RequestsInv, NEW c \in Calls, NEW t, Stretch(c, t)
    PROVE  RequestsInv'
<1>1. /\ t \in Task /\ task[c].pc # "done" /\ running' = running /\ task \in [Calls -> Task]
      /\ queue \in Seq(Jobs)
  BY DEF Stretch, TypeOK
<1>2. CancelPcs \subseteq JobPcs
  BY DEF CancelPcs, JobPcs
<1>3. ASSUME NEW d \in Calls, NEW pc \in CancelPcs PROVE Once(<<d, pc>>)
  BY DEF RequestsInv, RequestInv
\* A job is handed over that was not in the pool.
<1>4. ASSUME NEW u \in Task, NEW pc \in JobPcs, AwaitThread(c, u, pc),
             \A p \in CancelPcs : InPool(<<c, p>>) => p = "expiring" /\ pc = "aborting"
      PROVE  RequestsInv'
  <2>1. /\ task' \in [Calls -> Task] /\ queue' \in Seq(Jobs)
        /\ task'[c] = [u EXCEPT !.pc = pc, !.reply = "pending"]
        /\ \A d \in Calls \ {c} : task'[d] = task[d]
        /\ InPool(<<c, pc>>)'
        /\ \A p \in JobPcs \ {pc} : InPool(<<c, p>>)' => InPool(<<c, p>>)
    BY <1>1, <1>4, Awaits
  <2>2. task'[c].pc = pc /\ task'[c].reply = "pending"
    BY <1>4, <2>1 DEF Task
  <2>3. ASSUME NEW d \in Calls, NEW p \in CancelPcs PROVE Once(<<d, p>>)'
    <3>1. <<d, p>> = <<c, pc>> => ~InPool(<<d, p>>)
      BY <1>4
    <3> QED
      BY <1>1, <1>3, <1>4, <3>1, OnceAwaited
  <2>4. ASSUME NEW d \in Calls \ {c} PROVE RequestInv(d)'
    <3>1. \A p \in JobPcs : InPool(<<d, p>>)' <=> InPool(<<d, p>>)
      BY <1>1, <1>4, OtherJobs DEF AwaitThread
    <3>2. RequestInv(d)
      BY DEF RequestsInv
    <3> QED
      BY <2>1, <2>3, <3>1, <3>2, RequestKept
  <2>5. RequestInv(c)'
    <3>1. ~At(c, "idle")' /\ \A p \in CancelPcs : At(c, p)' => task'[c].reply = "pending"
      BY <2>2 DEF At, JobPcs
    <3>2. InPool(<<c, "expiring">>)' => task'[c].pc \in {"expiring", "aborting", "done"}
      BY <1>4, <2>1, <2>2 DEF CancelPcs, JobPcs
    <3>3. InPool(<<c, "aborting">>)' => task'[c].pc \in {"aborting", "done"}
      BY <1>4, <2>1, <2>2 DEF CancelPcs, JobPcs
    <3> QED
      BY <2>3, <3>1, <3>2, <3>3 DEF RequestInv
  <2> QED
    BY <2>4, <2>5 DEF RequestsInv
<1>5. CASE GoesOn(c)
  <2>1. PICK pc \in JobPcs \ CancelPcs : AwaitThread(c, task[c], pc)
    BY <1>5 DEF GoesOn
  <2>2. \A p \in CancelPcs : InPool(<<c, p>>) => p = "expiring" /\ pc = "aborting"
    BY <1>5 DEF GoesOn, NoRequest
  <2>3. task[c] \in Task
    BY <1>1
  <2> QED
    BY <1>4, <2>1, <2>2, <2>3
<1>6. CASE Asks(c, t)
  <2>1. PICK pc \in CancelPcs : AsksBy(c, t, pc)
    BY <1>6 DEF Asks
  <2> QED
    BY <1>1, <1>2, <1>4, <2>1 DEF AsksBy
<1>7. CASE Sleeps(c, t)
  <2> DEFINE x == [t EXCEPT !.pc = "sleeping", !.reply = "pending"]
  <2>1. x \in Task /\ x.pc = "sleeping" /\ task' = [task EXCEPT ![c] = x]
    BY <1>1, <1>7 DEF Sleeps, Task, Pcs, Waiting, Replies
  <2> HIDE DEF x
  <2>2. task'[c].pc = "sleeping" /\ \A d \in Calls \ {c} : task'[d] = task[d]
    BY <1>1, <2>1
  <2>3. queue' = queue /\ NoRequest(c)
    BY <1>7 DEF Sleeps
  <2>4. \A job : (InPool(job)' <=> InPool(job)) /\ (Once(job)' <=> Once(job))
    BY <1>1, <2>3 DEF InPool, Once
  <2>5. ASSUME NEW d \in Calls \ {c} PROVE RequestInv(d)'
    <3>1. RequestInv(d)
      BY DEF RequestsInv
    <3> QED
      BY <1>3, <2>2, <2>4, <3>1, RequestKept
  <2>6. RequestInv(c)'
    BY <1>3, <2>2, <2>3, <2>4 DEF RequestInv, NoRequest, At, CancelPcs
  <2> QED
    BY <2>5, <2>6 DEF RequestsInv
<1>8. CASE Leaves(c, t)
  <2> DEFINE x == [t EXCEPT !.pc = "done"]
  <2>1. PICK r \in Seen, o \in {"success", "error", "timeout", "cancelled"} : Leave(c, t, r, o)
    BY <1>8 DEF Leaves, LeavesWith
  <2>2. x \in Task /\ x.pc = "done" /\ task' = [task EXCEPT ![c] = x] /\ queue' = Withdraw(c)
    BY <1>1, <2>1 DEF Leave, Task, Pcs
  <2> HIDE DEF x
  <2>3. task'[c].pc = "done" /\ \A d \in Calls \ {c} : task'[d] = task[d]
    BY <1>1, <2>2
  <2>4. ASSUME NEW d \in Calls, NEW p \in CancelPcs PROVE Once(<<d, p>>)'
    BY <1>1, <1>3, <2>2, OnceWithdrawn
  <2>5. ASSUME NEW d \in Calls \ {c} PROVE RequestInv(d)'
    <3>1. \A p \in JobPcs : InPool(<<d, p>>)' <=> InPool(<<d, p>>)
      BY <1>1, <2>2, OtherJobs
    <3>2. RequestInv(d)
      BY DEF RequestsInv
    <3> QED
      BY <2>3, <2>4, <3>1, <3>2, RequestKept
  <2>6. RequestInv(c)'
    BY <2>3, <2>4 DEF RequestInv, At, CancelPcs
  <2> QED
    BY <2>5, <2>6 DEF RequestsInv
<1> QED
  BY <1>5, <1>6, <1>7, <1>8 DEF Stretch

\* A thread that takes a job takes all there is of it.
LEMMA ThreadTakesRequests ==
    ASSUME TypeOK, RequestsInv, ThreadTakes
    PROVE  RequestsInv'
<1>1. queue \in Seq(Jobs) /\ queue # <<>>
  BY DEF TypeOK, ThreadTakes
<1>2. running' = running \cup {Head(queue)} /\ queue' = Tail(queue) /\ task' = task
  BY DEF ThreadTakes
<1>3. /\ \A e : Contains(queue, e) <=> e = Head(queue) \/ Contains(queue', e)
      /\ \A e : Single(queue, e) => Single(queue', e) /\ (e = Head(queue) => ~Contains(queue', e))
  BY <1>1, <1>2, Taken
<1>4. \A job : InPool(job)' <=> InPool(job)
  BY <1>2, <1>3 DEF InPool
<1>5. ASSUME NEW job, Once(job) PROVE Once(job)'
  BY <1>2, <1>3, <1>5, OnceIsSingle
<1>6. ASSUME NEW d \in Calls PROVE RequestInv(d)'
  <2>1. RequestInv(d) /\ \A pc \in CancelPcs : Once(<<d, pc>>)
    BY DEF RequestsInv, RequestInv
  <2> QED
    BY <1>2, <1>4, <1>5, <2>1, RequestKept
<1> QED
  BY <1>6 DEF RequestsInv

\* A request that is answered has left the pool.
LEMMA ThreadEndsRequests ==
    ASSUME TypeOK, RequestsInv, NEW c \in Calls, NEW pc \in JobPcs, NEW result,
           ThreadEnds(c, pc, result), pc \in CancelPcs => result = "ok"
    PROVE  RequestsInv'
<1>1. /\ <<c, pc>> \in running /\ running' = running \ {<<c, pc>>} /\ queue' = queue
      /\ task' = IF At(c, pc) THEN [task EXCEPT ![c].reply = result] ELSE task
      /\ task \in [Calls -> Task]
  BY DEF ThreadEnds, TypeOK
<1>2. ASSUME NEW d \in Calls
      PROVE  /\ task'[d].pc = task[d].pc
             /\ task'[d].reply = IF d = c /\ At(c, pc) THEN result ELSE task[d].reply
  BY <1>1 DEF Task
<1>3. \A job : (InPool(job)' => InPool(job)) /\ (Once(job) => Once(job)')
  BY <1>1 DEF InPool, Once
<1>4. \A d \in Calls : \A p \in CancelPcs : Once(<<d, p>>)'
  BY <1>3 DEF RequestsInv, RequestInv
<1>5. ASSUME NEW d \in Calls PROVE RequestInv(d)'
  <2>1. RequestInv(d)
    BY DEF RequestsInv
  <2>2. At(d, "idle")' => task'[d].reply = "pending" /\ \A p \in JobPcs : ~InPool(<<d, p>>)'
    <3>1. SUFFICES ASSUME At(d, "idle")'
                   PROVE  task'[d].reply = "pending" /\ \A p \in JobPcs : ~InPool(<<d, p>>)'
      OBVIOUS
    <3>2. At(d, "idle") /\ ~(d = c /\ At(c, pc))
      BY <1>2, <3>1 DEF At, JobPcs
    <3> QED
      BY <1>2, <1>3, <2>1, <3>2 DEF RequestInv
  <2>3. /\ InPool(<<d, "expiring">>)' => task'[d].pc \in {"expiring", "aborting", "done"}
        /\ InPool(<<d, "aborting">>)' => task'[d].pc \in {"aborting", "done"}
    BY <1>2, <1>3, <2>1 DEF RequestInv
  <2>4. ASSUME NEW p \in CancelPcs, At(d, p)'
        PROVE  /\ task'[d].reply \in {"pending", "ok"}
               /\ task'[d].reply = "ok" => ~InPool(<<d, p>>)'
    <3>1. At(d, p)
      BY <1>2, <2>4 DEF At
    <3>2. CASE d = c /\ p = pc
      <4>1. task'[d].reply = "ok"
        BY <1>2, <3>1, <3>2
      <4>2. ~Contains(queue, <<c, pc>>)
        BY <1>1, <2>1, <3>2 DEF RequestInv, Once
      <4> QED
        BY <1>1, <3>2, <4>1, <4>2 DEF InPool
    <3>3. CASE ~(d = c /\ p = pc)
      <4>1. task'[d].reply = task[d].reply
        BY <1>2, <3>1, <3>3 DEF At
      <4> QED
        BY <1>3, <2>1, <3>1, <4>1 DEF RequestInv
    <3> QED
      BY <3>2, <3>3
  <2> QED
    BY <1>4, <2>2, <2>3, <2>4 DEF RequestInv
<1> QED
  BY <1>5 DEF RequestsInv

\* Steps that move neither a call to another await nor a job.
LEMMA OtherRequests ==
    ASSUME RequestsInv, UNCHANGED <<queue, running>>,
           \A d \in Calls : task'[d].pc = task[d].pc /\ task'[d].reply = task[d].reply
    PROVE  RequestsInv'
<1>1. \A job : (InPool(job)' <=> InPool(job)) /\ (Once(job)' <=> Once(job))
  BY DEF InPool, Once
<1>2. ASSUME NEW d \in Calls PROVE RequestInv(d)'
  <2>1. RequestInv(d) /\ \A pc \in CancelPcs : Once(<<d, pc>>)
    BY DEF RequestsInv, RequestInv
  <2> QED
    BY <1>1, <2>1, RequestKept
<1> QED
  BY <1>2 DEF RequestsInv

\* What a thread brings back.
LEMMA ThreadBrings ==
    ASSUME NEW c \in Calls, \/ ResolveReturns(c) \/ SubmitReturns(c)
                            \/ \E p \in JobPcs : GetReturns(c, p) \/ CancelReturns(c, p)
    PROVE  \E pc \in JobPcs : \E result :
              /\ ThreadEnds(c, pc, result)
              /\ pc \in CancelPcs => result = "ok" /\ CancelReturns(c, pc)
              /\ pc \notin CancelPcs => UNCHANGED <<stmt, cancelReq>>
<1>1. CASE ResolveReturns(c)
  BY <1>1 DEF ResolveReturns, JobPcs, CancelPcs
<1>2. CASE SubmitReturns(c)
  BY <1>2 DEF SubmitReturns, JobPcs, CancelPcs
<1>3. ASSUME NEW p \in JobPcs, GetReturns(c, p) PROVE p \notin CancelPcs
  BY <1>3 DEF GetReturns, CancelPcs
<1>4. ASSUME NEW p \in JobPcs, GetReturns(c, p)
      PROVE  /\ \E result : ThreadEnds(c, p, result)
             /\ UNCHANGED <<stmt, cancelReq>>
  BY <1>4 DEF GetReturns
<1>5. ASSUME NEW p \in JobPcs, CancelReturns(c, p) PROVE ThreadEnds(c, p, "ok") /\ p \in CancelPcs
  BY <1>5 DEF CancelReturns
<1> QED
  BY <1>1, <1>2, <1>3, <1>4, <1>5

LEMMA InitRequests == Init => RequestsInv
<1> SUFFICES ASSUME Init PROVE RequestsInv
  OBVIOUS
<1>1. queue = <<>> /\ running = {} /\ Len(queue) = 0
  BY EmptySeq DEF Init
<1>2. \A job : ~InPool(job) /\ Once(job)
  BY <1>1 DEF InPool, Once, Contains
<1>3. \A c \in Calls : task[c].pc = "idle" /\ task[c].reply = "pending"
  BY DEF Init
<1>4. ASSUME NEW c \in Calls PROVE RequestInv(c)
  BY <1>2, <1>3 DEF RequestInv, At, CancelPcs
<1> QED
  BY <1>4 DEF RequestsInv

LEMMA NextRequests == IInv /\ RequestsInv /\ [Next]_vars => RequestsInv'
<1> SUFFICES ASSUME IInv, RequestsInv, [Next]_vars PROVE RequestsInv'
  OBVIOUS
<1>1. TypeOK
  BY DEF IInv
<1>2. CASE ThreadTakes
  BY <1>1, <1>2, ThreadTakesRequests
<1>3. ASSUME NEW c \in Calls, Coroutine(c) \/ TimerFires(c) \/ ExternalCancel(c) PROVE RequestsInv'
  BY <1>1, <1>3, CoroutineStretch, StretchRequests
<1>4. ASSUME NEW c \in Calls, DeadlinePasses(c) PROVE RequestsInv'
  <2>1. task \in [Calls -> Task] /\ task' = [task EXCEPT ![c].due = TRUE] /\ UNCHANGED <<queue, running>>
    BY <1>1, <1>4 DEF DeadlinePasses, TypeOK
  <2>2. \A d \in Calls : task'[d].pc = task[d].pc /\ task'[d].reply = task[d].reply
    BY <2>1 DEF Task
  <2> QED
    BY <2>1, <2>2, OtherRequests
<1>5. ASSUME NEW c \in Calls, \/ ResolveReturns(c) \/ SubmitReturns(c)
                              \/ \E p \in JobPcs : GetReturns(c, p) \/ CancelReturns(c, p)
      PROVE  RequestsInv'
  BY <1>1, <1>5, ThreadBrings, ThreadEndsRequests
<1>6. ASSUME NEW c \in Calls, StatementCreated(c) \/ QueryEnds(c) \/ CancellationEnds(c) PROVE RequestsInv'
  <2>1. UNCHANGED <<task, queue, running>>
    BY <1>6 DEF StatementCreated, QueryEnds, CancellationEnds
  <2> QED
    BY <2>1, OtherRequests
<1>7. CASE UNCHANGED vars
  <2>1. UNCHANGED <<task, queue, running>>
    BY <1>7 DEF vars
  <2> QED
    BY <2>1, OtherRequests
<1> QED
  BY <1>2, <1>3, <1>4, <1>5, <1>6, <1>7 DEF Next, SdkReturns, Quiet

LEMMA RequestsInvariant == Spec => []RequestsInv
BY Invariance, InitRequests, NextRequests, PTL DEF Spec

-----------------------------------------------------------------------------
(* The promise of the tool.                                                *)

\* What shows of a call, before a step and after it.
LEMMA Shown ==
    ASSUME NEW d \in Calls
    PROVE  /\ Phase[d] = IF task[d].pc = "idle" THEN "idle"
                         ELSE IF task[d].pc = "done" THEN "over" ELSE "open"
           /\ Phase'[d] = IF task'[d].pc = "idle" THEN "idle"
                          ELSE IF task'[d].pc = "done" THEN "over" ELSE "open"
           /\ Known[d] = task[d].known /\ Known'[d] = task'[d].known
           /\ Mute[d] = (task[d].reply = "BLANK") /\ Mute'[d] = (task'[d].reply = "BLANK")
           /\ OnWay[d] = {pc \in CancelPcs : InPool(<<d, pc>>)}
           /\ OnWay'[d] = {pc \in CancelPcs : InPool(<<d, pc>>)'}
<1>1. Phase[d] = CASE At(d, "idle") -> "idle" [] At(d, "done") -> "over" [] OTHER -> "open"
  BY DEF Phase
<1>2. Phase'[d] = CASE At(d, "idle")' -> "idle" [] At(d, "done")' -> "over" [] OTHER -> "open"
  BY DEF Phase
<1> QED
  BY <1>1, <1>2 DEF At, Known, Mute, OnWay

\* Two functions that differ at one call at most.
LEMMA Differ ==
    ASSUME NEW f, NEW g, NEW c \in Calls,
           f = [d \in Calls |-> f[d]], g = [d \in Calls |-> g[d]],
           \A d \in Calls \ {c} : g[d] = f[d]
    PROVE  g = [f EXCEPT ![c] = g[c]] /\ (g[c] = f[c] => g = f)
<1> DEFINE h == [f EXCEPT ![c] = g[c]]
<1>1. h = [d \in Calls |-> h[d]]
  OBVIOUS
<1>2. \A d \in Calls : h[d] = g[d]
  OBVIOUS
<1>3. g = h
  <2> HIDE DEF h
  <2> QED
    BY <1>1, <1>2
<1>4. g[c] = f[c] => \A d \in Calls : g[d] = f[d]
  OBVIOUS
<1> QED
  BY <1>3, <1>4

\* What shows changes at the call that moves, and nowhere else.
LEMMA ShownAt ==
    ASSUME NEW c \in Calls, \A d \in Calls \ {c} : task'[d] = task[d],
           \A d \in Calls \ {c} : \A pc \in JobPcs : InPool(<<d, pc>>)' <=> InPool(<<d, pc>>)
    PROVE  /\ Phase' = [Phase EXCEPT ![c] = Phase'[c]] /\ (Phase'[c] = Phase[c] => Phase' = Phase)
           /\ Known' = [Known EXCEPT ![c] = Known'[c]] /\ (Known'[c] = Known[c] => Known' = Known)
           /\ Mute' = [Mute EXCEPT ![c] = Mute'[c]] /\ (Mute'[c] = Mute[c] => Mute' = Mute)
           /\ OnWay' = [OnWay EXCEPT ![c] = OnWay'[c]] /\ (OnWay'[c] = OnWay[c] => OnWay' = OnWay)
<1>1. /\ Phase = [d \in Calls |-> Phase[d]] /\ Phase' = [d \in Calls |-> Phase'[d]]
      /\ Known = [d \in Calls |-> Known[d]] /\ Known' = [d \in Calls |-> Known'[d]]
      /\ Mute = [d \in Calls |-> Mute[d]] /\ Mute' = [d \in Calls |-> Mute'[d]]
      /\ OnWay = [d \in Calls |-> OnWay[d]] /\ OnWay' = [d \in Calls |-> OnWay'[d]]
  BY DEF Phase, Known, Mute, OnWay
<1>2. ASSUME NEW d \in Calls \ {c}
      PROVE  Phase'[d] = Phase[d] /\ Known'[d] = Known[d] /\ Mute'[d] = Mute[d] /\ OnWay'[d] = OnWay[d]
  <2>1. CancelPcs \subseteq JobPcs
    BY DEF CancelPcs, JobPcs
  <2>2. {pc \in CancelPcs : InPool(<<d, pc>>)'} = {pc \in CancelPcs : InPool(<<d, pc>>)}
    BY <2>1
  <2> QED
    BY <2>2, Shown
<1>3. Phase' = [Phase EXCEPT ![c] = Phase'[c]] /\ (Phase'[c] = Phase[c] => Phase' = Phase)
  BY <1>1, <1>2, Differ
<1>4. Known' = [Known EXCEPT ![c] = Known'[c]] /\ (Known'[c] = Known[c] => Known' = Known)
  BY <1>1, <1>2, Differ
<1>5. Mute' = [Mute EXCEPT ![c] = Mute'[c]] /\ (Mute'[c] = Mute[c] => Mute' = Mute)
  BY <1>1, <1>2, Differ
<1>6. OnWay' = [OnWay EXCEPT ![c] = OnWay'[c]] /\ (OnWay'[c] = OnWay[c] => OnWay' = OnWay)
  BY <1>1, <1>2, Differ
<1> QED
  BY <1>3, <1>4, <1>5, <1>6

\* One step of the promise, about one call.
Keeps(c) ==
    \/ Promise!Begin(c) \/ Promise!Create(c) \/ Promise!Finish(c) \/ Promise!Stop(c)
    \/ Promise!Learn(c) \/ Promise!Hear(c)
    \/ \E pc \in CancelPcs : Promise!Ask(c, pc) \/ Promise!Accept(c, pc) \/ Promise!Fail(c, pc)
    \/ \E r \in Seen, o \in {"success", "error", "timeout", "cancelled"} : Promise!Answer(c, r, o)

LEMMA KeepsIsNext ==
    ASSUME NEW c \in Calls, Keeps(c)
    PROVE  Promise!Next
<1>1. CancelPcs = Promise!Occasions
  BY DEF CancelPcs, Promise!Occasions
<1>2. Seen = Promise!Terminal \cup {"none", "RUNNING", "NO_ID", "BLANK"}
  BY DEF Seen, Terminal, Promise!Terminal
<1>3. {"success", "error", "timeout", "cancelled"} = Promise!Outcomes
  BY DEF Promise!Outcomes
<1> QED
  BY <1>1, <1>2, <1>3 DEF Keeps, Promise!Next

\* What a call takes along of its statement's id.
LEMMA KnownMoves ==
    ASSUME NEW c \in Calls, NEW t, t.known = task[c].known \/ (t.known /\ stmt[c] # "none"),
           t.known \in BOOLEAN, Known' = [Known EXCEPT ![c] = Known'[c]],
           Known'[c] = Known[c] => Known' = Known,
           Known'[c] = t.known
    PROVE  Promise!Learns(c)
<1>1. CASE t.known = task[c].known
  <2>1. Known' = Known
    BY <1>1, Shown
  <2> QED
    BY <2>1 DEF Promise!Learns
<1>2. CASE t.known /\ stmt[c] # "none"
  <2>1. Known'[c] = TRUE
    BY <1>2
  <2>2. Known' = [Known EXCEPT ![c] = TRUE]
    BY <2>1
  <2> QED
    BY <1>2, <2>2 DEF Promise!Learns
<1> QED
  BY <1>1, <1>2

\* A call that goes on begins, or hears something.
LEMMA GoesOnKeeps ==
    ASSUME TypeOK, NEW c \in Calls, RequestInv(c), NEW t, Stretch(c, t), GoesOn(c)
    PROVE  Keeps(c)
<1>1. PICK pc \in JobPcs \ CancelPcs : AwaitThread(c, task[c], pc)
  BY DEF GoesOn
<1>2. UNCHANGED <<running, stmt, cancelReq, record, outcome>> /\ NoRequest(c) /\ task[c].pc # "done"
      /\ task[c] \in Task
  BY DEF GoesOn, Stretch, TypeOK
<1>3. /\ task' \in [Calls -> Task] /\ queue' \in Seq(Jobs)
      /\ task'[c] = [task[c] EXCEPT !.pc = pc, !.reply = "pending"]
      /\ \A d \in Calls \ {c} : task'[d] = task[d]
      /\ InPool(<<c, pc>>)'
      /\ \A p \in JobPcs \ {pc} : InPool(<<c, p>>)' => InPool(<<c, p>>)
  BY <1>1, <1>2, Awaits
<1>4. task'[c].pc = pc /\ task'[c].reply = "pending" /\ task'[c].known = task[c].known
  BY <1>2, <1>3 DEF Task
<1>5. \A d \in Calls \ {c} : \A p \in JobPcs : InPool(<<d, p>>)' <=> InPool(<<d, p>>)
  BY <1>1, <1>2, OtherJobs DEF AwaitThread
<1>6. OnWay'[c] = OnWay[c]
  <2>1. \A p \in CancelPcs : ~InPool(<<c, p>>)' /\ ~InPool(<<c, p>>)
    BY <1>2, <1>3 DEF NoRequest, CancelPcs, JobPcs
  <2> QED
    BY <2>1, Shown
<1>7. /\ Phase' = [Phase EXCEPT ![c] = Phase'[c]] /\ (Phase'[c] = Phase[c] => Phase' = Phase)
      /\ Mute' = [Mute EXCEPT ![c] = Mute'[c]] /\ (Mute'[c] = Mute[c] => Mute' = Mute)
      /\ Known' = Known /\ OnWay' = OnWay
  <2>1. Known'[c] = Known[c]
    BY <1>4, Shown
  <2> QED
    BY <1>3, <1>5, <1>6, <2>1, ShownAt
<1>8. Phase'[c] = "open" /\ Mute'[c] = FALSE
  BY <1>4, Shown DEF JobPcs
<1>9. CASE task[c].pc = "idle"
  <2>1. Phase[c] = "idle" /\ Mute[c] = FALSE
    BY <1>9, Shown DEF RequestInv, At
  <2>2. Promise!Begin(c)
    BY <1>2, <1>7, <1>8, <2>1 DEF Promise!Begin
  <2> QED
    BY <2>2 DEF Keeps
<1>10. CASE task[c].pc # "idle"
  <2>1. Phase[c] = "open"
    BY <1>2, <1>10, Shown
  <2>2. Promise!Hear(c)
    BY <1>2, <1>7, <1>8, <2>1 DEF Promise!Hear
  <2> QED
    BY <2>2 DEF Keeps
<1> QED
  BY <1>9, <1>10

LEMMA SleepsKeeps ==
    ASSUME TypeOK, NEW c \in Calls, NEW t, Stretch(c, t), Sleeps(c, t)
    PROVE  Keeps(c)
<1> DEFINE x == [t EXCEPT !.pc = "sleeping", !.reply = "pending"]
<1>1. t \in Task /\ t.reply = task[c].reply /\ t.reply # "BLANK" /\ task[c].pc \notin {"idle", "done"}
      /\ UNCHANGED <<queue, running, stmt, cancelReq, record, outcome>>
      /\ (t.known = task[c].known \/ (t.known /\ stmt[c] # "none")) /\ t.known \in BOOLEAN
  BY DEF Sleeps, Stretch, Task
<1>2. x.pc = "sleeping" /\ x.reply = "pending" /\ x.known = t.known /\ task' = [task EXCEPT ![c] = x]
  BY <1>1 DEF Sleeps, Task
<1>3. task \in [Calls -> Task]
  BY DEF TypeOK
<1> HIDE DEF x
<1>4. /\ task'[c].pc = "sleeping" /\ task'[c].reply = "pending" /\ task'[c].known = t.known
      /\ \A d \in Calls \ {c} : task'[d] = task[d]
  BY <1>2, <1>3
<1>5. \A job : InPool(job)' <=> InPool(job)
  BY <1>1 DEF InPool
<1>6. Phase[c] = "open" /\ Phase'[c] = "open" /\ Mute[c] = FALSE /\ Mute'[c] = FALSE
      /\ OnWay'[c] = OnWay[c] /\ Known'[c] = t.known
  BY <1>1, <1>4, <1>5, Shown
<1>7. /\ Phase' = Phase /\ Mute' = Mute /\ OnWay' = OnWay
      /\ Known' = [Known EXCEPT ![c] = Known'[c]] /\ (Known'[c] = Known[c] => Known' = Known)
  BY <1>4, <1>5, <1>6, ShownAt
<1>8. Promise!Learns(c)
  BY <1>1, <1>6, <1>7, KnownMoves
<1>9. Promise!Learn(c)
  BY <1>1, <1>6, <1>7, <1>8 DEF Promise!Learn
<1> QED
  BY <1>9 DEF Keeps

\* A call that asks: what was on the way has left for a thread, or is replaced.
LEMMA AsksKeeps ==
    ASSUME TypeOK, NEW c \in Calls, NEW t, Stretch(c, t), Asks(c, t)
    PROVE  Keeps(c)
<1>1. PICK pc \in CancelPcs : AsksBy(c, t, pc)
  BY DEF Asks
<1>2. t \in Task /\ task[c].pc \notin {"idle", "done"} /\ t.known
      /\ UNCHANGED <<running, stmt, record, outcome>>
      /\ (t.known = task[c].known \/ (t.known /\ stmt[c] # "none")) /\ t.known \in BOOLEAN
      /\ pc \in JobPcs /\ AwaitThread(c, t, pc)
      /\ cancelReq' = [cancelReq EXCEPT ![c] = "asked"]
      /\ \A p \in CancelPcs : InPool(<<c, p>>) => p = "expiring" /\ pc = "aborting"
  BY <1>1 DEF AsksBy, Stretch, Task, CancelPcs, JobPcs
<1>3. /\ task' \in [Calls -> Task] /\ queue' \in Seq(Jobs)
      /\ task'[c] = [t EXCEPT !.pc = pc, !.reply = "pending"]
      /\ \A d \in Calls \ {c} : task'[d] = task[d]
      /\ InPool(<<c, pc>>)'
      /\ \A p \in JobPcs \ {pc} : InPool(<<c, p>>)' => InPool(<<c, p>>)
  BY <1>2, Awaits
<1>4. task'[c].pc = pc /\ task'[c].reply = "pending" /\ task'[c].known = t.known
  <2>1. t \in Task /\ task'[c] = [t EXCEPT !.pc = pc, !.reply = "pending"]
    BY <1>2, <1>3
  <2> QED
    BY <2>1 DEF Task
<1>5. \A d \in Calls \ {c} : \A p \in JobPcs : InPool(<<d, p>>)' <=> InPool(<<d, p>>)
  BY <1>2, OtherJobs DEF AwaitThread
<1>6. Phase[c] = "open" /\ Phase'[c] = "open" /\ Mute'[c] = FALSE /\ Known'[c] = t.known
  BY <1>2, <1>4, Shown DEF JobPcs
<1>7. /\ Phase' = Phase /\ Mute' = [Mute EXCEPT ![c] = FALSE]
      /\ OnWay' = [OnWay EXCEPT ![c] = OnWay'[c]]
      /\ Known' = [Known EXCEPT ![c] = Known'[c]] /\ (Known'[c] = Known[c] => Known' = Known)
  BY <1>3, <1>5, <1>6, ShownAt
<1>8. Promise!Learns(c)
  BY <1>2, <1>6, <1>7, KnownMoves
<1>9. OnWay'[c] \in {kept \cup {pc} : kept \in {{}, OnWay[c]}}
  <2>1. OnWay[c] = {p \in CancelPcs : InPool(<<c, p>>)} /\ OnWay'[c] = {p \in CancelPcs : InPool(<<c, p>>)'}
    BY Shown
  <2>2. OnWay[c] \subseteq {"expiring"} /\ (OnWay[c] # {} => pc = "aborting")
    BY <1>2, <2>1
  <2>3. pc \in OnWay'[c] /\ \A p \in OnWay'[c] : p = pc \/ p \in OnWay[c]
    BY <1>2, <1>3, <2>1 DEF CancelPcs, JobPcs
  <2>4. OnWay'[c] = {pc} \/ OnWay'[c] = OnWay[c] \cup {pc}
    BY <2>2, <2>3
  <2> QED
    BY <2>4
<1>10. OnWay' \in {[OnWay EXCEPT ![c] = kept \cup {pc}] : kept \in {{}, OnWay[c]}}
  BY <1>7, <1>9
<1>11. Promise!Ask(c, pc)
  BY <1>2, <1>6, <1>7, <1>8, <1>10 DEF Promise!Ask
<1> QED
  BY <1>11 DEF Keeps

\* A call that leaves answers: with the truth, and with account of a statement
\* that runs on.
LEMMA LeavesKeeps ==
    ASSUME IInv, IInv', NEW c \in Calls, NEW t, Stretch(c, t), Leaves(c, t)
    PROVE  Keeps(c)
<1> DEFINE x == [t EXCEPT !.pc = "done"]
<1>1. PICK r \in Seen, o \in {"success", "error", "timeout", "cancelled"} : LeavesWith(c, t, r, o)
  BY DEF Leaves
<1>2. TypeOK /\ task \in [Calls -> Task] /\ queue \in Seq(Jobs)
      /\ record \in [Calls -> Seen]
      /\ outcome \in [Calls -> {"none", "success", "error", "timeout", "cancelled"}]
  BY IInvByCall DEF TypeOK
<1>3. t \in Task /\ t.reply = task[c].reply /\ task[c].pc # "done" /\ UNCHANGED <<running, stmt>>
      /\ (t.known = task[c].known \/ (t.known /\ stmt[c] # "none")) /\ t.known \in BOOLEAN
  BY DEF Stretch, Task
<1>4. /\ task' = [task EXCEPT ![c] = x] /\ queue' = Withdraw(c)
      /\ record' = [record EXCEPT ![c] = r] /\ outcome' = [outcome EXCEPT ![c] = o]
      /\ t.known => r # "none"
  BY <1>1 DEF LeavesWith, Leave
<1>5. x.pc = "done" /\ x.reply = t.reply /\ x.known = t.known
  BY <1>3 DEF Task
<1> HIDE DEF x
<1>6. /\ task'[c].pc = "done" /\ task'[c].reply = task[c].reply /\ task'[c].known = t.known
      /\ \A d \in Calls \ {c} : task'[d] = task[d]
  BY <1>2, <1>3, <1>4, <1>5
<1>7. \A d \in Calls \ {c} : \A p \in JobPcs : InPool(<<d, p>>)' <=> InPool(<<d, p>>)
  BY <1>2, <1>3, <1>4, OtherJobs
<1>8. Phase[c] \in {"idle", "open"} /\ Phase'[c] = "over" /\ Mute'[c] = Mute[c] /\ Known'[c] = t.known
  BY <1>3, <1>6, Shown
<1>9. /\ Phase' = [Phase EXCEPT ![c] = "over"] /\ Mute' = Mute
      /\ OnWay' = [OnWay EXCEPT ![c] = OnWay'[c]] /\ (OnWay'[c] = OnWay[c] => OnWay' = OnWay)
      /\ Known' = [Known EXCEPT ![c] = Known'[c]] /\ (Known'[c] = Known[c] => Known' = Known)
  BY <1>6, <1>7, <1>8, ShownAt
<1>10. Promise!Learns(c)
  BY <1>3, <1>8, <1>9, KnownMoves
<1>11. /\ \A e : Contains(queue', e) => Contains(queue, e)
       /\ \A e : Contains(queue, e) /\ e # <<c, task[c].pc>> => Contains(queue', e)
  BY <1>2, <1>4, Removed DEF Withdraw
<1>12. OnWay'[c] \subseteq OnWay[c]
  <2>1. \A p \in CancelPcs : InPool(<<c, p>>)' => InPool(<<c, p>>)
    BY <1>3, <1>11 DEF InPool
  <2> QED
    BY <2>1, Shown
<1>13. Promise!Leaves(c)
  <2>1. CASE /\ NoRequest(c) \/ ~Contains(queue, <<c, task[c].pc>>) \/ task[c].pc \notin CancelPcs
             /\ UNCHANGED cancelReq
    <3>1. \A p \in CancelPcs : InPool(<<c, p>>) => InPool(<<c, p>>)'
      <4>1. SUFFICES ASSUME NEW p \in CancelPcs, InPool(<<c, p>>) PROVE InPool(<<c, p>>)'
        OBVIOUS
      <4>2. CASE <<c, p>> \in running
        BY <1>3, <4>2 DEF InPool
      <4>3. CASE Contains(queue, <<c, p>>)
        <5>1. <<c, p>> # <<c, task[c].pc>>
          BY <2>1, <4>1, <4>3 DEF NoRequest
        <5> QED
          BY <1>11, <4>3, <5>1 DEF InPool
      <4> QED
        BY <4>1, <4>2, <4>3 DEF InPool
    <3>2. OnWay'[c] = OnWay[c]
      BY <1>12, <3>1, Shown
    <3> QED
      BY <1>9, <2>1, <3>2 DEF Promise!Leaves
  <2>2. CASE /\ task[c].pc \in CancelPcs /\ Contains(queue, <<c, task[c].pc>>)
             /\ cancelReq' = [cancelReq EXCEPT ![c] = "dropped"]
    <3>1. OnWay[c] # {}
      BY <2>2, Shown DEF InPool
    <3>2. OnWay' \in {[OnWay EXCEPT ![c] = kept] : kept \in SUBSET OnWay[c]}
      BY <1>9, <1>12
    <3> QED
      BY <2>2, <3>1, <3>2 DEF Promise!Leaves
  <2> QED
    BY <1>1, <2>1, <2>2 DEF LeavesWith
<1>14. Accounted(c)' /\ RecordTrue(c)' /\ PhaseInv(c)'
  BY IInvByCall DEF CallInv
<1>15. Promise!MayLeave(c)
  <2>1. SUFFICES ASSUME stmt[c] = "RUNNING", Known'[c]
                 PROVE  OnWay'[c] # {} \/ cancelReq'[c] \in {"refused", "dropped"} \/ Mute[c]
    BY DEF Promise!MayLeave
  <2>2. CancelPending(c)' \/ cancelReq'[c] \in {"refused", "dropped"} \/ task'[c].reply = "BLANK"
    BY <1>3, <1>6, <1>8, <1>14, <2>1 DEF Accounted, At
  <2>3. CASE CancelPending(c)'
    <3>1. PICK p \in CancelPcs : InPool(<<c, p>>)'
      BY <2>3 DEF CancelPending
    <3>2. p \in OnWay'[c]
      BY <3>1, Shown
    <3> QED
      BY <3>2
  <2>4. CASE task'[c].reply = "BLANK"
    BY <1>6, <2>4, Shown
  <2> QED
    BY <2>2, <2>3, <2>4
<1>16. record'[c] = r /\ outcome'[c] = o
  BY <1>2, <1>4
<1>17. (r \in Promise!Terminal => stmt[c] = r) /\ (o = "success" => stmt[c] = "SUCCEEDED")
  BY <1>3, <1>14, <1>16 DEF RecordTrue, Terminal, Promise!Terminal
<1>18. Known'[c] => r # "none"
  BY <1>4, <1>8
<1>19. Promise!Answer(c, r, o)
  BY <1>3, <1>4, <1>8, <1>9, <1>10, <1>13, <1>15, <1>17, <1>18 DEF Promise!Answer
<1> QED
  BY <1>19 DEF Keeps

LEMMA CoroutineKeeps ==
    ASSUME IInv, IInv', RequestsInv, NEW c \in Calls,
           Coroutine(c) \/ TimerFires(c) \/ ExternalCancel(c)
    PROVE  Keeps(c)
<1>1. PICK t : Stretch(c, t)
  BY CoroutineStretch
<1>2. TypeOK /\ RequestInv(c)
  BY DEF IInv, RequestsInv
<1> QED
  BY <1>1, <1>2, GoesOnKeeps, SleepsKeeps, AsksKeeps, LeavesKeeps DEF Stretch

\* The threads: what they read a call hears, and a request is accepted or fails.
LEMMA ThreadKeeps ==
    ASSUME TypeOK, RequestsInv, NEW c \in Calls, NEW pc \in JobPcs, NEW result,
           ThreadEnds(c, pc, result), pc \in CancelPcs => result = "ok" /\ CancelReturns(c, pc),
           pc \notin CancelPcs => UNCHANGED <<stmt, cancelReq>>,
           result = "BLANK" => c \in OddReplies
    PROVE  Keeps(c) \/ UNCHANGED <<Phase, stmt, Known, Mute, OnWay, cancelReq, record, outcome>>
<1>1. /\ <<c, pc>> \in running /\ running' = running \ {<<c, pc>>}
      /\ task' = IF At(c, pc) THEN [task EXCEPT ![c].reply = result] ELSE task
      /\ UNCHANGED <<queue, record, outcome>> /\ task \in [Calls -> Task]
  BY DEF ThreadEnds, TypeOK
<1>2. /\ \A d \in Calls \ {c} : task'[d] = task[d]
      /\ task'[c].pc = task[c].pc /\ task'[c].known = task[c].known
      /\ task'[c].reply = IF At(c, pc) THEN result ELSE task[c].reply
  BY <1>1 DEF Task
<1>3. /\ \A d \in Calls \ {c} : \A p \in JobPcs : InPool(<<d, p>>)' <=> InPool(<<d, p>>)
      /\ \A p \in JobPcs \ {pc} : InPool(<<c, p>>)' <=> InPool(<<c, p>>)
  BY <1>1 DEF InPool
<1>4. Phase'[c] = Phase[c] /\ Known'[c] = Known[c]
  BY <1>2, Shown
<1>5. /\ Phase' = Phase /\ Known' = Known
      /\ Mute' = [Mute EXCEPT ![c] = Mute'[c]] /\ (Mute'[c] = Mute[c] => Mute' = Mute)
      /\ OnWay' = [OnWay EXCEPT ![c] = OnWay'[c]] /\ (OnWay'[c] = OnWay[c] => OnWay' = OnWay)
  BY <1>2, <1>3, <1>4, ShownAt
<1>6. RequestInv(c)
  BY DEF RequestsInv
<1>7. CASE pc \notin CancelPcs
  <2>1. OnWay'[c] = OnWay[c]
    <3>1. \A p \in CancelPcs : InPool(<<c, p>>)' <=> InPool(<<c, p>>)
      BY <1>3, <1>7 DEF CancelPcs, JobPcs
    <3>2. {p \in CancelPcs : InPool(<<c, p>>)'} = {p \in CancelPcs : InPool(<<c, p>>)}
      BY <3>1
    <3> QED
      BY <3>2, Shown
  <2>2. CASE At(c, pc)
    <3>1. Phase[c] = "open"
      BY <2>2, Shown DEF At, JobPcs
    <3>2. Mute'[c] \in {FALSE, (c \in OddReplies)}
      BY <1>2, <2>2, Shown
    <3>3. Mute' \in {[Mute EXCEPT ![c] = b] : b \in {FALSE, (c \in OddReplies)}}
      BY <1>5, <3>2
    <3>4. Promise!Hear(c)
      BY <1>1, <1>5, <1>7, <2>1, <3>1, <3>3 DEF Promise!Hear
    <3> QED
      BY <3>4 DEF Keeps
  <2>3. CASE ~At(c, pc)
    <3>1. Mute'[c] = Mute[c]
      BY <1>2, <2>3, Shown
    <3> QED
      BY <1>1, <1>5, <1>7, <2>1, <3>1
  <2> QED
    BY <2>2, <2>3
<1>8. CASE pc \in CancelPcs
  <2>1. ~InPool(<<c, pc>>)' /\ InPool(<<c, pc>>)
    BY <1>1, <1>6, <1>8 DEF RequestInv, Once, InPool
  <2>2. OnWay'[c] = OnWay[c] \ {pc} /\ pc \in OnWay[c]
    <3>1. OnWay[c] = {p \in CancelPcs : InPool(<<c, p>>)} /\ OnWay'[c] = {p \in CancelPcs : InPool(<<c, p>>)'}
      BY Shown
    <3>2. \A p \in CancelPcs : InPool(<<c, p>>)' <=> InPool(<<c, p>>) /\ p # pc
      BY <1>3, <2>1 DEF CancelPcs, JobPcs
    <3> QED
      BY <1>8, <2>1, <3>1, <3>2
  <2>3. Mute' = Mute
    <3>1. At(c, pc) => task[c].reply # "BLANK"
      BY <1>6, <1>8 DEF RequestInv
    <3>2. result # "BLANK"
      BY <1>8
    <3>3. Mute'[c] = Mute[c]
      BY <1>2, <3>1, <3>2, Shown
    <3> QED
      BY <1>5, <3>3
  <2>4. OnWay' = [OnWay EXCEPT ![c] = @ \ {pc}]
    BY <1>5, <2>2
  <2>5. CASE /\ stmt' = [stmt EXCEPT ![c] = IF @ = "RUNNING" THEN "CANCELING" ELSE @]
             /\ cancelReq' = [cancelReq EXCEPT ![c] = "sent"]
    <3>1. Promise!Accept(c, pc)
      BY <1>1, <1>5, <2>2, <2>3, <2>4, <2>5 DEF Promise!Accept
    <3> QED
      BY <1>8, <3>1 DEF Keeps
  <2>6. CASE cancelReq' = [cancelReq EXCEPT ![c] = "refused"] /\ UNCHANGED stmt
    <3>1. Promise!Fail(c, pc)
      BY <1>1, <1>5, <2>2, <2>3, <2>4, <2>6 DEF Promise!Fail
    <3> QED
      BY <1>8, <3>1 DEF Keeps
  <2> QED
    BY <1>8, <2>5, <2>6 DEF CancelReturns
<1> QED
  BY <1>7, <1>8

LEMMA SdkKeeps ==
    ASSUME IInv, RequestsInv, NEW c \in Calls,
           \/ ResolveReturns(c) \/ SubmitReturns(c)
           \/ \E p \in JobPcs : GetReturns(c, p) \/ CancelReturns(c, p)
    PROVE  Keeps(c) \/ UNCHANGED <<Phase, stmt, Known, Mute, OnWay, cancelReq, record, outcome>>
<1>1. TypeOK /\ stmt[c] \in StmtStates
  BY DEF IInv, TypeOK
<1>2. Reported(stmt[c]) # "BLANK" /\ ("BLANK" \in OddOnes(c) => c \in OddReplies)
  BY <1>1 DEF Reported, StmtStates, Terminal, OddOnes
<1>3. CASE ResolveReturns(c)
  <2>1. PICK result \in {"ok", "unavailable"} \cup (IF c \in SdkFaults THEN {"error"} ELSE {}) :
           ThreadEnds(c, "resolving", result)
    BY <1>3 DEF ResolveReturns
  <2>2. result # "BLANK" /\ "resolving" \in JobPcs /\ "resolving" \notin CancelPcs
        /\ UNCHANGED <<stmt, cancelReq>>
    BY <1>3 DEF JobPcs, CancelPcs, ResolveReturns
  <2> QED
    BY <1>1, <2>1, <2>2, ThreadKeeps
<1>4. CASE SubmitReturns(c)
  <2>1. PICK result : ThreadEnds(c, "submitting", result) /\ (result = "BLANK" => c \in OddReplies)
    BY <1>2, <1>4 DEF SubmitReturns
  <2>2. "submitting" \in JobPcs /\ "submitting" \notin CancelPcs /\ UNCHANGED <<stmt, cancelReq>>
    BY <1>4 DEF JobPcs, CancelPcs, SubmitReturns
  <2> QED
    BY <1>1, <2>1, <2>2, ThreadKeeps
<1>5. ASSUME NEW p \in JobPcs, GetReturns(c, p)
      PROVE  Keeps(c) \/ UNCHANGED <<Phase, stmt, Known, Mute, OnWay, cancelReq, record, outcome>>
  <2>1. PICK result : ThreadEnds(c, p, result) /\ (result = "BLANK" => c \in OddReplies)
    BY <1>2, <1>5 DEF GetReturns
  <2>2. p \notin CancelPcs /\ UNCHANGED <<stmt, cancelReq>>
    BY <1>5 DEF CancelPcs, GetReturns
  <2> QED
    BY <1>1, <2>1, <2>2, ThreadKeeps
<1>6. ASSUME NEW p \in JobPcs, CancelReturns(c, p)
      PROVE  Keeps(c) \/ UNCHANGED <<Phase, stmt, Known, Mute, OnWay, cancelReq, record, outcome>>
  <2>1. ThreadEnds(c, p, "ok") /\ p \in CancelPcs
    BY <1>6 DEF CancelReturns
  <2> QED
    BY <1>1, <1>6, <2>1, ThreadKeeps
<1> QED
  BY <1>3, <1>4, <1>5, <1>6

\* The workspace does what the promise says of it; a statement is created by a
\* job of a call that has begun.
LEMMA WorkspaceKeeps ==
    ASSUME RequestsInv, NEW c \in Calls,
           StatementCreated(c) \/ QueryEnds(c) \/ CancellationEnds(c)
    PROVE  Keeps(c)
<1>1. UNCHANGED <<task, queue, running, cancelReq, record, outcome>>
  BY DEF StatementCreated, QueryEnds, CancellationEnds
<1>2. UNCHANGED <<Phase, Known, Mute, OnWay>>
  BY <1>1 DEF Phase, Known, Mute, OnWay, At, InPool
<1>3. CASE StatementCreated(c)
  <2>1. <<c, "submitting">> \in running /\ RequestInv(c) /\ "submitting" \in JobPcs
    BY <1>3 DEF StatementCreated, RequestsInv, JobPcs
  <2>2. Phase[c] # "idle"
    BY <2>1, Shown DEF RequestInv, At, InPool
  <2>3. Promise!Create(c)
    BY <1>1, <1>2, <1>3, <2>2 DEF StatementCreated, Promise!Create
  <2> QED
    BY <2>3 DEF Keeps
<1>4. CASE QueryEnds(c)
  <2>1. Promise!Finish(c)
    BY <1>1, <1>2, <1>4 DEF QueryEnds, Promise!Finish
  <2> QED
    BY <2>1 DEF Keeps
<1>5. CASE CancellationEnds(c)
  <2>1. Promise!Stop(c)
    BY <1>1, <1>2, <1>5 DEF CancellationEnds, Promise!Stop, Terminal, Promise!Terminal
  <2> QED
    BY <2>1 DEF Keeps
<1> QED
  BY <1>3, <1>4, <1>5

\* A thread that takes a job, time that passes and rest show nothing.
LEMMA HiddenSteps ==
    ASSUME TypeOK, ThreadTakes \/ (\E c \in Calls : DeadlinePasses(c)) \/ UNCHANGED vars
    PROVE  UNCHANGED <<Phase, stmt, Known, Mute, OnWay, cancelReq, record, outcome>>
<1>1. UNCHANGED <<stmt, cancelReq, record, outcome>>
  BY DEF ThreadTakes, DeadlinePasses, vars
<1>2. \A job : InPool(job)' <=> InPool(job)
  <2>1. CASE ThreadTakes
    <3>1. queue \in Seq(Jobs) /\ queue # <<>> /\ running' = running \cup {Head(queue)} /\ queue' = Tail(queue)
      BY <2>1 DEF ThreadTakes, TypeOK
    <3>2. \A e : Contains(queue, e) <=> e = Head(queue) \/ Contains(queue', e)
      BY <3>1, Taken
    <3> QED
      BY <3>1, <3>2 DEF InPool
  <2>2. CASE (\E c \in Calls : DeadlinePasses(c)) \/ UNCHANGED vars
    BY <2>2 DEF DeadlinePasses, vars, InPool
  <2> QED
    BY <2>1, <2>2
<1>3. ASSUME NEW d \in Calls
      PROVE  task'[d].pc = task[d].pc /\ task'[d].reply = task[d].reply /\ task'[d].known = task[d].known
  <2>1. CASE ThreadTakes \/ UNCHANGED vars
    BY <2>1 DEF ThreadTakes, vars
  <2>2. ASSUME NEW c \in Calls, DeadlinePasses(c)
        PROVE  task'[d].pc = task[d].pc /\ task'[d].reply = task[d].reply /\ task'[d].known = task[d].known
    <3>1. task \in [Calls -> Task] /\ task' = [task EXCEPT ![c].due = TRUE]
      BY <2>2 DEF DeadlinePasses, TypeOK
    <3> QED
      BY <3>1 DEF Task
  <2> QED
    BY <2>1, <2>2
<1>4. Phase' = Phase
  BY <1>3 DEF Phase, At
<1>5. Known' = Known /\ Mute' = Mute
  BY <1>3 DEF Known, Mute
<1>6. OnWay' = OnWay
  BY <1>2 DEF OnWay
<1> QED
  BY <1>1, <1>4, <1>5, <1>6

LEMMA InitKeeps == Init => Promise!Init
<1> SUFFICES ASSUME Init PROVE Promise!Init
  OBVIOUS
<1>1. \A c \in Calls : /\ task[c].pc = "idle" /\ task[c].known = FALSE
                        /\ (task[c].reply = "BLANK") = FALSE
  BY DEF Init
<1>2. queue = <<>> /\ running = {} /\ Len(queue) = 0
  BY EmptySeq DEF Init
<1>3. \A job : ~InPool(job)
  BY <1>2 DEF InPool, Contains
<1>4. Phase = [c \in Calls |-> "idle"]
  BY <1>1 DEF Phase, At
<1>5. Known = [c \in Calls |-> FALSE] /\ Mute = [c \in Calls |-> FALSE]
  BY <1>1 DEF Known, Mute
<1>6. OnWay = [c \in Calls |-> {}]
  BY <1>3 DEF OnWay
<1> QED
  BY <1>4, <1>5, <1>6 DEF Init, Promise!Init

\* Every step of the tool is one of the promise, or shows nothing.
LEMMA StepKeeps ==
    IInv /\ IInv' /\ RequestsInv /\ [Next]_vars => [Promise!Next]_(Promise!vars)
<1> SUFFICES ASSUME IInv, IInv', RequestsInv, [Next]_vars PROVE [Promise!Next]_(Promise!vars)
  OBVIOUS
<1> DEFINE Still == UNCHANGED <<Phase, stmt, Known, Mute, OnWay, cancelReq, record, outcome>>
<1>1. TypeOK
  BY DEF IInv
<1>2. ASSUME NEW c \in Calls, Keeps(c) PROVE Promise!Next
  BY <1>2, KeepsIsNext
<1>3. Still => UNCHANGED Promise!vars
  BY DEF Promise!vars
<1>4. CASE ThreadTakes \/ UNCHANGED vars
  BY <1>1, <1>3, <1>4, HiddenSteps
<1>5. ASSUME NEW c \in Calls, Coroutine(c) \/ TimerFires(c) \/ ExternalCancel(c)
      PROVE  [Promise!Next]_(Promise!vars)
  BY <1>2, <1>5, CoroutineKeeps
<1>6. ASSUME NEW c \in Calls, DeadlinePasses(c) PROVE [Promise!Next]_(Promise!vars)
  BY <1>1, <1>3, <1>6, HiddenSteps
<1>7. ASSUME NEW c \in Calls, \/ ResolveReturns(c) \/ SubmitReturns(c)
                              \/ \E p \in JobPcs : GetReturns(c, p) \/ CancelReturns(c, p)
      PROVE  [Promise!Next]_(Promise!vars)
  <2>1. Keeps(c) \/ Still
    BY <1>7, SdkKeeps
  <2> HIDE DEF Still
  <2> QED
    BY <1>2, <1>3, <2>1
<1>8. ASSUME NEW c \in Calls, StatementCreated(c) \/ QueryEnds(c) \/ CancellationEnds(c)
      PROVE  [Promise!Next]_(Promise!vars)
  BY <1>2, <1>8, WorkspaceKeeps
<1> QED
  BY <1>4, <1>5, <1>6, <1>7, <1>8 DEF Next, SdkReturns, Quiet

\* The tool keeps its promise, for any number of calls, threads, cancellations and
\* SDK failures: each call gets one true answer; its statement is created once and
\* cancelled by nobody else, after its id is known; and a request to cancel, once
\* made, is carried out, has failed, or was dropped by the call that made it.
THEOREM ToolCallCorrect == Spec => ImplementsToolCall
BY Invariance, RequestsInvariant, InitKeeps, StepKeeps, PTL DEF Spec, ImplementsToolCall, Promise!Spec
=============================================================================
