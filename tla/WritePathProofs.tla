--------------------------- MODULE WritePathProofs ---------------------------
(***************************************************************************)
(* Proofs about WritePath, for any writes, any number of workers and any   *)
(* size of the deduplicators.                                              *)
(***************************************************************************)
EXTENDS WritePath, FiniteSetTheorems, SequenceTheorems, TLAPS

(* What the operations on sequences do to their contents.                  *)

LEMMA AppendKeeps ==
    ASSUME NEW T, NEW s \in Seq(T), NEW x \in T
    PROVE  /\ Append(s, x) \in Seq(T)
           /\ \A e : Contains(Append(s, x), e) <=> Contains(s, e) \/ e = x
<1>1. /\ Append(s, x) \in Seq(T) /\ Len(s) \in Nat /\ Len(Append(s, x)) = Len(s) + 1
      /\ \A k \in 1..Len(s) : Append(s, x)[k] = s[k]
      /\ Append(s, x)[Len(s) + 1] = x
  OBVIOUS
<1>2. ASSUME NEW e PROVE Contains(Append(s, x), e) <=> Contains(s, e) \/ e = x
  BY <1>1 DEF Contains
<1>3. QED
  BY <1>1, <1>2

LEMMA HeadTailKeep ==
    ASSUME NEW T, NEW s \in Seq(T), s # <<>>
    PROVE  /\ Head(s) \in T /\ Tail(s) \in Seq(T)
           /\ \A e : Contains(s, e) <=> Contains(Tail(s), e) \/ e = Head(s)
<1>1. /\ Len(s) \in Nat \ {0} /\ Head(s) = s[1] /\ Head(s) \in T
      /\ Tail(s) \in Seq(T) /\ Len(Tail(s)) = Len(s) - 1
      /\ \A k \in 1..(Len(s) - 1) : Tail(s)[k] = s[k + 1]
  OBVIOUS
<1>2. ASSUME NEW e PROVE Contains(s, e) => Contains(Tail(s), e) \/ e = Head(s)
  <2>1. ASSUME NEW k \in 1..Len(s), s[k] = e, k # 1 PROVE Contains(Tail(s), e)
    <3>1. k - 1 \in 1..Len(Tail(s)) /\ Tail(s)[k - 1] = e
      BY <1>1, <2>1
    <3>2. QED
      BY <3>1 DEF Contains
  <2>2. QED
    BY <1>1, <2>1 DEF Contains
<1>3. ASSUME NEW e PROVE Contains(Tail(s), e) \/ e = Head(s) => Contains(s, e)
  BY <1>1 DEF Contains
<1>4. QED
  BY <1>1, <1>2, <1>3

\* What is left when the entry at i is removed.
LEMMA RemoveAtPoints ==
    ASSUME NEW T, NEW s \in Seq(T), NEW i \in 1..Len(s)
    PROVE  /\ RemoveAt(s, i) \in Seq(T) /\ Len(RemoveAt(s, i)) = Len(s) - 1
           /\ \A k \in 1..(i - 1) : RemoveAt(s, i)[k] = s[k]
           /\ \A k \in i..(Len(s) - 1) : RemoveAt(s, i)[k] = s[k + 1]
<1> DEFINE r == RemoveAt(s, i)
<1>1. Len(s) \in Nat /\ i \in Nat
  OBVIOUS
<1> DEFINE front == SubSeq(s, 1, i - 1)
           back == SubSeq(s, i + 1, Len(s))
<1>2. /\ r \in Seq(T) /\ Len(r) = Len(s) - 1
      /\ \A k \in 1..(i - 1) : r[k] = s[k]
      /\ \A k \in i..(Len(s) - 1) : r[k] = s[k + 1]
  <2>1. /\ front \in Seq(T) /\ Len(front) = i - 1
        /\ \A k \in 1..(i - 1) : front[k] = s[k]
    BY <1>1, SubSeqProperties
  <2>2. /\ back \in Seq(T) /\ Len(back) = Len(s) - i
        /\ \A k \in 1..(Len(s) - i) : back[k] = s[i + k]
    BY <1>1, SubSeqProperties
  <2>3. r = front \o back
    BY DEF RemoveAt
  <2> HIDE DEF r, front, back
  <2>4. /\ r \in Seq(T) /\ Len(r) = Len(front) + Len(back)
        /\ \A k \in 1..Len(front) + Len(back) :
              r[k] = IF k <= Len(front) THEN front[k] ELSE back[k - Len(front)]
    <3>1. /\ front \in Seq(T)
          /\ back \in Seq(T)
      BY <2>1, <2>2
    <3>2. QED
      BY <3>1, <2>3, ConcatProperties, Zenon
  <2>5. Len(r) = Len(s) - 1
    BY <2>1, <2>2, <2>4, <1>1
  <2>6. ASSUME NEW k \in 1..(i - 1) PROVE r[k] = s[k]
    BY <2>1, <2>4, <2>5, <1>1
  <2>7. ASSUME NEW k \in i..(Len(s) - 1) PROVE r[k] = s[k + 1]
    <3>1. k - (i - 1) \in 1..(Len(s) - i) /\ k \in 1..Len(r) /\ ~(k <= i - 1)
      BY <2>5, <1>1
    <3>2. r[k] = back[k - (i - 1)] /\ back[k - (i - 1)] = s[i + (k - (i - 1))]
      BY <3>1, <2>1, <2>2, <2>4
    <3>3. i + (k - (i - 1)) = k + 1
      BY <1>1
    <3>4. QED
      BY <3>2, <3>3
  <2>8. QED
    BY <2>4, <2>5, <2>6, <2>7
<1>3. QED
  BY <1>2

LEMMA RemoveAtKeeps ==
    ASSUME NEW T, NEW s \in Seq(T), NEW i \in 1..Len(s)
    PROVE  /\ RemoveAt(s, i) \in Seq(T)
           /\ \A e : Contains(RemoveAt(s, i), e) => Contains(s, e)
           /\ \A e : Contains(s, e) => Contains(RemoveAt(s, i), e) \/ e = s[i]
<1> DEFINE r == RemoveAt(s, i)
<1>1. Len(s) \in Nat /\ i \in Nat
  OBVIOUS
<1>2. /\ r \in Seq(T) /\ Len(r) = Len(s) - 1
      /\ \A k \in 1..(i - 1) : r[k] = s[k]
      /\ \A k \in i..(Len(s) - 1) : r[k] = s[k + 1]
  BY RemoveAtPoints
<1> HIDE DEF r
<1>3. ASSUME NEW e, Contains(r, e) PROVE Contains(s, e)
  <2>1. PICK k \in 1..(Len(s) - 1) : r[k] = e
    BY <1>2, <1>3 DEF Contains
  <2>2. CASE k < i
    <3>1. k \in 1..Len(s) /\ s[k] = e
      BY <2>1, <2>2, <1>1, <1>2
    <3>2. QED
      BY <3>1 DEF Contains
  <2>3. CASE k >= i
    <3>1. k + 1 \in 1..Len(s) /\ s[k + 1] = e
      BY <2>1, <2>3, <1>1, <1>2
    <3>2. QED
      BY <3>1 DEF Contains
  <2>4. QED
    BY <2>2, <2>3, <1>1
<1>4. ASSUME NEW e, Contains(s, e), e # s[i] PROVE Contains(r, e)
  <2>1. PICK k \in 1..Len(s) : s[k] = e
    BY <1>4 DEF Contains
  <2>2. CASE k < i
    <3>1. k \in 1..Len(r) /\ r[k] = e
      BY <2>1, <2>2, <1>1, <1>2
    <3>2. QED
      BY <3>1 DEF Contains
  <2>3. CASE k > i
    <3>1. k - 1 \in i..(Len(s) - 1) /\ k - 1 \in 1..Len(r) /\ r[k - 1] = e
      BY <2>1, <2>3, <1>1, <1>2
    <3>2. QED
      BY <3>1 DEF Contains
  <2>4. k # i
    BY <2>1, <1>4
  <2>5. QED
    BY <2>2, <2>3, <2>4, <1>1
<1>5. QED
  BY <1>2, <1>3, <1>4 DEF r

LEMMA MoveToEndKeeps ==
    ASSUME NEW T, NEW s \in Seq(T), NEW x \in T, Contains(s, x)
    PROVE  /\ MoveToEnd(s, x) \in Seq(T)
           /\ \A e : Contains(MoveToEnd(s, x), e) => Contains(s, e)
<1> DEFINE j == CHOOSE i \in DOMAIN s : s[i] = x
<1>1. j \in 1..Len(s)
  BY DEF Contains
<1>2. MoveToEnd(s, x) = Append(RemoveAt(s, j), x)
  BY DEF MoveToEnd
<1> HIDE DEF j
<1>3. /\ RemoveAt(s, j) \in Seq(T)
      /\ \A e : Contains(RemoveAt(s, j), e) => Contains(s, e)
  BY <1>1, RemoveAtKeeps
<1>4. QED
  BY <1>2, <1>3, AppendKeeps

LEMMA ConcatKeeps ==
    ASSUME NEW T, NEW s \in Seq(T), NEW t \in Seq(T)
    PROVE  /\ s \o t \in Seq(T)
           /\ \A e : Contains(s \o t, e) <=> Contains(s, e) \/ Contains(t, e)
<1> DEFINE r == s \o t
<1>1. /\ r \in Seq(T) /\ Len(r) = Len(s) + Len(t)
      /\ \A k \in 1..Len(s) + Len(t) : r[k] = IF k <= Len(s) THEN s[k] ELSE t[k - Len(s)]
  BY ConcatProperties, Zenon
<1>2. Len(s) \in Nat /\ Len(t) \in Nat
  OBVIOUS
<1> HIDE DEF r
<1>3. ASSUME NEW e, Contains(r, e) PROVE Contains(s, e) \/ Contains(t, e)
  <2>1. PICK k \in 1..Len(s) + Len(t) : r[k] = e
    BY <1>1, <1>3 DEF Contains
  <2>2. CASE k <= Len(s)
    <3>1. k \in 1..Len(s) /\ s[k] = e
      BY <1>1, <1>2, <2>1, <2>2
    <3>2. QED
      BY <3>1 DEF Contains
  <2>3. CASE ~(k <= Len(s))
    <3>1. k - Len(s) \in 1..Len(t) /\ t[k - Len(s)] = e
      BY <1>1, <1>2, <2>1, <2>3
    <3>2. QED
      BY <3>1 DEF Contains
  <2>4. QED
    BY <2>2, <2>3
<1>4. ASSUME NEW e, Contains(s, e) PROVE Contains(r, e)
  <2>1. PICK k \in 1..Len(s) : s[k] = e
    BY <1>4 DEF Contains
  <2>2. k \in 1..Len(r) /\ r[k] = e
    BY <1>1, <1>2, <2>1
  <2>3. QED
    BY <2>2 DEF Contains
<1>5. ASSUME NEW e, Contains(t, e) PROVE Contains(r, e)
  <2>1. PICK k \in 1..Len(t) : t[k] = e
    BY <1>5 DEF Contains
  <2>2. /\ Len(s) + k \in 1..Len(r) /\ ~(Len(s) + k <= Len(s))
        /\ (Len(s) + k) - Len(s) = k
    BY <1>1, <1>2, <2>1
  <2>3. r[Len(s) + k] = e
    BY <1>1, <2>1, <2>2
  <2>4. QED
    BY <2>2, <2>3 DEF Contains
<1>6. QED
  BY <1>1, <1>3, <1>4, <1>5 DEF r

-----------------------------------------------------------------------------
(* What a hook enqueues comes behind what is queued; each job that the     *)
(* runner refuses is one fault.                                            *)

\* D holds what the runner refused of the jobs.
Refused(D, x, o, jobs) ==
    /\ IsFiniteSet(D) /\ Cardinality(D) <= faults' - faults
    /\ Contains(queue', x) \/ x \in D
    /\ jobs = <<x, o>> => Contains(queue', o) \/ o \in D

LEMMA EnqueueJobs ==
    ASSUME queue \in Seq(Writes), faults \in Nat, NEW x \in Writes, NEW o \in Writes,
           NEW jobs, jobs = <<x>> \/ jobs = <<x, o>>, Enqueue(jobs)
    PROVE  /\ queue' \in Seq(Writes) /\ faults' \in Nat /\ faults' <= MaxFaults
           /\ \A e : Contains(queue, e) => Contains(queue', e)
           /\ \E D : Refused(D, x, o, jobs)
<1>1. PICK taken \in {jobs, <<>>} \cup {<<jobs[i]>> : i \in DOMAIN jobs} :
        /\ queue' = queue \o taken
        /\ faults' = faults + Len(jobs) - Len(taken)
        /\ faults' <= MaxFaults
  BY DEF Enqueue
<1>2. taken \in {<<>>, <<x>>, <<o>>, <<x, o>>} /\ (jobs = <<x>> => taken \in {<<>>, <<x>>})
  <2>1. CASE jobs = <<x>>
    <3>1. DOMAIN jobs = {1} /\ jobs[1] = x
      BY <2>1
    <3>2. QED
      BY <1>1, <2>1, <3>1
  <2>2. CASE jobs = <<x, o>> /\ jobs # <<x>>
    <3>1. DOMAIN jobs = {1, 2} /\ jobs[1] = x /\ jobs[2] = o
      BY <2>2
    <3>2. QED
      BY <1>1, <2>2, <3>1
  <2>3. QED
    BY <2>1, <2>2
<1>3. Len(jobs) \in {1, 2} /\ (jobs = <<x, o>> => Len(jobs) = 2)
  OBVIOUS
<1>4. taken \in Seq(Writes)
  <2>1. <<>> \in Seq(Writes) /\ <<x>> \in Seq(Writes) /\ <<o>> \in Seq(Writes)
        /\ <<x, o>> \in Seq(Writes)
    OBVIOUS
  <2>2. QED
    BY <1>2, <2>1
<1>5. /\ queue' \in Seq(Writes)
      /\ \A e : Contains(queue', e) <=> Contains(queue, e) \/ Contains(taken, e)
  BY <1>1, <1>4, ConcatKeeps
<1>6. Contains(<<x>>, x) /\ Contains(<<o>>, o) /\ Contains(<<x, o>>, x) /\ Contains(<<x, o>>, o)
  <2>1. ASSUME NEW e PROVE Contains(<<e>>, e)
    <3>1. <<e>>[1] = e /\ 1 \in 1..Len(<<e>>)
      OBVIOUS
    <3>2. QED
      BY <3>1 DEF Contains
  <2>2. <<x, o>>[1] = x /\ <<x, o>>[2] = o /\ 1 \in 1..Len(<<x, o>>) /\ 2 \in 1..Len(<<x, o>>)
    OBVIOUS
  <2>3. Contains(<<x, o>>, x) /\ Contains(<<x, o>>, o)
    BY <2>2 DEF Contains
  <2>4. QED
    BY <2>1, <2>3
<1>7. /\ IsFiniteSet({}) /\ Cardinality({}) = 0
      /\ IsFiniteSet({x}) /\ Cardinality({x}) = 1 /\ IsFiniteSet({o}) /\ Cardinality({o}) = 1
      /\ IsFiniteSet({x, o}) /\ Cardinality({x, o}) <= 2
  <2>1. IsFiniteSet({x}) /\ Cardinality({x}) = 1 /\ IsFiniteSet({o}) /\ Cardinality({o}) = 1
    BY FS_Singleton
  <2>2. CASE x = o
    <3>1. {x, o} = {x}
      BY <2>2
    <3>2. IsFiniteSet({x, o}) /\ Cardinality({x, o}) = 1
      BY <2>1, <3>1, Zenon
    <3>3. QED
      BY <2>1, <3>2, FS_EmptySet
  <2>3. CASE x # o
    <3>1. IsFiniteSet({x}) /\ Cardinality({x}) = 1 /\ o \notin {x} /\ {x, o} = {x} \cup {o}
      BY <2>1, <2>3
    <3>2. IsFiniteSet({x} \cup {o}) /\ Cardinality({x} \cup {o}) = Cardinality({x}) + 1
      BY <3>1, FS_AddElement
    <3>3. IsFiniteSet({x, o}) /\ Cardinality({x, o}) = 1 + 1
      BY <3>1, <3>2
    <3>4. QED
      BY <2>1, <3>3, FS_EmptySet
  <2>4. QED
    BY <2>2, <2>3
<1>8. faults' \in Nat /\ \E D : Refused(D, x, o, jobs)
  <2>1. CASE taken = jobs
    <3>1. faults' = faults
      BY <1>1, <1>3, <2>1
    <3>2. Contains(queue', x) /\ (jobs = <<x, o>> => Contains(queue', o))
      BY <1>5, <1>6, <2>1
    <3>3. Refused({}, x, o, jobs)
      BY <1>7, <3>1, <3>2 DEF Refused
    <3>4. QED
      BY <3>1, <3>3
  <2>2. CASE taken = <<>> /\ jobs = <<x>>
    <3>1. faults' = faults + 1 /\ faults' - faults = 1 /\ jobs # <<x, o>>
      BY <1>1, <2>2
    <3>2. Refused({x}, x, o, jobs)
      BY <1>7, <3>1 DEF Refused
    <3>3. QED
      BY <3>1, <3>2
  <2>3. CASE taken = <<>> /\ jobs = <<x, o>>
    <3>1. faults' = faults + 2 /\ faults' - faults = 2
      BY <1>1, <2>3
    <3>2. Refused({x, o}, x, o, jobs)
      BY <1>7, <3>1 DEF Refused
    <3>3. QED
      BY <3>1, <3>2
  <2>4. CASE taken = <<x>> /\ jobs = <<x, o>>
    <3>1. faults' = faults + 1 /\ faults' - faults = 1 /\ Contains(queue', x)
      BY <1>1, <1>5, <1>6, <2>4
    <3>2. Refused({o}, x, o, jobs)
      BY <1>7, <3>1 DEF Refused
    <3>3. QED
      BY <3>1, <3>2
  <2>5. CASE taken = <<o>> /\ jobs = <<x, o>>
    <3>1. faults' = faults + 1 /\ faults' - faults = 1 /\ Contains(queue', o)
      BY <1>1, <1>5, <1>6, <2>5
    <3>2. Refused({x}, x, o, jobs)
      BY <1>7, <3>1 DEF Refused
    <3>3. QED
      BY <3>1, <3>2
  <2>6. QED
    BY <1>2, <2>1, <2>2, <2>3, <2>4, <2>5
<1>9. \A e : Contains(queue, e) => Contains(queue', e)
  BY <1>5
<1>10. QED
  BY <1>1, <1>5, <1>8, <1>9

\* What Hermes' calls do to the queue, and to the faults.
LEMMA HermesEnqueues ==
    ASSUME queue \in Seq(Writes), faults \in Nat, faults <= MaxFaults, Hermes
    PROVE  /\ queue' \in Seq(Writes) /\ faults' \in Nat /\ faults' <= MaxFaults
           /\ \A e : Contains(queue, e) => Contains(queue', e)
<1>1. ASSUME NEW x \in Writes, Hook(x)
      PROVE  /\ queue' \in Seq(Writes) /\ faults' \in Nat /\ faults' <= MaxFaults
             /\ \A e : Contains(queue, e) => Contains(queue', e)
  BY <1>1, EnqueueJobs DEF Hook
<1>2. ASSUME NEW x \in Plain, NEW o \in Observations, MemoryWrite(x, o)
      PROVE  /\ queue' \in Seq(Writes) /\ faults' \in Nat /\ faults' <= MaxFaults
             /\ \A e : Contains(queue, e) => Contains(queue', e)
  <2>1. x \in Writes /\ o \in Writes
    BY DEF Writes
  <2>2. Enqueue(<<x>>) \/ Enqueue(<<x, o>>)
    BY <1>2 DEF MemoryWrite
  <2>3. QED
    BY <2>1, <2>2, EnqueueJobs
<1>3. ASSUME NEW o \in Observations, Observe(o) PROVE UNCHANGED <<queue, faults>>
  BY <1>3 DEF Observe, ends
<1>4. QED
  BY <1>1, <1>2, <1>3 DEF Hermes

-----------------------------------------------------------------------------
(* The types the proofs need.                                              *)

Places == {"idle", "test", "touch", "insert", "trim", "pop",
           "post", "send", "rotate", "close", "log"}

CallTyped ==
    /\ call \in [Threads -> [at : Places, what : Writes \cup {NoWrite}, try : Nat, using : Nat]]
    /\ \A c \in Threads : call[c].at # "idle" => call[c].what \in Writes
    /\ \A c \in Threads : call[c].at \in {"test", "insert"} => call[c].what \in Observations

SequencesTyped ==
    mirrored \in Seq(Observations) /\ seen \in Seq(Observations) /\ queue \in Seq(Writes)

CountsTyped ==
    /\ server \in [Writes -> Nat] /\ posts \in [Writes -> Nat] 
    /\ http \in Nat /\ opened \in Nat /\ faults \in Nat /\ faults <= MaxFaults

Typed == CallTyped /\ SequencesTyped /\ CountsTyped

LEMMA EntryTyped ==
    ASSUME NEW x \in Writes
    PROVE  /\ Entry(x).at \in {"test", "post"} /\ Entry(x).what = x
           /\ Entry(x) \in [at : Places, what : Writes \cup {NoWrite}, try : Nat, using : Nat]
           /\ Entry(x).at = "test" => x \in Observations
  BY DEF Entry, Call, Places

LEMMA IdleTyped ==
    /\ Idle \in [at : Places, what : Writes \cup {NoWrite}, try : Nat, using : Nat]
    /\ Idle.at = "idle" /\ Idle.what = NoWrite
  BY DEF Idle, Call, Places

LEMMA GoesTyped ==
    ASSUME CallTyped, NEW c \in Threads, call[c].at # "idle",
           NEW p \in Places \ {"idle", "test", "insert"}, Goes(c, p)
    PROVE  CallTyped'
  BY DEF CallTyped, Goes, Places

LEMMA EndsTyped ==
    ASSUME CallTyped, NEW c \in Threads, Ends(c)
    PROVE  CallTyped'
  BY IdleTyped DEF CallTyped, Ends

LEMMA CallStep ==
    ASSUME Typed, [Next]_vars
    PROVE  CallTyped'
<1> USE DEF Typed, CallTyped, Places
<1>1. CASE Hermes
  <2>1. ASSUME NEW o \in Observations, Observe(o) PROVE CallTyped'
    <3>1. o \in Writes /\ Host \in Threads
      BY DEF Writes, Threads
    <3>2. call' = [call EXCEPT ![Host] = Entry(o)]
      BY <2>1 DEF Observe
    <3>3. QED
      BY <3>1, <3>2, EntryTyped
  <2>2. CASE UNCHANGED call
    BY <2>2
  <2>3. QED
    BY <1>1, <2>1, <2>2 DEF Hermes, Hook, MemoryWrite
<1>2. CASE Evict
  BY <1>2 DEF Evict
<1>3. ASSUME NEW w \in Workers, TakeJob(w) PROVE CallTyped'
  <2>1. Head(queue) \in Writes /\ w \in Threads
    BY <1>3, HeadTailKeep DEF TakeJob, SequencesTyped, Threads
  <2>2. QED
    BY <1>3, <2>1, EntryTyped DEF TakeJob
<1>4. ASSUME NEW c \in Threads, Dedup(c) PROVE CallTyped'
  <2>1. CASE DedupTest(c)
    BY <2>1 DEF DedupTest, Goes
  <2>2. CASE DedupTouch(c) \/ (DedupPop(c) /\ seen = <<>>)
    BY <2>2, EndsTyped DEF DedupTouch, DedupPop
  <2>3. CASE DedupInsert(c) \/ DedupTrim(c) \/ (DedupPop(c) /\ seen # <<>>)
    BY <2>3, GoesTyped DEF DedupInsert, DedupTrim, DedupPop
  <2>4. QED
    BY <1>4, <2>1, <2>2, <2>3 DEF Dedup
<1>5. ASSUME NEW c \in Threads, Request(c) PROVE CallTyped'
  <2>1. CASE Post(c)
    BY <2>1 DEF Post, CountsTyped
  <2>2. CASE Delivered(c) \/ AppendLog(c)
    BY <2>2, EndsTyped DEF Delivered, AppendLog
  <2>3. CASE AnswerLost(c) \/ Failed(c) \/ Rotate(c)
    BY <2>3, GoesTyped DEF AnswerLost, Failed, Rotate
  <2>4. CASE Unauthorized(c)
    <3>1. /\ http \in Nat /\ call[c].at = "send"
          /\ \/ call' = [call EXCEPT ![c].at = "rotate", ![c].using = http]
             \/ call' = [call EXCEPT ![c].at = "log"]
      BY <2>4 DEF Unauthorized, Goes, CountsTyped
    <3>2. QED
      BY <3>1
  <2>5. CASE CloseOld(c)
    BY <2>5 DEF CloseOld, CountsTyped
  <2>6. QED
    BY <1>5, <2>1, <2>2, <2>3, <2>4, <2>5 DEF Request
<1>6. CASE UNCHANGED vars
  BY <1>6 DEF vars
<1>7. QED
  BY <1>1, <1>2, <1>3, <1>4, <1>5, <1>6 DEF Next

LEMMA SequencesStep ==
    ASSUME Typed, [Next]_vars
    PROVE  SequencesTyped'
<1> USE DEF Typed, SequencesTyped
<1>1. CASE Hermes
  <2>0. queue' \in Seq(Writes)
    BY <1>1, HermesEnqueues DEF CountsTyped
  <2>1. CASE UNCHANGED dedupVars
    BY <2>0, <2>1 DEF dedupVars
  <2>2. ASSUME NEW x \in Plain, NEW o \in Observations, MemoryWrite(x, o)
        PROVE  SequencesTyped'
    <3>1. seen' = seen /\ Remember(o)
      BY <2>2 DEF MemoryWrite
    <3>2. CASE Contains(mirrored, o)
      <4>1. mirrored' = MoveToEnd(mirrored, o)
        BY <3>1, <3>2 DEF Remember
      <4>2. QED
        BY <2>0, <3>1, <3>2, <4>1, MoveToEndKeeps
    <3>3. CASE ~Contains(mirrored, o) /\ Len(mirrored) < MaxSeen
      <4>1. mirrored' = Append(mirrored, o)
        BY <3>1, <3>3 DEF Remember
      <4>2. QED
        BY <2>0, <3>1, <4>1, AppendKeeps
    <3>4. CASE ~Contains(mirrored, o) /\ ~(Len(mirrored) < MaxSeen)
      <4>1. mirrored # <<>>
        BY <3>4, WriteAssumption
      <4>2. Tail(mirrored) \in Seq(Observations)
        BY <4>1, HeadTailKeep
      <4>3. mirrored' = Append(Tail(mirrored), o)
        BY <3>1, <3>4 DEF Remember
      <4>4. QED
        BY <2>0, <3>1, <4>2, <4>3, AppendKeeps
    <3>5. QED
      BY <3>2, <3>3, <3>4
  <2>3. QED
    BY <1>1, <2>1, <2>2 DEF Hermes, Hook, Observe
<1>2. CASE Evict
  BY <1>2, HeadTailKeep DEF Evict, dedupVars
<1>3. ASSUME NEW w \in Workers, TakeJob(w) PROVE SequencesTyped'
  BY <1>3, HeadTailKeep DEF TakeJob, dedupVars
<1>4. ASSUME NEW c \in Threads, Dedup(c) PROVE SequencesTyped'
  <2>1. CASE DedupTest(c) \/ DedupTrim(c)
    BY <2>1 DEF DedupTest, DedupTrim, dedupVars
  <2>2. CASE DedupTouch(c)
    <3>1. Contains(seen, call[c].what) => call[c].what \in Observations
      BY DEF Contains
    <3>2. QED
      BY <2>2, <3>1, MoveToEndKeeps DEF DedupTouch
  <2>3. CASE DedupInsert(c)
    BY <2>3, AppendKeeps DEF DedupInsert, CallTyped
  <2>4. CASE DedupPop(c)
    BY <2>4, HeadTailKeep DEF DedupPop
  <2>5. QED
    BY <1>4, <2>1, <2>2, <2>3, <2>4 DEF Dedup
<1>5. ASSUME NEW c \in Threads, Request(c) PROVE SequencesTyped'
  BY <1>5 DEF Request, Post, Delivered, AnswerLost, Failed, Unauthorized, Rotate,
              CloseOld, AppendLog, dedupVars
<1>6. CASE UNCHANGED vars
  BY <1>6 DEF vars, dedupVars
<1>7. QED
  BY <1>1, <1>2, <1>3, <1>4, <1>5, <1>6 DEF Next

LEMMA CountsStep ==
    ASSUME Typed, [Next]_vars
    PROVE  CountsTyped'
<1> USE DEF Typed, CountsTyped, httpVars, traces, ends, ghosts
<1>1. CASE Hermes
  <2>1. faults' \in Nat /\ faults' <= MaxFaults
    BY <1>1, HermesEnqueues DEF SequencesTyped
  <2>2. QED
    BY <1>1, <2>1 DEF Hermes, Hook, MemoryWrite, Observe
<1>2. CASE Evict
  BY <1>2 DEF Evict
<1>3. ASSUME NEW w \in Workers, TakeJob(w) PROVE CountsTyped'
  BY <1>3 DEF TakeJob
<1>4. ASSUME NEW c \in Threads, Dedup(c) PROVE CountsTyped'
  BY <1>4 DEF Dedup, DedupTest, DedupTouch, DedupInsert, DedupTrim, DedupPop
<1>5. ASSUME NEW c \in Threads, Request(c) PROVE CountsTyped'
  <2>1. CASE Post(c) \/ Failed(c) \/ Unauthorized(c) \/ CloseOld(c)
    BY <2>1 DEF Post, Failed, Unauthorized, CloseOld
  <2>2. CASE Delivered(c) \/ AnswerLost(c)
    BY <2>2 DEF Delivered, AnswerLost
  <2>3. CASE Rotate(c)
    BY <2>3 DEF Rotate
  <2>4. CASE AppendLog(c)
    BY <2>4, WriteAssumption DEF AppendLog
  <2>5. QED
    BY <1>5, <2>1, <2>2, <2>3, <2>4 DEF Request
<1>6. CASE UNCHANGED vars
  BY <1>6 DEF vars
<1>7. QED
  BY <1>1, <1>2, <1>3, <1>4, <1>5, <1>6 DEF Next

LEMMA TypedInit == Init => Typed
<1>1. ASSUME Init PROVE CallTyped
  BY <1>1, IdleTyped DEF Init, CallTyped
<1>2. ASSUME Init PROVE SequencesTyped /\ CountsTyped
  BY <1>2, WriteAssumption DEF Init, SequencesTyped, CountsTyped
<1>3. QED
  BY <1>1, <1>2 DEF Typed

LEMMA TypedStep == Typed /\ [Next]_vars => Typed'
  BY CallStep, SequencesStep, CountsStep DEF Typed

-----------------------------------------------------------------------------
(* self._http is never a client that a rotation has closed.  A rotation    *)
(* closes the client it read before it made its own, and the number of     *)
(* self._http only grows.                                                  *)

ClientInv ==
    /\ http = opened
    /\ \A n \in closed : n \in Nat /\ n < http
    /\ \A c \in Threads : call[c].at = "rotate" => call[c].using <= http
    /\ \A c \in Threads : call[c].at = "close" => call[c].using < http

LEMMA ClientInit == Init => ClientInv
  BY IdleTyped DEF Init, ClientInv

\* A step that moves one call to a place outside the rotation.
LEMMA ClientAside ==
    ASSUME Typed, ClientInv, UNCHANGED httpVars, NEW c \in Threads, NEW e,
           call' = [call EXCEPT ![c] = e], e.at \notin {"rotate", "close"}
    PROVE  ClientInv'
  BY DEF Typed, CallTyped, ClientInv, httpVars

LEMMA ClientGoes ==
    ASSUME Typed, ClientInv, UNCHANGED httpVars, NEW c \in Threads, NEW p,
           Goes(c, p), p \notin {"rotate", "close"}
    PROVE  ClientInv'
  BY DEF Typed, CallTyped, ClientInv, httpVars, Goes

LEMMA ClientStep ==
    ASSUME Typed, ClientInv, [Next]_vars
    PROVE  ClientInv'
<1>1. CASE Hermes
  <2>1. CASE UNCHANGED <<call, httpVars>>
    BY <2>1 DEF ClientInv, httpVars
  <2>2. ASSUME NEW o \in Observations, Observe(o) PROVE ClientInv'
    BY <2>2, ClientAside, EntryTyped DEF Observe, Threads, Writes
  <2>3. QED
    BY <1>1, <2>1, <2>2 DEF Hermes, Hook, MemoryWrite
<1>2. CASE Evict \/ UNCHANGED vars
  BY <1>2 DEF Evict, vars, ClientInv, httpVars
<1>3. ASSUME NEW w \in Workers, TakeJob(w) PROVE ClientInv'
  <2>1. Head(queue) \in Writes
    BY <1>3, HeadTailKeep DEF TakeJob, Typed, SequencesTyped
  <2>2. QED
    BY <1>3, <2>1, ClientAside, EntryTyped DEF TakeJob, Threads
<1>4. ASSUME NEW c \in Threads, Dedup(c) PROVE ClientInv'
  <2>1. CASE DedupTest(c) \/ DedupInsert(c) \/ DedupTrim(c) \/ (DedupPop(c) /\ seen # <<>>)
    BY <2>1, ClientGoes DEF DedupTest, DedupInsert, DedupTrim, DedupPop
  <2>2. CASE DedupTouch(c) \/ (DedupPop(c) /\ seen = <<>>)
    BY <2>2, ClientAside, IdleTyped DEF DedupTouch, DedupPop, Ends
  <2>3. QED
    BY <1>4, <2>1, <2>2 DEF Dedup
<1>5. ASSUME NEW c \in Threads, Request(c) PROVE ClientInv'
  <2>1. CASE Post(c)
    BY <2>1 DEF Post, Typed, CallTyped, ClientInv, httpVars
  <2>2. CASE AnswerLost(c) \/ Failed(c)
    BY <2>2, ClientGoes DEF AnswerLost, Failed
  <2>3. CASE Delivered(c) \/ AppendLog(c)
    BY <2>3, ClientAside, IdleTyped DEF Delivered, AppendLog, Ends
  <2>4. CASE Unauthorized(c)
    BY <2>4 DEF Unauthorized, Goes, Typed, CallTyped, CountsTyped, ClientInv, httpVars
  <2>5. CASE Rotate(c)
    BY <2>5 DEF Rotate, Goes, Typed, CallTyped, CountsTyped, ClientInv
  <2>6. CASE CloseOld(c)
    BY <2>6 DEF CloseOld, Typed, CallTyped, CountsTyped, ClientInv
  <2>7. QED
    BY <1>5, <2>1, <2>2, <2>3, <2>4, <2>5, <2>6 DEF Request
<1>6. QED
  BY <1>1, <1>2, <1>3, <1>4, <1>5 DEF Next

\* However the rotations of several threads interleave, _replace_http() never closes
\* the client in place: whatever request starts next finds self._http open.
THEOREM RotationSparesCurrent == Spec => []CurrentClientOpen
<1>1. Init => Typed /\ ClientInv
  BY TypedInit, ClientInit
<1>2. Typed /\ ClientInv /\ [Next]_vars => (Typed /\ ClientInv)'
  BY TypedStep, ClientStep
<1>3. Typed /\ ClientInv => CurrentClientOpen
  BY DEF Typed, CountsTyped, ClientInv, CurrentClientOpen
<1>4. QED
  BY <1>1, <1>2, <1>3, PTL DEF Spec

-----------------------------------------------------------------------------
(* Frames.                                                                 *)

\* Which steps touch the memory of the deduplicators, and what was handed over.
LEMMA DedupFrame ==
    ASSUME NEW c, Dedup(c)
    PROVE  /\ UNCHANGED <<mirrored, handed>>
           /\ DedupInsert(c) \/ DedupTouch(c) \/ DedupPop(c) \/ UNCHANGED seen
<1>1. CASE DedupTest(c) \/ DedupTrim(c)
  BY <1>1 DEF DedupTest, DedupTrim, dedupVars, ghosts
<1>2. CASE DedupInsert(c) \/ DedupTouch(c) \/ DedupPop(c)
  BY <1>2 DEF DedupInsert, DedupTouch, DedupPop, ghosts
<1>3. QED
  BY <1>1, <1>2 DEF Dedup

LEMMA RequestFrame ==
    ASSUME NEW c, Request(c)
    PROVE  UNCHANGED <<mirrored, seen, handed>>
<1>1. CASE Post(c) \/ Delivered(c)
  BY <1>1 DEF Post, Delivered, dedupVars
<1>2. CASE AnswerLost(c) \/ Failed(c) \/ Unauthorized(c)
  BY <1>2 DEF AnswerLost, Failed, Unauthorized, dedupVars, ghosts
<1>3. CASE Rotate(c) \/ CloseOld(c) \/ AppendLog(c)
  BY <1>3 DEF Rotate, CloseOld, AppendLog, dedupVars, ghosts
<1>4. QED
  BY <1>1, <1>2, <1>3 DEF Request

LEMMA RunnerFrame ==
    ASSUME Evict \/ (\E w \in Workers : TakeJob(w)) \/ UNCHANGED vars
    PROVE  UNCHANGED <<mirrored, seen, handed>>
  BY DEF Evict, TakeJob, vars, dedupVars, ghosts

LEMMA HermesFrame ==
    ASSUME Hermes
    PROVE  /\ handed \subseteq handed' /\ UNCHANGED seen
           /\ (\E x \in Plain, o \in Observations : MemoryWrite(x, o)) \/ UNCHANGED mirrored
  BY DEF Hermes, Hook, MemoryWrite, Observe, Called, dedupVars

-----------------------------------------------------------------------------
(* What the server stores, it was sent: each entry into _post() is worth   *)
(* one delivery, which the call carries until it is over.                  *)

Carrying(x) == {c \in Threads : call[c].what = x /\ call[c].at \in {"send", "rotate", "close"}}

PostInv == \A x \in Writes : server[x] + Cardinality(Carrying(x)) <= posts[x]

LEMMA CarryingFinite == \A x : IsFiniteSet(Carrying(x)) /\ Cardinality(Carrying(x)) \in Nat
<1>1. IsFiniteSet(Threads)
  BY WriteAssumption, FS_AddElement DEF Threads
<1>2. \A x : Carrying(x) \subseteq Threads
  BY DEF Carrying
<1>3. QED
  BY <1>1, <1>2, FS_Subset, FS_CardinalityType

LEMMA OneMore ==
    ASSUME NEW S, IsFiniteSet(S), NEW e, NEW T \in SUBSET (S \cup {e})
    PROVE  /\ Cardinality(S) \in Nat /\ Cardinality(T) \in Nat
           /\ Cardinality(T) <= Cardinality(S) + 1
<1>1. Cardinality(S) \in Nat
  BY FS_CardinalityType
<1>2. IsFiniteSet(S \cup {e}) /\ Cardinality(S \cup {e}) <= Cardinality(S) + 1
  <2>1. IsFiniteSet(S \cup {e})
    BY FS_AddElement
  <2>2. Cardinality(S \cup {e}) = IF e \in S THEN Cardinality(S) ELSE Cardinality(S) + 1
    BY FS_AddElement
  <2>3. QED
    BY <1>1, <2>1, <2>2
<1>3. IsFiniteSet(T) /\ Cardinality(T) <= Cardinality(S \cup {e})
  BY <1>2, FS_Subset
<1>4. Cardinality(T) \in Nat /\ Cardinality(S \cup {e}) \in Nat
  BY <1>2, <1>3, FS_CardinalityType
<1>5. QED
  BY <1>1, <1>2, <1>3, <1>4

\* A step that stores nothing and makes no call carry keeps the count.
LEMMA PostKept ==
    ASSUME Typed, PostInv, UNCHANGED <<server, posts>>,
           \A x \in Writes : Carrying(x)' \subseteq Carrying(x)
    PROVE  PostInv'
<1>1. \A x \in Writes : /\ Cardinality(Carrying(x)) \in Nat /\ Cardinality(Carrying(x)') \in Nat
                        /\ Cardinality(Carrying(x)') <= Cardinality(Carrying(x))
  BY CarryingFinite, FS_Subset, FS_CardinalityType
<1>2. QED
  BY <1>1 DEF PostInv, Typed, CountsTyped

LEMMA PostStep ==
    ASSUME Typed, PostInv, [Next]_vars
    PROVE  PostInv'
<1> USE DEF Typed, CallTyped, CountsTyped
<1>1. CASE Hermes
  <2>1. ASSUME NEW o \in Observations, Observe(o) PROVE PostInv'
    <3>1. \A x \in Writes : Carrying(x)' \subseteq Carrying(x)
      BY <2>1, EntryTyped DEF Observe, Carrying, Writes
    <3>2. QED
      BY <2>1, <3>1, PostKept DEF Observe, traces, ends
  <2>2. CASE UNCHANGED <<call, server, posts>>
    BY <2>2, PostKept DEF Carrying
  <2>3. QED
    BY <1>1, <2>1, <2>2 DEF Hermes, Hook, MemoryWrite, traces, ends
<1>2. CASE Evict \/ UNCHANGED vars
  <2>1. UNCHANGED <<call, server, posts>>
    BY <1>2 DEF Evict, vars, traces, ends, ghosts
  <2>2. QED
    BY <2>1, PostKept DEF Carrying
<1>3. ASSUME NEW w \in Workers, TakeJob(w) PROVE PostInv'
  <2>1. Head(queue) \in Writes
    BY <1>3, HeadTailKeep DEF TakeJob, SequencesTyped
  <2>2. \A x \in Writes : Carrying(x)' \subseteq Carrying(x)
    BY <1>3, <2>1, EntryTyped DEF TakeJob, Carrying
  <2>3. QED
    BY <1>3, <2>2, PostKept DEF TakeJob, traces, ends, ghosts
<1>4. ASSUME NEW c \in Threads, Dedup(c) PROVE PostInv'
  <2>1. UNCHANGED <<server, posts>>
    BY <1>4 DEF Dedup, DedupTest, DedupTouch, DedupInsert, DedupTrim, DedupPop, traces, ends, ghosts
  <2>2. \/ \E p \in {"touch", "insert", "trim", "pop", "post"} : Goes(c, p)
        \/ Ends(c)
    BY <1>4 DEF Dedup, DedupTest, DedupTouch, DedupInsert, DedupTrim, DedupPop
  <2>3. \A x \in Writes : Carrying(x)' \subseteq Carrying(x)
    BY <2>2, IdleTyped DEF Goes, Ends, Carrying
  <2>4. QED
    BY <2>1, <2>3, PostKept
<1>5. ASSUME NEW c \in Threads, Request(c) PROVE PostInv'
  <2>1. CASE Post(c)
    <3>1. ASSUME NEW x \in Writes PROVE server'[x] + Cardinality(Carrying(x)') <= posts'[x]
      <4>1. CASE x = call[c].what
        <5>1. Carrying(x)' \subseteq Carrying(x) \cup {c}
          BY <2>1 DEF Post, Carrying
        <5>2. /\ Cardinality(Carrying(x)) \in Nat /\ Cardinality(Carrying(x)') \in Nat
              /\ Cardinality(Carrying(x)') <= Cardinality(Carrying(x)) + 1
          BY <5>1, CarryingFinite, OneMore
        <5>3. server'[x] = server[x] /\ posts'[x] = posts[x] + 1
          BY <2>1, <4>1 DEF Post, traces, ends
        <5>4. QED
          BY <5>2, <5>3 DEF PostInv
      <4>2. CASE x # call[c].what
        <5>1. Carrying(x)' = Carrying(x)
          BY <2>1, <4>2 DEF Post, Carrying
        <5>2. server'[x] = server[x] /\ posts'[x] = posts[x]
          BY <2>1, <4>2 DEF Post, traces, ends
        <5>3. QED
          BY <5>1, <5>2 DEF PostInv
      <4>3. QED
        BY <4>1, <4>2
    <3>2. QED
      BY <3>1 DEF PostInv
  <2>2. CASE Delivered(c) \/ AnswerLost(c)
    <3>1. ASSUME NEW x \in Writes PROVE server'[x] + Cardinality(Carrying(x)') <= posts'[x]
      <4>1. posts' = posts /\ server' = [server EXCEPT ![call[c].what] = @ + 1]
        BY <2>2 DEF Delivered, AnswerLost, ghosts
      <4>2. CASE x = call[c].what
        <5>1. c \in Carrying(x) /\ Carrying(x)' = Carrying(x) \ {c}
          BY <2>2, <4>2, IdleTyped DEF Delivered, AnswerLost, Goes, Ends, Carrying
        <5>2. /\ Cardinality(Carrying(x)) \in Nat
              /\ Cardinality(Carrying(x)') = Cardinality(Carrying(x)) - 1
          BY <5>1, CarryingFinite, FS_RemoveElement
        <5>3. QED
          BY <4>1, <4>2, <5>2 DEF PostInv
      <4>3. CASE x # call[c].what
        <5>1. Carrying(x)' \subseteq Carrying(x)
          BY <2>2, <4>3, IdleTyped DEF Delivered, AnswerLost, Goes, Ends, Carrying
        <5>2. /\ Cardinality(Carrying(x)) \in Nat /\ Cardinality(Carrying(x)') \in Nat
              /\ Cardinality(Carrying(x)') <= Cardinality(Carrying(x))
          BY <5>1, CarryingFinite, FS_Subset, FS_CardinalityType
        <5>3. QED
          BY <4>1, <4>3, <5>2 DEF PostInv
      <4>4. QED
        BY <4>2, <4>3
    <3>2. QED
      BY <3>1 DEF PostInv
  <2>3. CASE Failed(c) \/ Unauthorized(c) \/ Rotate(c) \/ CloseOld(c) \/ AppendLog(c)
    <3>1. UNCHANGED <<server, posts>>
      BY <2>3 DEF Failed, Unauthorized, Rotate, CloseOld, AppendLog, traces, ends, ghosts
    <3>2. CASE Failed(c) \/ Rotate(c)
      <4>1. \A x \in Writes : Carrying(x)' \subseteq Carrying(x)
        BY <3>2 DEF Failed, Rotate, Goes, Carrying
      <4>2. QED
        BY <3>1, <4>1, PostKept
    <3>3. CASE Unauthorized(c) \/ CloseOld(c)
      <4>1. \A x \in Writes : Carrying(x)' \subseteq Carrying(x)
        BY <3>3 DEF Unauthorized, Goes, CloseOld, Carrying
      <4>2. QED
        BY <3>1, <4>1, PostKept
    <3>4. CASE AppendLog(c)
      <4>1. \A x \in Writes : Carrying(x)' \subseteq Carrying(x)
        BY <3>4, IdleTyped DEF AppendLog, Ends, Carrying
      <4>2. QED
        BY <3>1, <4>1, PostKept
    <3>5. QED
      BY <2>3, <3>2, <3>3, <3>4
  <2>4. QED
    BY <1>5, <2>1, <2>2, <2>3 DEF Request
<1>6. QED
  BY <1>1, <1>2, <1>3, <1>4, <1>5 DEF Next

\* The 401 retries never send again what the server has already stored, whatever
\* becomes of the answers.
THEOREM StoredOnce == Spec => []StoredOncePerPost
<1>1. Init => Typed /\ PostInv
  <2>1. Init => \A x \in Writes : Carrying(x) = {} /\ server[x] = 0 /\ posts[x] = 0
    BY IdleTyped DEF Init, Carrying
  <2>2. QED
    BY <2>1, TypedInit, FS_EmptySet DEF PostInv
<1>2. Typed /\ PostInv /\ [Next]_vars => (Typed /\ PostInv)'
  BY TypedStep, PostStep
<1>3. Typed /\ PostInv => StoredOncePerPost
  BY CarryingFinite DEF Typed, CountsTyped, PostInv, StoredOncePerPost
<1>4. QED
  BY <1>1, <1>2, <1>3, PTL DEF Spec

-----------------------------------------------------------------------------
(* The deduplicators are bounded, and hold each key once.                  *)

Once(s) == \A i, j \in 1..Len(s) : s[i] = s[j] => i = j

LEMMA AppendOnce ==
    ASSUME NEW T, NEW s \in Seq(T), NEW x \in T, Once(s), ~Contains(s, x)
    PROVE  Once(Append(s, x)) /\ Len(Append(s, x)) = Len(s) + 1
<1> DEFINE r == Append(s, x)
<1>1. /\ Len(s) \in Nat /\ Len(r) = Len(s) + 1
      /\ \A k \in 1..Len(s) : r[k] = s[k]
      /\ r[Len(s) + 1] = x
  OBVIOUS
<1> HIDE DEF r
<1>2. \A k \in 1..Len(s) : r[k] # x
  BY <1>1 DEF Contains
<1>3. ASSUME NEW i \in 1..Len(r), NEW j \in 1..Len(r), r[i] = r[j] PROVE i = j
  <2>1. i \in 1..Len(s) \/ i = Len(s) + 1
    BY <1>1
  <2>2. j \in 1..Len(s) \/ j = Len(s) + 1
    BY <1>1
  <2>3. QED
    BY <1>1, <1>2, <1>3, <2>1, <2>2 DEF Once
<1>4. QED
  BY <1>1, <1>3 DEF Once, r

LEMMA TailOnce ==
    ASSUME NEW T, NEW s \in Seq(T), s # <<>>, Once(s)
    PROVE  Once(Tail(s)) /\ Len(Tail(s)) = Len(s) - 1
<1> DEFINE r == Tail(s)
<1>1. /\ Len(s) \in Nat \ {0} /\ Len(r) = Len(s) - 1
      /\ \A k \in 1..(Len(s) - 1) : r[k] = s[k + 1]
  OBVIOUS
<1> HIDE DEF r
<1>2. ASSUME NEW i \in 1..Len(r), NEW j \in 1..Len(r), r[i] = r[j] PROVE i = j
  <2>1. i + 1 \in 1..Len(s) /\ j + 1 \in 1..Len(s) /\ s[i + 1] = s[j + 1]
    BY <1>1, <1>2
  <2>2. i + 1 = j + 1
    BY <2>1 DEF Once
  <2>3. QED
    BY <2>2, <1>1
<1>3. QED
  BY <1>1, <1>2 DEF Once, r

LEMMA RemoveAtOnce ==
    ASSUME NEW T, NEW s \in Seq(T), NEW n \in 1..Len(s), Once(s)
    PROVE  Once(RemoveAt(s, n)) /\ ~Contains(RemoveAt(s, n), s[n])
<1> DEFINE r == RemoveAt(s, n)
           from(k) == IF k < n THEN k ELSE k + 1
<1>1. /\ r \in Seq(T) /\ Len(r) = Len(s) - 1 /\ Len(s) \in Nat
      /\ \A k \in 1..(n - 1) : r[k] = s[k]
      /\ \A k \in n..(Len(s) - 1) : r[k] = s[k + 1]
  BY RemoveAtPoints
<1> HIDE DEF r
<1>2. ASSUME NEW k \in 1..Len(r)
      PROVE  from(k) \in 1..Len(s) /\ from(k) # n /\ r[k] = s[from(k)]
  <2>1. CASE k < n
    BY <1>1, <2>1
  <2>2. CASE ~(k < n)
    <3>1. k \in n..(Len(s) - 1) /\ from(k) = k + 1
      BY <1>1, <2>2
    <3>2. QED
      BY <1>1, <3>1
  <2>3. QED
    BY <2>1, <2>2
<1>3. ASSUME NEW i \in 1..Len(r), NEW j \in 1..Len(r), r[i] = r[j] PROVE i = j
  <2>1. from(i) = from(j)
    <3>1. /\ from(i) \in 1..Len(s) /\ r[i] = s[from(i)]
          /\ from(j) \in 1..Len(s) /\ r[j] = s[from(j)]
      BY <1>2
    <3> HIDE DEF from
    <3>2. QED
      BY <1>3, <3>1 DEF Once
  <2>2. QED
    BY <1>1, <2>1
<1>4. ASSUME NEW k \in 1..Len(r) PROVE r[k] # s[n]
  <2>1. from(k) \in 1..Len(s) /\ from(k) # n /\ r[k] = s[from(k)]
    BY <1>2
  <2> HIDE DEF from
  <2>2. QED
    BY <2>1 DEF Once
<1>5. ~Contains(r, s[n])
  BY <1>4 DEF Contains
<1>6. QED
  BY <1>3, <1>5 DEF Once, r

\* A key that is used again changes its place and nothing else.
LEMMA MoveToEndOnce ==
    ASSUME NEW T, NEW s \in Seq(T), NEW x \in T, Contains(s, x), Once(s)
    PROVE  Once(MoveToEnd(s, x)) /\ Len(MoveToEnd(s, x)) = Len(s)
<1> DEFINE n == CHOOSE i \in DOMAIN s : s[i] = x
<1>1. n \in 1..Len(s) /\ s[n] = x
  BY DEF Contains
<1>2. MoveToEnd(s, x) = Append(RemoveAt(s, n), x)
  BY DEF MoveToEnd
<1> HIDE DEF n
<1>3. /\ RemoveAt(s, n) \in Seq(T) /\ Len(RemoveAt(s, n)) = Len(s) - 1
      /\ Once(RemoveAt(s, n)) /\ ~Contains(RemoveAt(s, n), x)
  BY <1>1, RemoveAtPoints, RemoveAtOnce
<1>4. /\ Once(Append(RemoveAt(s, n), x))
      /\ Len(Append(RemoveAt(s, n), x)) = Len(RemoveAt(s, n)) + 1
  BY <1>3, AppendOnce
<1>5. Len(s) \in Nat
  OBVIOUS
<1>6. QED
  BY <1>2, <1>3, <1>4, <1>5

\* When each key is held once, the keys are as many as the places.
LEMMA OnceCounts ==
    ASSUME NEW T, NEW s \in Seq(T), Once(s)
    PROVE  Len(s) = Cardinality(ToSet(s))
<1>1. Len(s) \in Nat /\ DOMAIN s = 1..Len(s)
  OBVIOUS
<1>2. s \in [1..Len(s) -> ToSet(s)]
  <2>1. s = [k \in 1..Len(s) |-> s[k]]
    OBVIOUS
  <2>2. \A k \in 1..Len(s) : s[k] \in ToSet(s)
    BY <1>1 DEF ToSet
  <2>3. QED
    BY <2>1, <2>2
<1>3. s \in Bijection(1..Len(s), ToSet(s))
  <2>1. \A t \in ToSet(s) : \E k \in 1..Len(s) : s[k] = t
    BY <1>1 DEF ToSet
  <2>2. QED
    BY <1>2, <2>1 DEF Bijection, Injection, Surjection, Once, IsInjective
<1>4. ExistsBijection(1..Len(s), ToSet(s))
  BY <1>3 DEF ExistsBijection
<1>5. QED
  BY <1>1, <1>4, FS_CountingElements

\* An entry too many is there only as long as some thread is trimming.
Trimming == {c \in Threads : call[c].at \in {"trim", "pop"}}

SeenInv ==
    /\ Once(seen) /\ Once(mirrored)
    /\ Len(mirrored) <= MaxSeen
    /\ Len(seen) > MaxSeen => Trimming # {}

LEMMA SeenInit == Init => SeenInv
  BY WriteAssumption DEF Init, SeenInv, Once

\* A step of another kind leaves the threads that trim where they are.
LEMMA TrimmingKept ==
    ASSUME CallTyped, NEW c \in Threads, call[c].at \notin {"trim", "pop"},
           NEW e, call' = [call EXCEPT ![c] = e]
    PROVE  Trimming \subseteq Trimming'
  BY DEF Trimming, CallTyped

LEMMA TrimmingKeptGoing ==
    ASSUME CallTyped, NEW c \in Threads, NEW p, Goes(c, p), p \in {"trim", "pop"}
    PROVE  Trimming' # {}
<1>1. call'[c].at = p
  BY DEF Goes, CallTyped
<1>2. QED
  BY <1>1 DEF Trimming

LEMMA MirroredBounded ==
    ASSUME Typed, SeenInv, NEW x \in Plain, NEW o \in Observations, MemoryWrite(x, o)
    PROVE  Once(mirrored') /\ Len(mirrored') <= MaxSeen
<1>0. /\ mirrored \in Seq(Observations) /\ Len(mirrored) \in Nat
      /\ Once(mirrored) /\ Len(mirrored) <= MaxSeen /\ MaxSeen \in Nat \ {0}
  BY WriteAssumption DEF Typed, SequencesTyped, SeenInv
<1>1. CASE Contains(mirrored, o)
  <2>1. mirrored' = MoveToEnd(mirrored, o)
    BY <1>1 DEF MemoryWrite, Remember
  <2>2. QED
    BY <1>0, <1>1, <2>1, MoveToEndOnce
<1>2. CASE ~Contains(mirrored, o) /\ Len(mirrored) < MaxSeen
  <2>1. mirrored' = Append(mirrored, o)
    BY <1>2 DEF MemoryWrite, Remember
  <2>2. QED
    BY <1>0, <1>2, <2>1, AppendOnce
<1>3. CASE ~Contains(mirrored, o) /\ ~(Len(mirrored) < MaxSeen)
  <2>1. mirrored' = Append(Tail(mirrored), o)
    BY <1>3 DEF MemoryWrite, Remember
  <2>2. mirrored # <<>>
    BY <1>0, <1>3
  <2>3. /\ Tail(mirrored) \in Seq(Observations) /\ Len(Tail(mirrored)) = Len(mirrored) - 1
        /\ Once(Tail(mirrored)) /\ ~Contains(Tail(mirrored), o)
    BY <1>0, <1>3, <2>2, TailOnce, HeadTailKeep
  <2>4. Once(mirrored') /\ Len(mirrored') = Len(Tail(mirrored)) + 1
    BY <2>1, <2>3, AppendOnce
  <2>5. QED
    BY <1>0, <2>3, <2>4
<1>4. QED
  BY <1>1, <1>2, <1>3

LEMMA SeenBoundedStep ==
    ASSUME Typed, SeenInv, [Next]_vars
    PROVE  SeenInv'
<1>0. /\ CallTyped /\ seen \in Seq(Observations) /\ Len(seen) \in Nat
      /\ Once(seen) /\ MaxSeen \in Nat
  BY WriteAssumption DEF Typed, SequencesTyped, SeenInv
<1>1. ASSUME NEW c \in Threads, Dedup(c) PROVE SeenInv'
  <2>0. mirrored' = mirrored /\ Once(mirrored') /\ Len(mirrored') <= MaxSeen
    BY <1>1, DedupFrame DEF SeenInv
  <2>1. CASE DedupTest(c)
    <3>1. seen' = seen /\ call[c].at = "test" /\ \E p : Goes(c, p)
      BY <2>1 DEF DedupTest, dedupVars
    <3>2. Trimming \subseteq Trimming'
      BY <1>0, <3>1 DEF Trimming, Goes, CallTyped
    <3>3. QED
      BY <2>0, <3>1, <3>2 DEF SeenInv
  <2>2. CASE DedupTouch(c)
    <3>1. call[c].at = "touch" /\ call' = [call EXCEPT ![c] = Idle]
      BY <2>2 DEF DedupTouch, Ends
    <3>2. Trimming \subseteq Trimming'
      BY <1>0, <3>1, TrimmingKept
    <3>3. Once(seen') /\ Len(seen') = Len(seen)
      <4>1. CASE Contains(seen, call[c].what)
        <5>1. call[c].what \in Observations
          BY <1>0, <4>1 DEF Contains
        <5>2. seen' = MoveToEnd(seen, call[c].what)
          BY <2>2, <4>1 DEF DedupTouch
        <5>3. QED
          BY <1>0, <4>1, <5>1, <5>2, MoveToEndOnce
      <4>2. CASE ~Contains(seen, call[c].what)
        BY <1>0, <2>2, <4>2 DEF DedupTouch
      <4>3. QED
        BY <4>1, <4>2
    <3>4. QED
      BY <2>0, <3>2, <3>3 DEF SeenInv
  <2>3. CASE DedupInsert(c)
    <3>1. Trimming' # {}
      BY <1>0, <2>3, TrimmingKeptGoing DEF DedupInsert
    <3>2. Once(seen')
      BY <1>0, <2>3, AppendOnce DEF DedupInsert, CallTyped
    <3>3. QED
      BY <2>0, <3>1, <3>2 DEF SeenInv
  <2>4. CASE DedupTrim(c)
    <3>1. seen' = seen
      BY <2>4 DEF DedupTrim, dedupVars
    <3>2. Len(seen) > MaxSeen => Trimming' # {}
      BY <1>0, <2>4, TrimmingKeptGoing DEF DedupTrim
    <3>3. QED
      BY <1>0, <2>0, <3>1, <3>2 DEF SeenInv
  <2>5. CASE DedupPop(c) /\ seen # <<>>
    <3>1. Trimming' # {}
      BY <1>0, <2>5, TrimmingKeptGoing DEF DedupPop
    <3>2. Once(seen')
      BY <1>0, <2>5, TailOnce DEF DedupPop
    <3>3. QED
      BY <2>0, <3>1, <3>2 DEF SeenInv
  <2>6. CASE DedupPop(c) /\ seen = <<>>
    <3>1. seen' = seen /\ Len(seen) = 0
      BY <2>6 DEF DedupPop
    <3>2. QED
      BY <1>0, <2>0, <3>1 DEF SeenInv
  <2>7. QED
    BY <1>1, <2>1, <2>2, <2>3, <2>4, <2>5, <2>6 DEF Dedup
<1>2. ASSUME UNCHANGED seen, Trimming \subseteq Trimming',
             Once(mirrored') /\ Len(mirrored') <= MaxSeen
      PROVE  SeenInv'
  BY <1>2 DEF SeenInv
<1>3. CASE Hermes
  <2>1. UNCHANGED seen
    BY <1>3, HermesFrame
  <2>2. Trimming \subseteq Trimming'
    <3>1. CASE UNCHANGED call
      BY <3>1 DEF Trimming
    <3>2. ASSUME NEW o \in Observations, Observe(o) PROVE Trimming \subseteq Trimming'
      <4>1. Host \in Threads /\ call[Host].at \notin {"trim", "pop"}
        BY <3>2, IdleTyped DEF Observe, Threads
      <4>2. call' = [call EXCEPT ![Host] = Entry(o)]
        BY <3>2 DEF Observe
      <4>3. QED
        BY <1>0, <4>1, <4>2, TrimmingKept
    <3>3. QED
      BY <1>3, <3>1, <3>2 DEF Hermes, Hook, MemoryWrite
  <2>3. Once(mirrored') /\ Len(mirrored') <= MaxSeen
    BY <1>3, HermesFrame, MirroredBounded DEF SeenInv
  <2>4. QED
    BY <1>2, <2>1, <2>2, <2>3
<1>4. CASE Evict \/ UNCHANGED vars
  <2>1. UNCHANGED <<mirrored, seen, call>>
    BY <1>4 DEF Evict, vars, dedupVars
  <2>2. QED
    BY <1>2, <2>1 DEF Trimming, SeenInv
<1>5. ASSUME NEW w \in Workers, TakeJob(w) PROVE SeenInv'
  <2>1. w \in Threads /\ call[w].at \notin {"trim", "pop"}
    BY <1>5, IdleTyped DEF TakeJob, Threads
  <2>2. call' = [call EXCEPT ![w] = Entry(Head(queue))] /\ UNCHANGED <<mirrored, seen>>
    BY <1>5 DEF TakeJob, dedupVars
  <2>3. Trimming \subseteq Trimming'
    BY <1>0, <2>1, <2>2, TrimmingKept
  <2>4. QED
    BY <1>2, <2>2, <2>3 DEF SeenInv
<1>6. ASSUME NEW c \in Threads, Request(c) PROVE SeenInv'
  <2>1. UNCHANGED <<mirrored, seen>>
    BY <1>6, RequestFrame
  <2>2. call[c].at \notin {"trim", "pop"}
    BY <1>6 DEF Request, Post, Delivered, AnswerLost, Failed, Unauthorized, Rotate, CloseOld,
                AppendLog
  <2>3. \A d \in Threads \ {c} : call'[d] = call[d]
    <3>1. CASE Post(c) \/ Unauthorized(c) \/ CloseOld(c)
      BY <1>0, <3>1 DEF Post, Unauthorized, Goes, CloseOld, CallTyped
    <3>2. CASE Delivered(c) \/ AppendLog(c)
      BY <1>0, <3>2 DEF Delivered, AppendLog, Ends, CallTyped
    <3>3. CASE AnswerLost(c) \/ Failed(c) \/ Rotate(c)
      BY <1>0, <3>3 DEF AnswerLost, Failed, Rotate, Goes, CallTyped
    <3>4. QED
      BY <1>6, <3>1, <3>2, <3>3 DEF Request
  <2>4. Trimming \subseteq Trimming'
    BY <2>2, <2>3 DEF Trimming
  <2>5. QED
    BY <1>2, <2>1, <2>4 DEF SeenInv
<1>7. QED
  BY <1>1, <1>3, <1>4, <1>5, <1>6 DEF Next

\* However the inserts and evictions of several threads interleave, the client's
\* deduplicator holds each key once, and at most max_size keys when no thread is inside
\* it; the provider's own never holds more.
THEOREM DedupBounded == Spec => []SeenBounded
<1>1. Init => Typed /\ SeenInv
  BY TypedInit, SeenInit
<1>2. Typed /\ SeenInv /\ [Next]_vars => (Typed /\ SeenInv)'
  BY TypedStep, SeenBoundedStep
<1>3. Typed /\ SeenInv => SeenBounded
  <2> SUFFICES ASSUME Typed, SeenInv PROVE SeenBounded
    OBVIOUS
  <2>1. Len(seen) = Cardinality(ToSet(seen))
    BY OnceCounts DEF Typed, SequencesTyped, SeenInv
  <2>2. InDedup = {} => Trimming = {}
    BY DEF InDedup, Trimming
  <2>3. Len(seen) \in Nat /\ MaxSeen \in Nat
    BY WriteAssumption DEF Typed, SequencesTyped
  <2>4. QED
    BY <2>1, <2>2, <2>3 DEF SeenInv, SeenBounded
<1>4. QED
  BY <1>1, <1>2, <1>3, PTL DEF Spec

-----------------------------------------------------------------------------
(* popitem() finds an entry.  A thread pops after it has seen an entry too *)
(* many, and the other threads can take no more than one each; as long as  *)
(* the threads are no more than max_size + 1, the dictionary holds an      *)
(* entry for every thread that is about to pop.                            *)

Popping == {c \in Threads : call[c].at = "pop"}

PopInv == Cardinality(Popping) <= Len(seen)

LEMMA PoppingFinite ==
    /\ IsFiniteSet(Popping) /\ Cardinality(Popping) \in Nat
    /\ Cardinality(Popping) <= MaxSeen + 1
<1>1. IsFiniteSet(Threads) /\ Cardinality(Threads) \in Nat
  BY WriteAssumption, FS_AddElement, FS_CardinalityType DEF Threads
<1>2. Popping \subseteq Threads
  BY DEF Popping
<1>3. IsFiniteSet(Popping) /\ Cardinality(Popping) <= Cardinality(Threads)
  BY <1>1, <1>2, FS_Subset
<1>4. QED
  BY <1>1, <1>3, WriteAssumption, FS_CardinalityType

LEMMA PopInit == Init => PopInv
<1>1. ASSUME Init PROVE Popping = {} /\ Len(seen) = 0
  BY <1>1, IdleTyped DEF Init, Popping
<1>2. QED
  BY <1>1, FS_EmptySet DEF PopInv

\* A step that brings no thread to popitem() and takes no entry.
LEMMA PopKept ==
    ASSUME PopInv, seen \in Seq(Observations), seen' \in Seq(Observations),
           Popping' \subseteq Popping, Len(seen') >= Len(seen)
    PROVE  PopInv'
<1>1. Cardinality(Popping') <= Cardinality(Popping) /\ Cardinality(Popping') \in Nat
  BY PoppingFinite, FS_Subset, FS_CardinalityType
<1>2. Len(seen) \in Nat /\ Len(seen') \in Nat /\ Cardinality(Popping) \in Nat
  BY PoppingFinite
<1>3. QED
  BY <1>1, <1>2 DEF PopInv

LEMMA PopAside ==
    ASSUME Typed, PopInv, UNCHANGED seen, NEW c \in Threads, NEW e,
           call' = [call EXCEPT ![c] = e], e.at # "pop"
    PROVE  PopInv'
<1>1. Popping' \subseteq Popping
  BY DEF Popping, Typed, CallTyped
<1>2. QED
  BY <1>1, PopKept DEF Typed, SequencesTyped

LEMMA PopStep ==
    ASSUME Typed, SeenInv, PopInv, [Next]_vars
    PROVE  PopInv'
<1>0. /\ CallTyped /\ seen \in Seq(Observations) /\ Len(seen) \in Nat /\ Once(seen)
      /\ MaxSeen \in Nat /\ seen' \in Seq(Observations)
  BY WriteAssumption, SequencesStep DEF Typed, SequencesTyped, SeenInv
<1>1. ASSUME NEW c \in Threads, Dedup(c) PROVE PopInv'
  <2>1. CASE DedupTest(c)
    <3>1. Popping' \subseteq Popping /\ seen' = seen
      BY <1>0, <2>1 DEF DedupTest, Goes, Popping, CallTyped, dedupVars
    <3>2. QED
      BY <1>0, <3>1, PopKept
  <2>2. CASE DedupTouch(c)
    <3>1. Popping' \subseteq Popping
      BY <1>0, <2>2, IdleTyped DEF DedupTouch, Ends, Popping, CallTyped
    <3>2. Len(seen') = Len(seen)
      <4>1. CASE Contains(seen, call[c].what)
        <5>1. call[c].what \in Observations
          BY <1>0, <4>1 DEF Contains
        <5>2. seen' = MoveToEnd(seen, call[c].what)
          BY <2>2, <4>1 DEF DedupTouch
        <5>3. QED
          BY <1>0, <4>1, <5>1, <5>2, MoveToEndOnce
      <4>2. CASE ~Contains(seen, call[c].what)
        BY <2>2, <4>2 DEF DedupTouch
      <4>3. QED
        BY <4>1, <4>2
    <3>3. QED
      BY <1>0, <3>1, <3>2, PopKept
  <2>3. CASE DedupInsert(c)
    <3>1. Popping' \subseteq Popping
      BY <1>0, <2>3 DEF DedupInsert, Goes, Popping, CallTyped
    <3>2. Len(seen') >= Len(seen)
      BY <1>0, <2>3 DEF DedupInsert, CallTyped
    <3>3. QED
      BY <1>0, <3>1, <3>2, PopKept
  <2>4. CASE DedupTrim(c) /\ Len(seen) > MaxSeen
    <3>1. seen' = seen
      BY <2>4 DEF DedupTrim, dedupVars
    <3>2. Cardinality(Popping') \in Nat /\ Cardinality(Popping') <= MaxSeen + 1
      <4>1. (Cardinality(Popping) \in Nat /\ Cardinality(Popping) <= MaxSeen + 1)'
        <5>1. IsFiniteSet(Threads) /\ Cardinality(Threads) \in Nat
          BY WriteAssumption, FS_AddElement, FS_CardinalityType DEF Threads
        <5>2. Popping' \subseteq Threads
          BY DEF Popping
        <5>3. IsFiniteSet(Popping') /\ Cardinality(Popping') <= Cardinality(Threads)
          BY <5>1, <5>2, FS_Subset
        <5>4. QED
          BY <5>1, <5>3, WriteAssumption, FS_CardinalityType
      <4>2. QED
        BY <4>1
    <3>3. QED
      BY <1>0, <2>4, <3>1, <3>2 DEF PopInv
  <2>5. CASE DedupTrim(c) /\ ~(Len(seen) > MaxSeen)
    <3>1. Popping' \subseteq Popping /\ seen' = seen
      BY <1>0, <2>5 DEF DedupTrim, Goes, Popping, CallTyped, dedupVars
    <3>2. QED
      BY <1>0, <3>1, PopKept
  <2>6. CASE DedupPop(c) /\ seen # <<>>
    <3>1. seen' = Tail(seen) /\ c \in Popping /\ Goes(c, "trim")
      BY <2>6 DEF DedupPop, Popping
    <3>2. Len(seen') = Len(seen) - 1
      BY <1>0, <2>6, <3>1
    <3>3. Popping' = Popping \ {c}
      BY <1>0, <3>1 DEF Goes, Popping, CallTyped
    <3>4. Cardinality(Popping') = Cardinality(Popping) - 1
      BY <3>1, <3>3, PoppingFinite, FS_RemoveElement
    <3>5. QED
      BY <1>0, <3>2, <3>4, PoppingFinite DEF PopInv
  <2>7. CASE DedupPop(c) /\ seen = <<>>
    <3>1. Popping' \subseteq Popping /\ seen' = seen
      BY <1>0, <2>7, IdleTyped DEF DedupPop, Ends, Popping, CallTyped
    <3>2. QED
      BY <1>0, <3>1, PopKept
  <2>8. QED
    BY <1>1, <2>1, <2>2, <2>3, <2>4, <2>5, <2>6, <2>7 DEF Dedup
<1>2. ASSUME UNCHANGED seen, UNCHANGED call PROVE PopInv'
  BY <1>0, <1>2, PopKept DEF Popping
<1>3. CASE Hermes
  <2>1. UNCHANGED seen
    BY <1>3, HermesFrame
  <2>2. ASSUME NEW o \in Observations, Observe(o) PROVE PopInv'
    BY <2>1, <2>2, PopAside, EntryTyped DEF Observe, Threads, Writes
  <2>3. QED
    BY <1>2, <1>3, <2>1, <2>2 DEF Hermes, Hook, MemoryWrite
<1>4. CASE Evict \/ UNCHANGED vars
  BY <1>2, <1>4 DEF Evict, vars, dedupVars
<1>5. ASSUME NEW w \in Workers, TakeJob(w) PROVE PopInv'
  <2>1. Head(queue) \in Writes
    BY <1>5, HeadTailKeep DEF TakeJob, Typed, SequencesTyped
  <2>2. QED
    BY <1>5, <2>1, PopAside, EntryTyped DEF TakeJob, Threads, dedupVars
<1>6. ASSUME NEW c \in Threads, Request(c) PROVE PopInv'
  <2>1. UNCHANGED seen
    BY <1>6, RequestFrame
  <2>2. Popping' \subseteq Popping
    <3>1. CASE Post(c)
      BY <1>0, <3>1 DEF Post, CallTyped, Popping
    <3>2. CASE Delivered(c) \/ AppendLog(c)
      BY <1>0, <3>2, IdleTyped DEF Delivered, AppendLog, Ends, CallTyped, Popping
    <3>3. CASE AnswerLost(c) \/ Failed(c) \/ Rotate(c)
      BY <1>0, <3>3 DEF AnswerLost, Failed, Rotate, Goes, CallTyped, Popping
    <3>4. CASE Unauthorized(c)
      BY <1>0, <3>4 DEF Unauthorized, Goes, CallTyped, Popping
    <3>5. CASE CloseOld(c)
      BY <1>0, <3>5 DEF CloseOld, CallTyped, Popping
    <3>6. QED
      BY <1>6, <3>1, <3>2, <3>3, <3>4, <3>5 DEF Request
  <2>3. QED
    BY <1>0, <2>1, <2>2, PopKept
<1>7. QED
  BY <1>1, <1>3, <1>4, <1>5, <1>6 DEF Next

LEMMA PopFinds ==
    ASSUME Typed, PopInv, NEW c \in Threads, call[c].at = "pop"
    PROVE  seen # <<>>
<1>1. c \in Popping
  BY DEF Popping
<1>2. Cardinality(Popping) # 0
  BY <1>1, PoppingFinite, FS_EmptySet
<1>3. QED
  BY <1>2, PoppingFinite DEF PopInv, Typed, SequencesTyped

-----------------------------------------------------------------------------
(* The program loses nothing by itself.  S collects one write for each     *)
(* fault so far.  A key that is remembered stands for a write that has     *)
(* come to an end or is in S, or for a call that is past the deduplicator; *)
(* so does every call that has found its key and is about to be            *)
(* suppressed.                                                             *)

Delivering == {"trim", "pop", "post", "send", "rotate", "close", "log"}

Settled(x, S) == Accounted(x) \/ x \in S
Safe(x, S) == Settled(x, S) \/ \E c \in Threads : call[c].what = x /\ call[c].at \in Delivering

PathInv(S) ==
    /\ \A x \in Observations : Contains(seen, x) => Safe(x, S)
    /\ \A c \in Threads : call[c].at = "touch" => Safe(call[c].what, S)
    /\ \A x \in Observations : Contains(mirrored, x) => x \in handed
    /\ handed \subseteq Writes
    /\ \A x \in handed : Pending(x) \/ Settled(x, S)

Blamed(S) == IsFiniteSet(S) /\ Cardinality(S) <= faults /\ PathInv(S)

LEMMA PathInit == Init => Blamed({})
<1>1. ASSUME Init PROVE PathInv({})
  BY <1>1, IdleTyped DEF Init, PathInv, Contains
<1>2. ASSUME Init PROVE IsFiniteSet({}) /\ Cardinality({}) <= faults
  BY <1>2, FS_EmptySet DEF Init
<1>3. QED
  BY <1>1, <1>2 DEF Blamed

\* D holds what a silent failure hits in this step.
Hits(D) ==
    /\ \A x \in handed' \ handed : x \in Writes /\ (Pending(x)' \/ x \in D)
    /\ \A c \in Threads : AppendLog(c) /\ faults' # faults => call[c].what \in D

\* Only the hooks and the replay log meet a fault, and each hits one write.
LEMMA FaultsHit ==
    ASSUME Typed, \A x \in Observations : Contains(mirrored, x) => x \in handed, [Next]_vars
    PROVE  \E D : IsFiniteSet(D) /\ Cardinality(D) <= faults' - faults /\ Hits(D)
<1>0. /\ queue \in Seq(Writes) /\ faults \in Nat /\ faults' \in Nat
      /\ IsFiniteSet({}) /\ Cardinality({}) = 0
  BY TypedStep, FS_EmptySet DEF Typed, SequencesTyped, CountsTyped
<1>1. CASE UNCHANGED <<faults, handed>>
  <2>1. Hits({}) /\ Cardinality({}) <= faults' - faults
    BY <1>0, <1>1 DEF Hits
  <2>2. QED
    BY <1>0, <2>1
<1>a. ASSUME UNCHANGED call, NEW c \in Threads PROVE ~AppendLog(c)
  BY <1>a, IdleTyped DEF AppendLog, Ends, Typed, CallTyped
<1>2. ASSUME NEW x \in Writes, Hook(x)
      PROVE  \E D : IsFiniteSet(D) /\ Cardinality(D) <= faults' - faults /\ Hits(D)
  <2>1. Enqueue(<<x>>) /\ handed' = handed \cup {x} /\ UNCHANGED call
    BY <1>2 DEF Hook, Called
  <2>2. PICK D : Refused(D, x, x, <<x>>)
    BY <1>0, <2>1, EnqueueJobs
  <2>3. Hits(D)
    BY <1>a, <2>1, <2>2 DEF Hits, Refused, Pending
  <2>4. QED
    BY <2>2, <2>3 DEF Refused
<1>3. ASSUME NEW x \in Plain, NEW o \in Observations, MemoryWrite(x, o)
      PROVE  \E D : IsFiniteSet(D) /\ Cardinality(D) <= faults' - faults /\ Hits(D)
  <2>1. x \in Writes /\ o \in Writes /\ handed' = handed \cup {x, o} /\ UNCHANGED call
    BY <1>3 DEF MemoryWrite, Called, Writes
  <2>2. CASE Contains(mirrored, o)
    <3>1. Enqueue(<<x>>) /\ o \in handed
      BY <1>3, <2>2 DEF MemoryWrite
    <3>2. PICK D : Refused(D, x, x, <<x>>)
      BY <1>0, <2>1, <3>1, EnqueueJobs
    <3>3. Hits(D)
      BY <1>a, <2>1, <3>1, <3>2 DEF Hits, Refused, Pending
    <3>4. QED
      BY <3>2, <3>3 DEF Refused
  <2>3. CASE ~Contains(mirrored, o)
    <3>1. Enqueue(<<x, o>>)
      BY <1>3, <2>3 DEF MemoryWrite
    <3>2. PICK D : Refused(D, x, o, <<x, o>>)
      BY <1>0, <2>1, <3>1, EnqueueJobs
    <3>3. Hits(D)
      BY <1>a, <2>1, <3>2 DEF Hits, Refused, Pending
    <3>4. QED
      BY <3>2, <3>3 DEF Refused
  <2>4. QED
    BY <2>2, <2>3
<1>4. ASSUME NEW o \in Observations, Observe(o)
      PROVE  \E D : IsFiniteSet(D) /\ Cardinality(D) <= faults' - faults /\ Hits(D)
  <2>1. faults' = faults /\ handed' = handed \cup {o} /\ o \in Writes
    BY <1>4 DEF Observe, Called, ends, Writes
  <2>2. Pending(o)'
    BY <1>4, <2>1, EntryTyped DEF Observe, Pending, Typed, CallTyped, Threads
  <2>3. Hits({}) /\ Cardinality({}) <= faults' - faults
    BY <1>0, <2>1, <2>2 DEF Hits
  <2>4. QED
    BY <1>0, <2>3
<1>5. ASSUME NEW c \in Threads, AppendLog(c), UNCHANGED handed, faults' # faults
      PROVE  \E D : IsFiniteSet(D) /\ Cardinality(D) <= faults' - faults /\ Hits(D)
  <2>1. faults' - faults = 1
    <3>1. faults' = faults + 1
      BY <1>5 DEF AppendLog
    <3>2. QED
      BY <1>0, <3>1
  <2>2. IsFiniteSet({call[c].what}) /\ Cardinality({call[c].what}) = 1
    BY FS_Singleton
  <2>3. ASSUME NEW d \in Threads, AppendLog(d) PROVE d = c
    <3>1. call[c].at = "log" /\ call[d].at = "log"
      BY <1>5, <2>3 DEF AppendLog
    <3>2. call' = [call EXCEPT ![c] = Idle] /\ call' = [call EXCEPT ![d] = Idle]
      BY <1>5, <2>3 DEF AppendLog, Ends
    <3>3. QED
      BY <3>1, <3>2, IdleTyped DEF Typed, CallTyped
  <2>4. Hits({call[c].what})
    BY <1>5, <2>3 DEF Hits
  <2>5. QED
    BY <2>1, <2>2, <2>4
<1>6. Hermes \/ (\E c \in Threads : AppendLog(c) /\ UNCHANGED handed) \/ UNCHANGED <<faults, handed>>
  <2>1. CASE Evict \/ (\E w \in Workers : TakeJob(w)) \/ UNCHANGED vars
    BY <2>1 DEF Evict, TakeJob, vars, ends, ghosts
  <2>2. ASSUME NEW c \in Threads, Dedup(c) PROVE UNCHANGED <<faults, handed>>
    BY <2>2 DEF Dedup, DedupTest, DedupTouch, DedupInsert, DedupTrim, DedupPop, ends, ghosts
  <2>3. ASSUME NEW c \in Threads, Request(c)
        PROVE  (AppendLog(c) /\ UNCHANGED handed) \/ UNCHANGED <<faults, handed>>
    <3>1. UNCHANGED handed
      BY <2>3, RequestFrame
    <3>2. AppendLog(c) \/ UNCHANGED faults
      BY <2>3 DEF Request, Post, Delivered, AnswerLost, Failed, Unauthorized, Rotate, CloseOld, ends
    <3>3. QED
      BY <3>1, <3>2
  <2>4. QED
    BY <2>1, <2>2, <2>3 DEF Next
<1>7. CASE Hermes
  BY <1>2, <1>3, <1>4, <1>7 DEF Hermes
<1>8. QED
  BY <1>1, <1>5, <1>6, <1>7

\* What has come of a write stays, and grows with the set.
Persists(x, S, T) ==
    /\ Settled(x, S) => Settled(x, T)'
    /\ Safe(x, S) => Safe(x, T)'
    /\ Pending(x) \/ Settled(x, S) => Pending(x)' \/ Settled(x, T)'

\* A call that goes on towards its delivery keeps its write safe.
LEMMA GoingOn ==
    ASSUME Typed, NEW S, NEW T, S \subseteq T, NEW c \in Threads, NEW p \in Delivering,
           call[c].at # "idle", Goes(c, p), UNCHANGED <<queue, ends>>, NEW x \in Writes
    PROVE  Persists(x, S, T)
<1>1. Settled(x, S) => Settled(x, T)'
  BY DEF Settled, Accounted, traces, ends
<1>2. \A d \in Threads : call'[d].what = call[d].what
  BY DEF Typed, CallTyped, Goes
<1>3. \A d \in Threads : call[d].at \in Delivering => call'[d].at \in Delivering
  BY DEF Typed, CallTyped, Goes
<1>4. QED
  BY <1>1, <1>2, <1>3 DEF Persists, Safe, Pending

\* An ended call has been accounted for, was suppressed, or is in the set.
LEMMA Progress ==
    ASSUME Typed, PopInv, [Next]_vars, NEW S, NEW T, S \subseteq T, PathInv(S), Hits(T),
           NEW x \in Writes
    PROVE  Persists(x, S, T)
<1> USE DEF Typed, CallTyped, CountsTyped, Accounted, Settled, Safe, Pending, Persists, Delivering
<1>a. x # NoWrite
  BY WriteAssumption
<1>1. CASE Hermes
  <2>1. \A e : Contains(queue, e) => Contains(queue, e)'
    BY <1>1, HermesEnqueues DEF SequencesTyped
  <2>2. UNCHANGED traces
    BY <1>1 DEF Hermes, Hook, MemoryWrite, Observe, ends
  <2>3. ASSUME NEW c \in Threads, call[c].what = x PROVE call'[c] = call[c]
    BY <1>1, <1>a, <2>3, IdleTyped DEF Hermes, Hook, MemoryWrite, Observe, Threads
  <2>4. Settled(x, S) => Settled(x, T)'
    BY <2>2 DEF traces
  <2>5. Safe(x, S) => Safe(x, T)'
    BY <2>3, <2>4
  <2>6. Pending(x) => Pending(x)'
    BY <2>1, <2>3
  <2>7. QED
    BY <2>4, <2>5, <2>6
<1>2. CASE Evict
  <2>1. queue # <<>> /\ evicted' = evicted \cup {Head(queue)} /\ queue' = Tail(queue)
    BY <1>2 DEF Evict
  <2>2. Contains(queue, x) => Contains(queue, x)' \/ x \in evicted'
    BY <2>1, HeadTailKeep DEF SequencesTyped
  <2>3. QED
    BY <1>2, <2>1, <2>2 DEF Evict
<1>3. ASSUME NEW w \in Workers, TakeJob(w) PROVE Persists(x, S, T)
  <2>1. UNCHANGED ends /\ w \in Threads
    BY <1>3 DEF TakeJob, Threads
  <2>2. Head(queue) \in Writes /\ (Contains(queue, x) => Contains(queue, x)' \/ x = Head(queue))
    BY <1>3, HeadTailKeep DEF TakeJob, SequencesTyped
  <2>3. call'[w].what = Head(queue)
    BY <1>3, <2>1, <2>2, EntryTyped DEF TakeJob
  <2>4. ASSUME NEW c \in Threads, call[c].what = x PROVE call'[c] = call[c]
    BY <1>3, <1>a, <2>4, IdleTyped DEF TakeJob, Threads
  <2>5. QED
    BY <2>1, <2>2, <2>3, <2>4 DEF traces, ends
<1>4. ASSUME NEW c \in Threads, Dedup(c) PROVE Persists(x, S, T)
  <2>1. CASE DedupTest(c)
    BY <2>1 DEF DedupTest, Goes, traces, ends
  <2>2. CASE DedupTouch(c)
    <3>1. UNCHANGED <<queue, ends>> /\ call[c].at = "touch" /\ call' = [call EXCEPT ![c] = Idle]
      BY <2>2 DEF DedupTouch, Ends
    <3>2. Safe(x, S) => Safe(x, T)'
      BY <3>1 DEF traces, ends
    <3>3. call[c].what = x => Safe(x, S)
      BY <3>1 DEF PathInv
    <3>4. QED
      BY <3>1, <3>2, <3>3 DEF traces, ends
  <2>3. CASE DedupInsert(c) \/ DedupTrim(c)
    BY <2>3, GoingOn DEF DedupInsert, DedupTrim
  <2>4. CASE DedupPop(c)
    <3>1. Goes(c, "trim") /\ UNCHANGED <<queue, ends>> /\ call[c].at = "pop"
      BY <2>4, PopFinds DEF DedupPop
    <3>2. QED
      BY <3>1, GoingOn
  <2>5. QED
    BY <1>4, <2>1, <2>2, <2>3, <2>4 DEF Dedup
<1>5. ASSUME NEW c \in Threads, Request(c) PROVE Persists(x, S, T)
  <2>1. CASE Post(c)
    BY <2>1 DEF Post, traces, ends
  <2>2. CASE Delivered(c)
    BY <2>2 DEF Delivered, Ends
  <2>3. CASE AnswerLost(c)
    BY <2>3 DEF AnswerLost, Goes
  <2>4. CASE Failed(c) \/ Rotate(c)
    BY <2>4, GoingOn DEF Failed, Rotate
  <2>5. CASE Unauthorized(c)
    BY <2>5 DEF Unauthorized, Goes, traces, ends
  <2>6. CASE CloseOld(c)
    BY <2>6 DEF CloseOld, traces, ends
  <2>7. CASE AppendLog(c)
    <3>1. call[c].what \in log' \cup T
      BY <2>7 DEF Hits, AppendLog
    <3>2. QED
      BY <2>7, <3>1 DEF AppendLog, Ends
  <2>8. QED
    BY <1>5, <2>1, <2>2, <2>3, <2>4, <2>5, <2>6, <2>7 DEF Request
<1>6. CASE UNCHANGED vars
  BY <1>6 DEF vars, traces, ends
<1>7. QED
  BY <1>1, <1>2, <1>3, <1>4, <1>5, <1>6 DEF Next

\* What the client's deduplicator remembers afterwards, it remembered before or is
\* the key of the call that inserted it.
LEMMA SeenStep ==
    ASSUME Typed, PopInv, [Next]_vars, NEW S, NEW T, S \subseteq T, PathInv(S), Hits(T),
           NEW x \in Observations, Contains(seen, x)'
    PROVE  Safe(x, T)'
<1> USE DEF Typed, SequencesTyped
<1>1. x \in Writes
  BY DEF Writes
<1>2. CASE Contains(seen, x)
  BY <1>1, <1>2, Progress DEF PathInv, Persists
<1>3. ASSUME NEW c \in Threads, DedupInsert(c) PROVE Contains(seen, x) \/ Safe(x, T)'
  <2>1. call[c].at = "insert" /\ call[c].what \in Observations
    BY <1>3 DEF DedupInsert, CallTyped
  <2>2. Contains(seen, x) \/ x = call[c].what
    BY <1>3, <2>1, AppendKeeps DEF DedupInsert
  <2>3. call'[c].what = call[c].what /\ call'[c].at = "trim"
    BY <1>3 DEF DedupInsert, Goes, CallTyped
  <2>4. QED
    BY <2>2, <2>3 DEF Safe, Settled, Delivering
<1>4. ASSUME NEW c \in Threads, DedupTouch(c) PROVE Contains(seen, x)
  <2>1. Contains(seen, call[c].what) => call[c].what \in Observations
    BY DEF Contains
  <2>2. QED
    BY <1>4, <2>1, MoveToEndKeeps DEF DedupTouch
<1>5. ASSUME NEW c \in Threads, DedupPop(c) PROVE Contains(seen, x)
  BY <1>5, HeadTailKeep DEF DedupPop
<1>6. \/ \E c \in Threads : DedupInsert(c) \/ DedupTouch(c) \/ DedupPop(c)
      \/ UNCHANGED seen
  BY HermesFrame, RunnerFrame, DedupFrame, RequestFrame DEF Next
<1>7. QED
  BY <1>2, <1>3, <1>4, <1>5, <1>6

\* A call that is about to be suppressed was so before, or has found its key.
LEMMA TouchStep ==
    ASSUME Typed, PopInv, [Next]_vars, NEW S, NEW T, S \subseteq T, PathInv(S), Hits(T),
           NEW c \in Threads, call'[c].at = "touch"
    PROVE  Safe(call[c].what, T)' /\ call'[c].what = call[c].what
<1> USE DEF Typed, CallTyped
<1>1. ASSUME NEW d \in Threads, DedupTest(d), call[c].at # "touch"
      PROVE  /\ call'[c].what = call[c].what /\ call[c].what \in Observations
             /\ Contains(seen, call[c].what)
  BY <1>1 DEF DedupTest, Goes
<1>2. ASSUME call'[c] = call[c] PROVE Safe(call[c].what, T)' /\ call'[c].what = call[c].what
  <2>1. call[c].what \in Writes /\ Safe(call[c].what, S)
    BY <1>2 DEF PathInv
  <2>2. QED
    BY <1>2, <2>1, Progress DEF Persists
<1>3. CASE Hermes \/ Evict \/ UNCHANGED vars
  <2>1. ASSUME NEW o \in Observations, Observe(o) PROVE call'[c] = call[c]
    BY <2>1, EntryTyped DEF Observe, Writes
  <2>2. call'[c] = call[c]
    BY <1>3, <2>1 DEF Hermes, Hook, MemoryWrite, Evict, vars
  <2>3. QED
    BY <1>2, <2>2
<1>4. ASSUME NEW w \in Workers, TakeJob(w) PROVE call'[c] = call[c]
  <2>1. Head(queue) \in Writes /\ w \in Threads
    BY <1>4, HeadTailKeep DEF TakeJob, Threads, SequencesTyped
  <2>2. QED
    BY <1>4, <2>1, EntryTyped DEF TakeJob
<1>5. ASSUME NEW d \in Threads, Dedup(d) PROVE DedupTest(d) \/ call'[c] = call[c]
  BY <1>5, IdleTyped DEF Dedup, DedupTouch, DedupInsert, DedupTrim, DedupPop, Goes, Ends
<1>6. ASSUME NEW d \in Threads, Request(d) PROVE call'[c] = call[c]
  <2>1. CASE Post(d) \/ Unauthorized(d) \/ CloseOld(d)
    BY <2>1 DEF Post, Unauthorized, Goes, CloseOld
  <2>2. CASE Delivered(d) \/ AppendLog(d)
    BY <2>2, IdleTyped DEF Delivered, AppendLog, Ends
  <2>3. CASE AnswerLost(d) \/ Failed(d) \/ Rotate(d)
    BY <2>3 DEF AnswerLost, Failed, Rotate, Goes
  <2>4. QED
    BY <1>6, <2>1, <2>2, <2>3 DEF Request
<1>7. ASSUME NEW d \in Threads, DedupTest(d)
      PROVE  Safe(call[c].what, T)' /\ call'[c].what = call[c].what
  <2>1. CASE call[c].at = "touch"
    <3>1. call'[c] = call[c]
      BY <1>7, <2>1 DEF DedupTest, Goes
    <3>2. QED
      BY <1>2, <3>1
  <2>2. CASE call[c].at # "touch"
    <3>1. /\ call'[c].what = call[c].what /\ call[c].what \in Observations
          /\ Contains(seen, call[c].what)
      BY <1>1, <1>7, <2>2
    <3>2. Safe(call[c].what, S) /\ call[c].what \in Writes
      BY <3>1 DEF PathInv, Writes
    <3>3. QED
      BY <3>1, <3>2, Progress DEF Persists
  <2>3. QED
    BY <2>1, <2>2
<1>8. QED
  BY <1>2, <1>3, <1>4, <1>5, <1>6, <1>7 DEF Next

\* What the provider's own deduplicator remembers was handed over.
LEMMA MirroredStep ==
    ASSUME Typed, [Next]_vars, NEW S, PathInv(S), NEW x \in Observations, Contains(mirrored, x)'
    PROVE  x \in handed'
<1> USE DEF Typed, SequencesTyped
<1>1. handed \subseteq handed'
  BY HermesFrame, RunnerFrame, DedupFrame, RequestFrame DEF Next
<1>2. ASSUME NEW p \in Plain, NEW o \in Observations, MemoryWrite(p, o)
      PROVE  Contains(mirrored, x) \/ x \in handed'
  <2>1. CASE Contains(mirrored, o)
    BY <1>2, <2>1, MoveToEndKeeps DEF MemoryWrite, Remember
  <2>2. CASE ~Contains(mirrored, o) /\ Len(mirrored) < MaxSeen
    <3>1. mirrored' = Append(mirrored, o) /\ o \in handed'
      BY <1>2, <2>2 DEF MemoryWrite, Called, Remember
    <3>2. QED
      BY <3>1, AppendKeeps
  <2>3. CASE ~Contains(mirrored, o) /\ ~(Len(mirrored) < MaxSeen)
    <3>1. mirrored # <<>>
      BY <2>3, WriteAssumption
    <3>2. /\ Tail(mirrored) \in Seq(Observations)
          /\ \A e : Contains(Tail(mirrored), e) => Contains(mirrored, e)
      BY <3>1, HeadTailKeep
    <3>3. mirrored' = Append(Tail(mirrored), o) /\ o \in handed'
      BY <1>2, <2>3 DEF MemoryWrite, Called, Remember
    <3>4. Contains(Append(Tail(mirrored), o), x) => Contains(Tail(mirrored), x) \/ x = o
      BY <3>2, AppendKeeps
    <3>5. QED
      BY <3>2, <3>3, <3>4
  <2>4. QED
    BY <2>1, <2>2, <2>3
<1>3. (\E p \in Plain, o \in Observations : MemoryWrite(p, o)) \/ UNCHANGED mirrored
  BY HermesFrame, RunnerFrame, DedupFrame, RequestFrame DEF Next
<1>4. QED
  BY <1>1, <1>2, <1>3 DEF PathInv

LEMMA PathStep ==
    ASSUME Typed, PopInv, [Next]_vars, NEW S, NEW T, S \subseteq T, PathInv(S), Hits(T)
    PROVE  PathInv(T)'
<1>1. \A x \in Observations : Contains(seen, x)' => Safe(x, T)'
  BY SeenStep
<1>2. \A c \in Threads : call'[c].at = "touch" =>
         Safe(call[c].what, T)' /\ call'[c].what = call[c].what
  BY TouchStep
<1>3. \A x \in Observations : Contains(mirrored, x)' => x \in handed'
  BY MirroredStep
<1>4. ASSUME NEW x \in handed PROVE x \in Writes /\ (Pending(x)' \/ Settled(x, T)')
  BY <1>4, Progress DEF PathInv, Persists
<1>5. ASSUME NEW x \in handed' \ handed PROVE x \in Writes /\ (Pending(x)' \/ Settled(x, T)')
  BY <1>5 DEF Hits, Settled
<1>6. QED
  BY <1>1, <1>2, <1>3, <1>4, <1>5 DEF PathInv

\* What the faults of a step hit joins the set.
LEMMA BlamedStep ==
    ASSUME Typed, PopInv, [Next]_vars, NEW S, Blamed(S)
    PROVE  \E T : Blamed(T)'
<1>0. IsFiniteSet(S) /\ Cardinality(S) <= faults /\ PathInv(S) /\ faults \in Nat /\ faults' \in Nat
  BY TypedStep DEF Blamed, Typed, CountsTyped
<1>1. PICK D : IsFiniteSet(D) /\ Cardinality(D) <= faults' - faults /\ Hits(D)
  BY <1>0, FaultsHit DEF PathInv
<1>2. PICK T : T = S \cup D
  OBVIOUS
<1>3. /\ IsFiniteSet(T) /\ Cardinality(T) \in Nat
      /\ Cardinality(T) <= Cardinality(S) + Cardinality(D)
      /\ Cardinality(S) \in Nat /\ Cardinality(D) \in Nat
  <2>1. /\ IsFiniteSet(T)
        /\ Cardinality(T) = Cardinality(S) + Cardinality(D) - Cardinality(S \cap D)
    BY <1>0, <1>1, <1>2, FS_Union
  <2>2. IsFiniteSet(S \cap D)
    BY <1>0, FS_Intersection
  <2>3. QED
    BY <1>0, <1>1, <2>1, <2>2, FS_CardinalityType
<1>4. Hits(T)
  BY <1>1, <1>2 DEF Hits
<1>5. PathInv(T)'
  BY <1>0, <1>2, <1>4, PathStep
<1>6. Cardinality(T) <= faults'
  BY <1>0, <1>1, <1>3
<1>7. Blamed(T)'
  BY <1>3, <1>5, <1>6 DEF Blamed
<1>8. QED
  BY <1>7

\* Whatever interleaves in the hooks, the two deduplicators and the requests, the
\* program loses no write by itself: neither what was suppressed as a duplicate, nor
\* what two threads inserted at once, nor what an eviction interrupted.  The runner's
\* refusals and the log's failures lose one write each at most.
THEOREM WritesAccounted == Spec => []NothingVanishes
<1> DEFINE Inv == Typed /\ SeenInv /\ PopInv /\ \E S : Blamed(S)
<1>1. Init => Inv
  BY TypedInit, SeenInit, PopInit, PathInit
<1>2. Inv /\ [Next]_vars => Inv'
  <2> SUFFICES ASSUME Inv, [Next]_vars PROVE Inv'
    OBVIOUS
  <2>1. PICK S : Blamed(S)
    OBVIOUS
  <2>2. \E T : Blamed(T)'
    BY <2>1, BlamedStep
  <2>3. QED
    BY <2>2, TypedStep, SeenBoundedStep, PopStep
<1>3. Inv => NothingVanishes
  <2> SUFFICES ASSUME Inv PROVE NothingVanishes
    OBVIOUS
  <2>1. PICK S : Blamed(S)
    OBVIOUS
  <2>2. IsFiniteSet(S) /\ Cardinality(S) <= faults /\ Vanished \subseteq S
    BY <2>1 DEF Blamed, PathInv, Settled, Vanished
  <2>3. /\ Cardinality(Vanished) <= Cardinality(S)
        /\ Cardinality(Vanished) \in Nat /\ Cardinality(S) \in Nat
    BY <2>2, FS_Subset, FS_CardinalityType
  <2>4. QED
    BY <2>2, <2>3 DEF NothingVanishes, Typed, CountsTyped
<1> HIDE DEF Inv
<1>4. QED
  BY <1>1, <1>2, <1>3, PTL DEF Spec

-----------------------------------------------------------------------------
(* The bounds of the retries, and the sets writes end in.                  *)

\* A call rotates only after its first or second attempt, and the client it is going
\* to close is one that was opened.
RetriesInv ==
    /\ opened >= 1 /\ \A n \in closed : n >= 1
    /\ \A c \in Threads : call[c].try <= 3 /\ call[c].using <= opened
    /\ \A c \in Threads : call[c].at \in {"rotate", "close"} =>
          call[c].try < 3 /\ call[c].using >= 1

EndsInv ==
    /\ log \subseteq Writes /\ evicted \subseteq Writes /\ told \subseteq Observations
    /\ writes \in 0..MaxWrites

LEMMA RetriesInit == Init => RetriesInv /\ EndsInv
<1>1. ASSUME Init PROVE RetriesInv
  BY <1>1 DEF Init, RetriesInv, Idle, Call
<1>2. ASSUME Init PROVE EndsInv
  BY <1>2, WriteAssumption DEF Init, EndsInv
<1>3. QED
  BY <1>1, <1>2

\* One call goes on, within the bounds; nothing is opened or closed.
LEMMA RetriesAside ==
    ASSUME CallTyped, RetriesInv, UNCHANGED <<opened, closed>>, NEW c \in Threads,
           NEW e, call' = [call EXCEPT ![c] = e], e.try <= 3, e.using <= opened,
           e.at \notin {"rotate", "close"}
    PROVE  RetriesInv'
  BY DEF CallTyped, RetriesInv

LEMMA RetriesGoes ==
    ASSUME CallTyped, RetriesInv, UNCHANGED <<opened, closed>>, NEW c \in Threads,
           NEW p, Goes(c, p), p \notin {"rotate", "close"}
    PROVE  RetriesInv'
  BY DEF CallTyped, RetriesInv, Goes

LEMMA RetriesEnds ==
    ASSUME Typed, RetriesInv, UNCHANGED <<opened, closed>>, NEW c \in Threads, Ends(c)
    PROVE  RetriesInv'
<1>1. Idle.try <= 3 /\ Idle.using <= opened /\ Idle.at \notin {"rotate", "close"}
  BY DEF Idle, Call, Typed, CountsTyped
<1>2. QED
  BY <1>1, RetriesAside DEF Ends, Typed

LEMMA RetriesEnters ==
    ASSUME Typed, RetriesInv, UNCHANGED <<opened, closed>>, NEW c \in Threads,
           NEW x, call' = [call EXCEPT ![c] = Entry(x)]
    PROVE  RetriesInv'
<1>1. Entry(x).try <= 3 /\ Entry(x).using <= opened /\ Entry(x).at \notin {"rotate", "close"}
  BY DEF Entry, Call, Typed, CountsTyped
<1>2. QED
  BY <1>1, RetriesAside DEF Typed

LEMMA RetriesStep ==
    ASSUME Typed, ClientInv, RetriesInv, [Next]_vars
    PROVE  RetriesInv'
<1>0. /\ CallTyped /\ opened \in Nat /\ http = opened /\ opened >= 1
      /\ \A c \in Threads : call[c].try \in Nat /\ call[c].using \in Nat
  BY DEF Typed, CallTyped, CountsTyped, ClientInv, RetriesInv
<1>1. CASE Hermes
  <2>1. UNCHANGED <<opened, closed>>
    BY <1>1 DEF Hermes, Hook, MemoryWrite, Observe, httpVars
  <2>2. CASE UNCHANGED call
    BY <2>1, <2>2 DEF RetriesInv
  <2>3. ASSUME NEW o \in Observations, Observe(o) PROVE RetriesInv'
    BY <2>1, <2>3, RetriesEnters DEF Observe, Threads
  <2>4. QED
    BY <1>1, <2>2, <2>3 DEF Hermes, Hook, MemoryWrite
<1>2. CASE Evict \/ UNCHANGED vars
  BY <1>2 DEF Evict, vars, RetriesInv, httpVars
<1>3. ASSUME NEW w \in Workers, TakeJob(w) PROVE RetriesInv'
  BY <1>3, RetriesEnters DEF TakeJob, Threads, httpVars
<1>4. ASSUME NEW c \in Threads, Dedup(c) PROVE RetriesInv'
  <2>1. CASE DedupTest(c) \/ DedupInsert(c) \/ DedupTrim(c) \/ (DedupPop(c) /\ seen # <<>>)
    BY <1>0, <2>1, RetriesGoes DEF DedupTest, DedupInsert, DedupTrim, DedupPop, httpVars
  <2>2. CASE DedupTouch(c) \/ (DedupPop(c) /\ seen = <<>>)
    BY <2>2, RetriesEnds DEF DedupTouch, DedupPop, httpVars
  <2>3. QED
    BY <1>4, <2>1, <2>2 DEF Dedup
<1>5. ASSUME NEW c \in Threads, Request(c) PROVE RetriesInv'
  <2>1. CASE Post(c)
    <3>1. UNCHANGED <<opened, closed>>
      BY <2>1 DEF Post, httpVars
    <3>2. /\ \A d \in Threads \ {c} : call'[d] = call[d]
          /\ call'[c].try \in {1, call[c].try} /\ call'[c].using \in {http, call[c].using}
          /\ call'[c].at \in {"send", "log"}
      BY <1>0, <2>1 DEF Post, CallTyped
    <3>3. call'[c].try <= 3 /\ call'[c].using <= opened
      BY <1>0, <3>2 DEF RetriesInv
    <3>4. QED
      BY <3>1, <3>2, <3>3 DEF RetriesInv
  <2>2. CASE AnswerLost(c) \/ Failed(c)
    BY <1>0, <2>2, RetriesGoes DEF AnswerLost, Failed, httpVars
  <2>3. CASE Delivered(c) \/ AppendLog(c)
    BY <2>3, RetriesEnds DEF Delivered, AppendLog, httpVars
  <2>4. CASE Unauthorized(c)
    <3>1. UNCHANGED <<opened, closed>>
      BY <2>4 DEF Unauthorized, httpVars
    <3>2. CASE call[c].try < 3
      <4>1. call' = [call EXCEPT ![c].at = "rotate", ![c].using = http]
        BY <2>4, <3>2 DEF Unauthorized
      <4>2. /\ \A d \in Threads \ {c} : call'[d] = call[d]
            /\ call'[c].try = call[c].try /\ call'[c].using = http
        BY <1>0, <4>1 DEF CallTyped
      <4>3. QED
        BY <1>0, <3>1, <3>2, <4>2 DEF RetriesInv
    <3>3. CASE ~(call[c].try < 3)
      <4>1. Goes(c, "log")
        BY <2>4, <3>3 DEF Unauthorized
      <4>2. QED
        BY <1>0, <3>1, <4>1, RetriesGoes
    <3>4. QED
      BY <3>2, <3>3
  <2>5. CASE Rotate(c)
    <3>1. /\ call[c].at = "rotate" /\ opened' = opened + 1 /\ closed' = closed
          /\ Goes(c, "close")
      BY <2>5 DEF Rotate
    <3>2. /\ \A d \in Threads : call'[d].try = call[d].try /\ call'[d].using = call[d].using
          /\ \A d \in Threads : call'[d].at \in {"rotate", "close"} =>
                call[d].at \in {"rotate", "close"}
      BY <1>0, <3>1 DEF Goes, CallTyped
    <3>3. QED
      BY <1>0, <3>1, <3>2 DEF RetriesInv
  <2>6. CASE CloseOld(c)
    <3>1. /\ call[c].at = "close" /\ opened' = opened /\ closed' = closed \cup {call[c].using}
          /\ call' = [call EXCEPT ![c].at = "send", ![c].try = @ + 1, ![c].using = http]
      BY <2>6 DEF CloseOld
    <3>2. /\ \A d \in Threads \ {c} : call'[d] = call[d]
          /\ call'[c].try = call[c].try + 1 /\ call'[c].using = http /\ call'[c].at = "send"
      BY <1>0, <3>1 DEF CallTyped
    <3>3. call[c].try < 3 /\ call[c].using >= 1
      BY <3>1 DEF RetriesInv
    <3>4. \A n \in closed' : n >= 1
      BY <3>1, <3>3 DEF RetriesInv
    <3>5. call'[c].try <= 3 /\ call'[c].using <= opened'
      BY <1>0, <3>1, <3>2, <3>3
    <3>6. \A d \in Threads \ {c} : call'[d].try <= 3 /\ call'[d].using <= opened'
      BY <3>1, <3>2 DEF RetriesInv
    <3>7. QED
      BY <1>0, <3>1, <3>2, <3>4, <3>5, <3>6 DEF RetriesInv
  <2>7. QED
    BY <1>5, <2>1, <2>2, <2>3, <2>4, <2>5, <2>6 DEF Request
<1>6. QED
  BY <1>1, <1>2, <1>3, <1>4, <1>5 DEF Next

LEMMA EndsStep ==
    ASSUME Typed, EndsInv, [Next]_vars
    PROVE  EndsInv'
<1>0. /\ CallTyped /\ queue \in Seq(Writes) /\ MaxWrites \in Nat
      /\ \A c \in Threads : call[c].at # "idle" => call[c].what \in Writes
  BY WriteAssumption DEF Typed, SequencesTyped, CallTyped
<1>1. CASE Hermes
  <2>1. UNCHANGED <<log, evicted, told>>
    BY <1>1 DEF Hermes, Hook, MemoryWrite, Observe, traces, ends
  <2>2. writes < MaxWrites /\ writes' = writes + 1
    BY <1>1 DEF Hermes, Hook, MemoryWrite, Observe, Called
  <2>3. QED
    BY <1>0, <2>1, <2>2 DEF EndsInv
<1>2. CASE Evict
  <2>1. Head(queue) \in Writes
    BY <1>0, <1>2, HeadTailKeep DEF Evict
  <2>2. QED
    BY <1>2, <2>1 DEF Evict, ghosts, EndsInv
<1>3. ASSUME NEW w \in Workers, TakeJob(w) PROVE EndsInv'
  BY <1>3 DEF TakeJob, traces, ends, ghosts, EndsInv
<1>4. ASSUME NEW c \in Threads, Dedup(c) PROVE EndsInv'
  <2>1. CASE DedupTouch(c)
    <3>1. Contains(seen, call[c].what) => call[c].what \in Observations
      BY DEF Contains, Typed, SequencesTyped
    <3>2. QED
      BY <2>1, <3>1 DEF DedupTouch, traces, ends, EndsInv
  <2>2. CASE DedupPop(c)
    BY <1>0, <2>2 DEF DedupPop, traces, ends, ghosts, EndsInv
  <2>3. CASE DedupTest(c) \/ DedupInsert(c) \/ DedupTrim(c)
    BY <2>3 DEF DedupTest, DedupInsert, DedupTrim, traces, ends, ghosts, EndsInv
  <2>4. QED
    BY <1>4, <2>1, <2>2, <2>3 DEF Dedup
<1>5. ASSUME NEW c \in Threads, Request(c) PROVE EndsInv'
  <2>1. CASE Delivered(c)
    BY <2>1 DEF Delivered, EndsInv
  <2>2. CASE AppendLog(c)
    BY <1>0, <2>2 DEF AppendLog, ghosts, EndsInv
  <2>3. CASE Post(c) \/ AnswerLost(c) \/ Failed(c) \/ Unauthorized(c)
    BY <2>3 DEF Post, AnswerLost, Failed, Unauthorized, traces, ends, ghosts, EndsInv
  <2>4. CASE Rotate(c) \/ CloseOld(c)
    BY <2>4 DEF Rotate, CloseOld, traces, ends, ghosts, EndsInv
  <2>5. QED
    BY <1>5, <2>1, <2>2, <2>3, <2>4 DEF Request
<1>6. CASE UNCHANGED vars
  BY <1>6 DEF vars, traces, ends, ghosts, EndsInv
<1>7. QED
  BY <1>1, <1>2, <1>3, <1>4, <1>5, <1>6 DEF Next

\* The types: in particular a request is attempted three times at most, whatever the
\* rotations of other threads do to the client it uses.
THEOREM WritePathTyped == Spec => []TypeOK
<1> DEFINE Inv == Typed /\ ClientInv /\ RetriesInv /\ EndsInv
<1>1. Init => Inv
  BY TypedInit, ClientInit, RetriesInit
<1>2. Inv /\ [Next]_vars => Inv'
  BY TypedStep, ClientStep, RetriesStep, EndsStep
<1>3. Inv => TypeOK
  <2> SUFFICES ASSUME Inv PROVE TypeOK
    OBVIOUS
  <2>1. call \in [Threads -> [at : Places, what : Writes \cup {NoWrite}, try : 0..3, using : 0..opened]]
    BY DEF Typed, CallTyped, CountsTyped, RetriesInv
  <2>2. opened \in Nat /\ http \in 1..opened /\ closed \subseteq 1..opened
    BY DEF Typed, CountsTyped, ClientInv, RetriesInv
  <2>3. QED
    BY <2>1, <2>2 DEF Typed, SequencesTyped, CountsTyped, EndsInv, TypeOK, Places
<1> HIDE DEF Inv
<1>4. QED
  BY <1>1, <1>2, <1>3, PTL DEF Spec

=============================================================================
