------------------------ MODULE RecallPipelineProofs ------------------------
(***************************************************************************)
(* Proofs about RecallPipeline, for any sets of profiles, sessions and     *)
(* workers and any size of the cache: a cache entry never holds a text of  *)
(* another profile or of an unrelated session, and neither does what       *)
(* prefetch() and on_pre_compress() read; refreshes are coalesced; and the *)
(* order of the cache holds the keys that have a text, each once.          *)
(***************************************************************************)
EXTENDS RecallPipeline, FiniteSetTheorems, SequenceTheorems, TLAPS

\* The kinds of job that will store a text under their key.
Storing == {"submitting", "refresh", "settling", "lineage"}

\* What makes isolation inductive: the text a job will bring belongs under the
\* key the job has carried since it was submitted.
FitJobs(kin) ==
    {j \in Jobs : j.kind \in Storing => j.key \in Keys /\ j.of \in EntitledBy(kin, j.key)}

JobsFit == queue \in Seq(FitJobs(lineage)) /\ job \in [Workers -> FitJobs(lineage)]

SessionTyped == profile \in Profiles /\ thread \in Threads

RecallInv == SessionTyped /\ JobsFit /\ KeyedIsolation /\ ServedOwn

\* A session may be shown its own texts.
LEMMA OwnIsEntitled == ASSUME NEW kin, NEW k PROVE k \in EntitledBy(kin, k)
  BY DEF EntitledBy

\* A session switch only adds to what a session may be shown.
LEMMA EntitledGrows ==
    ASSUME NEW kin, NEW more, kin \subseteq more, NEW k
    PROVE  EntitledBy(kin, k) \subseteq EntitledBy(more, k)
  BY DEF EntitledBy

\* So a job that fits goes on fitting.
LEMMA FitJobsGrow ==
    ASSUME NEW kin, NEW more, kin \subseteq more
    PROVE  FitJobs(kin) \subseteq FitJobs(more)
<1> SUFFICES ASSUME NEW j \in FitJobs(kin) PROVE j \in FitJobs(more)
  OBVIOUS
<1>1. EntitledBy(kin, j.key) \subseteq EntitledBy(more, j.key)
  BY EntitledGrows
<1>2. QED
  BY <1>1 DEF FitJobs

\* Jobs that are not about a text fit, and so does the refresh of a session.
LEMMA NewJobsFit ==
    ASSUME NEW kin
    PROVE  /\ Idle \in FitJobs(kin)
           /\ BringUpJob \in FitJobs(kin)
           /\ Job("recap", NoText, NoText) \in FitJobs(kin)
           /\ \A k \in Keys : /\ RefreshJob(k) \in FitJobs(kin)
                              /\ Job("submitting", k, k) \in FitJobs(kin)
                              /\ Job("recap", k, NoText) \in FitJobs(kin)
  BY OwnIsEntitled DEF Idle, BringUpJob, RefreshJob, Job, Jobs, Kinds, Texts, FitJobs, Storing

\* The cache read under the session's own key yields what it may be shown.
LEMMA TextAtEntitled ==
    ASSUME SessionTyped, KeyedIsolation
    PROVE  TextAt(Own) \in {NoText} \cup Entitled(Own)
  BY DEF TextAt, SessionTyped, KeyedIsolation, Own, Keys

\* Clearing a profile keeps the cache isolated.
LEMMA ClearIsolated ==
    ASSUME NEW p, KeyedIsolation, ClearProfile(p), lineage \subseteq lineage'
    PROVE  KeyedIsolation'
<1> SUFFICES ASSUME NEW k \in Keys
             PROVE  items'[k] \in {Absent, NoText} \cup EntitledBy(lineage', k)
  BY DEF KeyedIsolation, Entitled
<1>1. items[k] \in {Absent, NoText} \cup EntitledBy(lineage', k)
  BY EntitledGrows DEF KeyedIsolation, Entitled
<1>2. items'[k] \in {Absent, items[k]}
  BY DEF ClearProfile
<1>3. QED
  BY <1>1, <1>2

\* Storing the text of a job that fits keeps the cache isolated.
LEMMA StoreIsolated ==
    ASSUME KeyedIsolation, UNCHANGED lineage,
           NEW j \in FitJobs(lineage), j.kind \in Storing,
           NEW text \in {j.of, NoText}, Store(j.key, text)
    PROVE  KeyedIsolation'
<1> SUFFICES ASSUME NEW k \in Keys
             PROVE  items'[k] \in {Absent, NoText} \cup EntitledBy(lineage, k)
  BY DEF KeyedIsolation, Entitled
<1>1. items[k] \in {Absent, NoText} \cup EntitledBy(lineage, k)
  BY DEF KeyedIsolation, Entitled
<1>2. items'[k] \in {Absent, items[k]} \/ (k = j.key /\ items'[k] = text)
  BY DEF Store
<1>3. j.of \in EntitledBy(lineage, j.key)
  BY DEF FitJobs
<1>4. QED
  BY <1>1, <1>2, <1>3

-----------------------------------------------------------------------------

LEMMA RecallInit == Init => RecallInv
<1> SUFFICES ASSUME Init PROVE RecallInv
  OBVIOUS
<1>1. SessionTyped
  BY RecallAssumption DEF Init, SessionTyped
<1>2. JobsFit
  BY NewJobsFit DEF Init, JobsFit
<1>3. KeyedIsolation
  BY DEF Init, KeyedIsolation
<1>4. ServedOwn
  BY DEF Init, ServedOwn
<1>5. QED
  BY <1>1, <1>2, <1>3, <1>4 DEF RecallInv

\* A step of the hooks preserves the invariant.
LEMMA HookStep ==
    ASSUME RecallInv, HookBegins \/ HookGoesOn
    PROVE  RecallInv'
<1> USE DEF RecallInv, SessionTyped
<1>0. /\ Own \in Keys
      /\ TextAt(Own) \in {NoText} \cup Entitled(Own)
  BY TextAtEntitled DEF Own, Keys
<1>1. ASSUME NEW p \in Profiles, NEW t \in Threads, Initialize(p, t)
      PROVE  RecallInv'
  <2>1. JobsFit'
    BY <1>1, NewJobsFit, AppendProperties DEF Initialize, JobsFit
  <2>2. KeyedIsolation'
    BY <1>1 DEF Initialize, KeyedIsolation, Entitled, cache
  <2>3. QED
    BY <1>1, <2>1, <2>2 DEF Initialize, Called, ServedOwn
<1>2. ASSUME NEW t \in Threads, Prefetch(t)
      PROVE  RecallInv'
  <2>1. KeyedIsolation'
    <3>1. CASE t # thread
      BY <1>2, <3>1, ClearIsolated DEF Prefetch, ghosts
    <3>2. CASE t = thread
      BY <1>2, <3>2 DEF Prefetch, KeyedIsolation, Entitled, ghosts
    <3>3. QED
      BY <3>1, <3>2
  <2>2. QED
    BY <1>2, <2>1 DEF Prefetch, Called, ServedOwn, JobsFit, runner, ghosts
<1>3. ASSUME NEW t \in Threads, QueuePrefetch(t)
      PROVE  RecallInv'
  BY <1>3 DEF QueuePrefetch, Called, ServedOwn, JobsFit, KeyedIsolation, Entitled, runner, ghosts
<1>4. ASSUME NEW t \in Threads, SessionReset(t)
      PROVE  RecallInv'
  <2>1. KeyedIsolation'
    BY <1>4, ClearIsolated DEF SessionReset, ghosts
  <2>2. QED
    BY <1>4, <2>1 DEF SessionReset, Called, ServedOwn, JobsFit, runner, ghosts
<1>5. ASSUME NEW t \in Threads, NEW parent \in Threads, SessionBranch(t, parent)
      PROVE  RecallInv'
  <2>1. KeyedIsolation'
    BY <1>5, ClearIsolated DEF SessionBranch
  <2> DEFINE child == Job("lineage", <<profile, parent>>, <<profile, t>>)
  <2>2. child \in FitJobs(lineage')
    <3>1. <<profile, t, parent>> \in lineage'
      BY <1>5 DEF SessionBranch
    <3>2. <<profile, parent>> \in EntitledBy(lineage', <<profile, t>>)
      BY <3>1 DEF EntitledBy
    <3>3. QED
      BY <3>2 DEF FitJobs, Job, Jobs, Kinds, Texts, Keys
  <2>3. JobsFit'
    <3>1. FitJobs(lineage) \subseteq FitJobs(lineage')
      BY <1>5, FitJobsGrow DEF SessionBranch
    <3>2. queue \in Seq(FitJobs(lineage')) /\ job \in [Workers -> FitJobs(lineage')]
      BY <3>1 DEF JobsFit
    <3>3. QED
      BY <1>5, <2>2, <3>2, AppendProperties DEF SessionBranch, JobsFit
  <2>4. QED
    BY <1>5, <2>1, <2>3 DEF SessionBranch, Called, ServedOwn
<1>6. ASSUME NEW p \in Profiles, TurnStart(p)
      PROVE  RecallInv'
  <2>1. KeyedIsolation'
    BY <1>6, ClearIsolated DEF TurnStart, ghosts
  <2>2. QED
    BY <1>6, <2>1 DEF TurnStart, Called, ServedOwn, JobsFit, runner, ghosts
<1>7. CASE PreCompress
  BY <1>0, <1>7 DEF PreCompress, Called, ServedOwn, JobsFit, KeyedIsolation, Entitled, Own,
                    identity, runner, ghosts
<1>8. CASE EngineFetch
  BY <1>8 DEF EngineFetch, Called, ServedOwn, JobsFit, KeyedIsolation, Entitled,
              identity, runner, ghosts
<1>9. CASE PrefetchSetCurrent \/ PrefetchGet
  <2>1. CASE PrefetchSetCurrent
    BY <2>1 DEF PrefetchSetCurrent, ServedOwn, JobsFit, KeyedIsolation, Entitled, Own,
                identity, runner, ghosts
  <2>2. CASE PrefetchGet
    BY <1>0, <2>2 DEF PrefetchGet, ServedOwn, JobsFit, KeyedIsolation, Entitled, Own,
                      identity, runner, ghosts
  <2>3. QED
    BY <1>9, <2>1, <2>2
<1>10. CASE RefreshTest
  BY <1>10 DEF RefreshTest, ServedOwn, JobsFit, KeyedIsolation, Entitled, Own,
               identity, cache, runner, ghosts
<1>11. CASE RefreshSubmit
  <2>1. JobsFit'
    BY <1>0, <1>11, NewJobsFit, AppendProperties DEF RefreshSubmit, StartRefresh, JobsFit
  <2>2. QED
    BY <1>11, <2>1 DEF RefreshSubmit, ServedOwn, KeyedIsolation, Entitled, Own, identity
<1>12. CASE RecapSubmit
  <2>1. JobsFit'
    BY <1>12, NewJobsFit, AppendProperties DEF RecapSubmit, JobsFit, ghosts
  <2>2. QED
    BY <1>12, <2>1 DEF RecapSubmit, ServedOwn, KeyedIsolation, Entitled, Own, identity, cache, ghosts
<1>13. CASE Return
  BY <1>13 DEF Return, ServedOwn, JobsFit, KeyedIsolation, Entitled,
               identity, cache, runner, ghosts
<1>14. QED
  BY <1>1, <1>2, <1>3, <1>4, <1>5, <1>6, <1>7, <1>8, <1>9, <1>10, <1>11, <1>12, <1>13
  DEF HookBegins, HookGoesOn

\* Losing a job leaves jobs that fit.
LEMMA LoseStep == ASSUME RecallInv, LoseJob PROVE RecallInv'
<1> USE DEF RecallInv, SessionTyped
<1>1. JobsFit'
  <2>1. PICK i \in {1, Len(queue)} : queue # <<>> /\ queue' = RemoveAt(queue, i)
    BY DEF LoseJob
  <2>2. queue \in Seq(FitJobs(lineage)) /\ i \in 1..Len(queue)
    BY <2>1, EmptySeq, LenProperties DEF JobsFit
  <2>3. SubSeq(queue, 1, i - 1) \in Seq(FitJobs(lineage))
    BY <2>2, SubSeqProperties
  <2>4. SubSeq(queue, i + 1, Len(queue)) \in Seq(FitJobs(lineage))
    BY <2>2, SubSeqProperties
  <2>5. queue' \in Seq(FitJobs(lineage))
    BY <2>1, <2>3, <2>4, ConcatProperties DEF RemoveAt
  <2>6. QED
    BY <2>5 DEF LoseJob, JobsFit
<1>2. QED
  BY <1>1 DEF LoseJob, ServedOwn, KeyedIsolation, Entitled, Own, identity, cache, call

\* A step of a worker preserves the invariant.
LEMMA WorkStep == ASSUME RecallInv, NEW w \in Workers, Work(w) PROVE RecallInv'
<1> USE DEF RecallInv, SessionTyped
<1>0. /\ Own \in Keys
      /\ job \in [Workers -> FitJobs(lineage)] /\ job[w] \in FitJobs(lineage)
      /\ job[w] \in Jobs
  BY DEF Own, Keys, JobsFit, FitJobs
<1>1. CASE TakeJob(w)
  <2>1. Head(queue) \in FitJobs(lineage) /\ Tail(queue) \in Seq(FitJobs(lineage))
    BY <1>1, HeadTailProperties DEF TakeJob, JobsFit
  <2>2. JobsFit'
    BY <1>0, <1>1, <2>1, NewJobsFit DEF TakeJob, JobsFit, ghosts
  <2>3. QED
    BY <1>1, <2>2 DEF TakeJob, ServedOwn, KeyedIsolation, Entitled, Own, identity, cache, call, ghosts
<1>2. CASE FinishRecall(w)
  <2>1. KeyedIsolation'
    <3>1. CASE UNCHANGED cache
      BY <1>2, <3>1 DEF FinishRecall, KeyedIsolation, Entitled, cache, ghosts
    <3>2. CASE \E text \in {job[w].of, NoText} : Store(job[w].key, text)
      <4>1. PICK text \in {job[w].of, NoText} : Store(job[w].key, text)
        BY <3>2
      <4>2. QED
        BY <1>0, <1>2, <4>1, StoreIsolated DEF FinishRecall, Storing, ghosts
    <3>3. QED
      BY <1>2, <3>1, <3>2 DEF FinishRecall
  <2>2. JobsFit'
    <3>1. [job[w] EXCEPT !.kind = "settling"] \in FitJobs(lineage)
      BY <1>0, <1>2 DEF FinishRecall, FitJobs, Jobs, Kinds, Storing
    <3>2. job' = [job EXCEPT ![w] = [job[w] EXCEPT !.kind = "settling"]]
      BY <1>2 DEF FinishRecall
    <3>3. QED
      BY <1>0, <1>2, <3>1, <3>2 DEF FinishRecall, JobsFit, ghosts
  <2>3. QED
    BY <1>2, <2>1, <2>2 DEF FinishRecall, ServedOwn, Entitled, Own, identity, call, ghosts
<1>3. CASE ClearInFlight(w)
  <2>1. JobsFit'
    BY <1>0, <1>3, NewJobsFit DEF ClearInFlight, JobsFit
  <2>2. QED
    BY <1>3, <2>1 DEF ClearInFlight, ServedOwn, KeyedIsolation, Entitled, Own, identity, cache, call
<1>4. CASE FinishLineage(w)
  <2>1. KeyedIsolation'
    <3>1. CASE UNCHANGED cache
      BY <1>4, <3>1 DEF FinishLineage, KeyedIsolation, Entitled, cache, ghosts
    <3>2. CASE \E text \in {job[w].of, NoText} : Store(job[w].key, text)
      <4>1. PICK text \in {job[w].of, NoText} : Store(job[w].key, text)
        BY <3>2
      <4>2. QED
        BY <1>0, <1>4, <4>1, StoreIsolated DEF FinishLineage, Storing, ghosts
    <3>3. QED
      BY <1>4, <3>1, <3>2 DEF FinishLineage
  <2>2. JobsFit'
    BY <1>0, <1>4, NewJobsFit DEF FinishLineage, JobsFit, ghosts
  <2>3. QED
    BY <1>4, <2>1, <2>2 DEF FinishLineage, ServedOwn, Entitled, Own, identity, call, ghosts
<1>5. CASE FinishRecap(w)
  <2>1. JobsFit'
    BY <1>0, <1>5, NewJobsFit DEF FinishRecap, JobsFit, ghosts
  <2>2. QED
    BY <1>5, <2>1 DEF FinishRecap, ServedOwn, KeyedIsolation, Entitled, Own, identity, cache, call, ghosts
<1>6. CASE BringUp(w)
  <2>1. [job[w] EXCEPT !.kind = "joining"] \in FitJobs(lineage)
    BY <1>0 DEF FitJobs, Jobs, Kinds, Storing
  <2>2. job' = [job EXCEPT ![w] = [job[w] EXCEPT !.kind = "joining"]]
    BY <1>6 DEF BringUp
  <2>3. JobsFit'
    BY <1>0, <1>6, <2>1, <2>2 DEF BringUp, JobsFit, ghosts
  <2>4. QED
    BY <1>6, <2>3 DEF BringUp, ServedOwn, KeyedIsolation, Entitled, Own, cache, call, ghosts
<1>7. CASE BringUpFails(w)
  <2>1. JobsFit'
    BY <1>0, <1>7, NewJobsFit DEF BringUpFails, JobsFit, ghosts
  <2>2. QED
    BY <1>7, <2>1 DEF BringUpFails, ServedOwn, KeyedIsolation, Entitled, Own, cache, call, ghosts
<1>8. CASE BringUpTest(w)
  <2>1. JobsFit'
    BY <1>0, <1>8, NewJobsFit DEF BringUpTest, JobsFit, ghosts
  <2>2. QED
    BY <1>8, <2>1 DEF BringUpTest, ServedOwn, KeyedIsolation, Entitled, Own, identity, cache, call, ghosts
<1>9. CASE BringUpSubmit(w)
  <2>1. job[w].key \in Keys
    BY <1>0, <1>9 DEF BringUpSubmit, FitJobs, Storing
  <2>2. JobsFit'
    BY <1>0, <1>9, <2>1, NewJobsFit, AppendProperties DEF BringUpSubmit, StartRefresh, JobsFit
  <2>3. QED
    BY <1>9, <2>2 DEF BringUpSubmit, ServedOwn, KeyedIsolation, Entitled, Own, identity, call
<1>10. QED
  BY <1>1, <1>2, <1>3, <1>4, <1>5, <1>6, <1>7, <1>8, <1>9 DEF Work

LEMMA RecallStep == RecallInv /\ [Next]_vars => RecallInv'
<1> SUFFICES ASSUME RecallInv, [Next]_vars PROVE RecallInv'
  OBVIOUS
<1>1. CASE HookBegins \/ HookGoesOn
  BY <1>1, HookStep
<1>2. CASE LoseJob
  BY <1>2, LoseStep
<1>3. ASSUME NEW w \in Workers, Work(w)
      PROVE  RecallInv'
  BY <1>3, WorkStep
<1>4. CASE UNCHANGED vars
  BY <1>4 DEF vars, RecallInv, SessionTyped, JobsFit, KeyedIsolation, ServedOwn, Entitled, Own,
              identity, cache, runner, call, ghosts
<1>5. QED
  BY <1>1, <1>2, <1>3, <1>4 DEF Next

-----------------------------------------------------------------------------

\* Jobs, cache and hook stay consistent: every pending job carries the key its
\* text belongs under.
THEOREM RecallInvariant == Spec => []RecallInv
  BY RecallInit, RecallStep, PTL DEF Spec

\* No cache entry ever holds a text recalled for another profile or an unrelated
\* session (recall_cache.py, store() under the key captured by refresh()).
THEOREM CacheIsIsolated == Spec => []KeyedIsolation
<1>1. RecallInv => KeyedIsolation
  BY DEF RecallInv
<1>2. QED
  BY <1>1, RecallInvariant, PTL

\* prefetch() and on_pre_compress() read only what the session may be shown.
THEOREM HooksServeOwn == Spec => []ServedOwn
<1>1. RecallInv => ServedOwn
  BY DEF RecallInv
<1>2. QED
  BY <1>1, RecallInvariant, PTL

-----------------------------------------------------------------------------
\* Coalescing.  Where the refreshes are that have not ended: their queue places, and
\* the workers that recall or are about to clear _in_flight.
Waiting == {"refresh"}
Busy == {"refresh", "settling"}

Places(q) == {i \in 1..Len(q) : q[i].kind \in Waiting}
AtWork == {w \in Workers : job[w].kind \in Busy}
Load == Cardinality(Places(queue)) + Cardinality(AtWork)

Submitted == {j \in Jobs : j.kind \in {"bringup", "refresh", "lineage", "recap"}}

\* A cleared flag leaves room for one refresh more, and a thread that is past its
\* test of the flag without having been overtaken will find it still cleared.
CoalesceInv ==
    /\ queue \in Seq(Submitted)
    /\ raced \in Nat
    /\ Load <= 1 + raced
    /\ ~inFlight => Load <= raced
    /\ \A a \in Deciding : a \in overtaken \/ ~inFlight

LEMMA PlacesFinite ==
    ASSUME NEW S, NEW q \in Seq(S)
    PROVE  IsFiniteSet(Places(q)) /\ Cardinality(Places(q)) \in Nat
<1>1. IsFiniteSet(1..Len(q))
  BY FS_Interval
<1>2. Places(q) \in SUBSET (1..Len(q))
  BY DEF Places
<1>3. QED
  BY <1>1, <1>2, FS_Subset, FS_CardinalityType

LEMMA PlacesAppend ==
    ASSUME NEW S, NEW q \in Seq(S), NEW j
    PROVE  Cardinality(Places(Append(q, j))) =
             Cardinality(Places(q)) + (IF j.kind \in Waiting THEN 1 ELSE 0)
<1> DEFINE more == Append(q, j)
           last == Len(q) + 1
<1>1. /\ Len(more) = last /\ more[last] = j
      /\ \A i \in 1..Len(q) : more[i] = q[i]
      /\ Len(q) \in Nat
  OBVIOUS
<1>2. last \notin Places(q)
  BY <1>1 DEF Places
<1>3. Places(more) = IF j.kind \in Waiting THEN Places(q) \cup {last} ELSE Places(q)
  BY <1>1 DEF Places
<1>4. IsFiniteSet(Places(q)) /\ Cardinality(Places(q)) \in Nat
  BY PlacesFinite
<1> HIDE DEF more, last
<1>5. Cardinality(Places(q) \cup {last}) = Cardinality(Places(q)) + 1
  BY <1>2, <1>4, FS_AddElement
<1>6. Cardinality(Places(more)) = Cardinality(Places(q)) + (IF j.kind \in Waiting THEN 1 ELSE 0)
  BY <1>3, <1>4, <1>5
<1>7. QED
  BY <1>6 DEF more

\* The i-th entry of a queue is taken out, and the later ones move up.
LEMMA PlacesRemove ==
    ASSUME NEW S, NEW q \in Seq(S), NEW r \in Seq(S), NEW i \in 1..Len(q),
           Len(r) = Len(q) - 1,
           \A n \in 1..Len(r) : r[n] = IF n < i THEN q[n] ELSE q[n + 1]
    PROVE  Cardinality(Places(r)) =
             Cardinality(Places(q)) - (IF q[i].kind \in Waiting THEN 1 ELSE 0)
<1> DEFINE from == [n \in Places(r) |-> IF n < i THEN n ELSE n + 1]
           rest == Places(q) \ {i}
<1>1. Len(q) \in Nat /\ Len(r) \in Nat
  OBVIOUS
<1>2. from \in [Places(r) -> rest]
  <2>1. ASSUME NEW n \in Places(r) PROVE (IF n < i THEN n ELSE n + 1) \in rest
    BY <1>1 DEF Places
  <2>2. QED
    BY <2>1
<1>3. \A m, n \in Places(r) : from[m] = from[n] => m = n
  BY <1>1 DEF Places
<1>4. ASSUME NEW m \in rest PROVE \E n \in Places(r) : from[n] = m
  <2>1. m \in 1..Len(q) /\ m # i /\ q[m].kind \in Waiting
    BY DEF Places
  <2>2. CASE m < i
    <3>1. m \in Places(r)
      BY <1>1, <2>1, <2>2 DEF Places
    <3>2. from[m] = m
      BY <2>2, <3>1
    <3>3. QED
      BY <3>1, <3>2
  <2>3. CASE m > i
    <3>1. m - 1 \in Places(r)
      BY <1>1, <2>1, <2>3 DEF Places
    <3>2. from[m - 1] = m
      BY <1>1, <2>1, <2>3, <3>1
    <3>3. QED
      BY <3>1, <3>2
  <2>4. QED
    BY <1>1, <2>1, <2>2, <2>3
<1> HIDE DEF from
<1>5. from \in Bijection(Places(r), rest)
  BY <1>2, <1>3, <1>4 DEF Bijection, Injection, Surjection, IsInjective
<1>6. Cardinality(rest) = Cardinality(Places(r))
  BY <1>5, PlacesFinite, FS_Bijection DEF ExistsBijection
<1>7. i \in Places(q) <=> q[i].kind \in Waiting
  BY DEF Places
<1>8. IsFiniteSet(Places(q)) /\ Cardinality(Places(q)) \in Nat
  BY PlacesFinite
<1>9. Cardinality(rest) =
        IF i \in Places(q) THEN Cardinality(Places(q)) - 1 ELSE Cardinality(Places(q))
  BY <1>8, FS_RemoveElement
<1> HIDE DEF rest
<1>10. QED
  BY <1>6, <1>7, <1>8, <1>9

LEMMA AtWorkFinite == IsFiniteSet(AtWork) /\ Cardinality(AtWork) \in Nat
<1>1. AtWork \in SUBSET Workers
  BY DEF AtWork
<1>2. QED
  BY <1>1, RecallAssumption, FS_Subset, FS_CardinalityType

\* One worker goes from one job to another.
LEMMA WorkerMoves ==
    ASSUME NEW w \in Workers, NEW before, NEW after,
           job[w].kind = before, job' = [job EXCEPT ![w] = job'[w]], job'[w].kind = after,
           NEW J, job \in [Workers -> J]
    PROVE  Cardinality(AtWork') = Cardinality(AtWork)
             - (IF before \in Busy THEN 1 ELSE 0) + (IF after \in Busy THEN 1 ELSE 0)
<1>1. \A v \in Workers : v # w => job'[v] = job[v]
  OBVIOUS
<1>2. w \in AtWork <=> before \in Busy
  BY DEF AtWork
<1>3. AtWork' = IF after \in Busy THEN AtWork \cup {w} ELSE AtWork \ {w}
  BY <1>1 DEF AtWork
<1>4. /\ Cardinality(AtWork \cup {w}) = IF w \in AtWork THEN Cardinality(AtWork)
                                          ELSE Cardinality(AtWork) + 1
      /\ Cardinality(AtWork \ {w}) = IF w \in AtWork THEN Cardinality(AtWork) - 1
                                       ELSE Cardinality(AtWork)
      /\ Cardinality(AtWork) \in Nat
  BY AtWorkFinite, FS_AddElement, FS_RemoveElement
<1>5. QED
  BY <1>2, <1>3, <1>4

LEMMA LoadIsNat == ASSUME CoalesceInv PROVE Load \in Nat
  BY PlacesFinite, AtWorkFinite DEF CoalesceInv, Load

LEMMA LoadCountsNext == ASSUME queue' \in Seq(Submitted) PROVE Load' = Unfinished'
<1>1. DOMAIN (queue') = 1..Len(queue')
  OBVIOUS
<1>2. {i \in DOMAIN (queue') : queue'[i].kind = "refresh"} = Places(queue')
  BY <1>1 DEF Places, Waiting
<1>3. QED
  BY <1>2 DEF Load, Unfinished, Queued, AtWork, Busy

LEMMA AtWorkFiniteNext == IsFiniteSet(AtWork') /\ Cardinality(AtWork') \in Nat
<1>1. AtWork' \in SUBSET Workers
  BY DEF AtWork
<1>2. QED
  BY <1>1, RecallAssumption, FS_Subset, FS_CardinalityType

\* A step that neither sets nor clears the flag.
LEMMA LoadKeeps ==
    ASSUME CoalesceInv, queue' \in Seq(Submitted), UNCHANGED <<inFlight, overtaken, raced>>,
           Load' \in Nat, Load' <= Load,
           \A a \in Deciding' : a \in Deciding \/ ~inFlight
    PROVE  CoalesceInv'
<1>1. Load \in Nat /\ raced \in Nat /\ Load <= 1 + raced
  BY LoadIsNat DEF CoalesceInv
<1>2. raced' = raced /\ raced' \in Nat /\ Load' <= 1 + raced'
  BY <1>1
<1>3. ASSUME ~inFlight' PROVE Load' <= raced'
  <2>1. Load <= raced
    BY <1>3 DEF CoalesceInv
  <2>2. QED
    BY <1>1, <1>2, <2>1
<1>4. \A a \in Deciding' : a \in overtaken' \/ ~inFlight'
  BY DEF CoalesceInv
<1>5. QED
  BY <1>2, <1>3, <1>4 DEF CoalesceInv

\* Thread a, past its test, sets the flag: either nobody has set it since its test,
\* or it has been overtaken.
LEMMA LoadGrows ==
    ASSUME CoalesceInv, queue' \in Seq(Submitted), NEW a \in Deciding, NEW k,
           StartRefresh(a, k), Load' = Load + 1, Deciding' \subseteq Deciding \ {a}
    PROVE  CoalesceInv'
<1>1. /\ inFlight' /\ overtaken' = Deciding \ {a}
      /\ raced' = IF inFlight /\ a \in overtaken THEN raced + 1 ELSE raced
  BY DEF StartRefresh
<1>2. a \in overtaken \/ ~inFlight
  BY DEF CoalesceInv
<1>3. raced' \in Nat /\ Load' <= 1 + raced'
  <2>1. Load \in Nat /\ raced \in Nat /\ Load <= 1 + raced
    BY LoadIsNat DEF CoalesceInv
  <2>2. CASE inFlight
    BY <1>1, <1>2, <2>1, <2>2
  <2>3. CASE ~inFlight
    <3>1. raced' = raced /\ Load <= raced
      BY <1>1, <2>3 DEF CoalesceInv
    <3>2. QED
      BY <2>1, <3>1
  <2>4. QED
    BY <2>2, <2>3
<1>4. \A b \in Deciding' : b \in overtaken'
  BY <1>1
<1>5. QED
  BY <1>1, <1>3, <1>4 DEF CoalesceInv

\* A refresh ends; with the last one the races are forgotten.
LEMMA LoadShrinks ==
    ASSUME CoalesceInv, queue' \in Seq(Submitted), Forget, Load' \in Nat,
           Load' = Unfinished', Deciding' \subseteq Deciding,
           \/ Load' <= Load /\ UNCHANGED inFlight
           \/ Load' = Load - 1 /\ ~inFlight'
    PROVE  CoalesceInv'
<1>1. raced' = (IF Load' = 0 THEN 0 ELSE raced) /\ overtaken' = overtaken
  BY DEF Forget
<1>2. Load \in Nat /\ raced \in Nat /\ Load <= 1 + raced
  BY LoadIsNat DEF CoalesceInv
<1>3. raced' \in Nat /\ Load' <= 1 + raced'
  BY <1>1, <1>2
<1>4. ASSUME ~inFlight' PROVE Load' <= raced'
  <2>1. CASE Load' = 0
    BY <1>1, <2>1
  <2>2. CASE Load' # 0
    <3>1. Load' <= raced
      <4>1. CASE Load' <= Load /\ UNCHANGED inFlight
        <5>1. Load <= raced
          BY <1>4, <4>1 DEF CoalesceInv
        <5>2. QED
          BY <1>2, <4>1, <5>1
      <4>2. CASE Load' = Load - 1
        BY <1>2, <4>2
      <4>3. QED
        BY <4>1, <4>2
    <3>2. QED
      BY <1>1, <2>2, <3>1
  <2>3. QED
    BY <2>1, <2>2
<1>5. \A a \in Deciding' : a \in overtaken' \/ ~inFlight'
  BY <1>1 DEF CoalesceInv
<1>6. QED
  BY <1>3, <1>4, <1>5 DEF CoalesceInv

LEMMA SubmittedJobs ==
    /\ BringUpJob \in Submitted
    /\ Job("recap", NoText, NoText) \in Submitted
    /\ \A k, of \in Keys : RefreshJob(k) \in Submitted /\ Job("lineage", of, k) \in Submitted
  BY DEF BringUpJob, RefreshJob, Job, Jobs, Kinds, Texts, Submitted

LEMMA CoalesceStart == Init => CoalesceInv
<1> SUFFICES ASSUME Init PROVE CoalesceInv
  OBVIOUS
<1>1. queue = <<BringUpJob>> /\ queue \in Seq(Submitted)
  BY SubmittedJobs DEF Init
<1>2. Places(queue) = {} /\ AtWork = {} /\ Deciding = {}
  BY <1>1 DEF Init, Places, AtWork, Deciding, BringUpJob, Idle, Job, Waiting, Busy
<1>3. Load = 0
  BY <1>2, FS_EmptySet DEF Load
<1>4. QED
  BY <1>1, <1>2, <1>3 DEF CoalesceInv, Init

\* The hooks only append to the queue.
LEMMA CoalesceHook ==
    ASSUME RecallInv, CoalesceInv, HookBegins \/ HookGoesOn
    PROVE  CoalesceInv'
<1> USE DEF RecallInv, SessionTyped
<1>0. /\ queue \in Seq(Submitted) /\ Load \in Nat
      /\ Cardinality(Places(queue)) \in Nat /\ Cardinality(AtWork) \in Nat
  BY PlacesFinite, AtWorkFinite, LoadIsNat DEF CoalesceInv
<1>1. ASSUME UNCHANGED <<job, inFlight, overtaken, raced>>, pc' = "submit" => ~inFlight,
             NEW j \in Submitted, j.kind \notin Waiting, queue' \in {queue, Append(queue, j)}
      PROVE  CoalesceInv'
  <2>1. Cardinality(Places(Append(queue, j))) = Cardinality(Places(queue))
    <3>1. Cardinality(Places(Append(queue, j))) = Cardinality(Places(queue)) + 0
      BY <1>0, <1>1, PlacesAppend
    <3>2. QED
      BY <1>0, <3>1
  <2>2. Append(queue, j) \in Seq(Submitted)
    BY <1>0, <1>1, AppendProperties
  <2>3. Cardinality(Places(queue')) = Cardinality(Places(queue)) /\ queue' \in Seq(Submitted)
    <3>1. CASE queue' = queue
      BY <1>0, <3>1
    <3>2. CASE queue' = Append(queue, j)
      BY <2>1, <2>2, <3>2
    <3>3. QED
      BY <1>1, <3>1, <3>2
  <2>4. AtWork' = AtWork /\ \A a \in Deciding' : a \in Deciding \/ ~inFlight
    BY <1>1 DEF AtWork, Deciding
  <2>5. Load' = Load
    BY <2>3, <2>4 DEF Load
  <2>6. Load' \in Nat /\ Load' <= Load
    BY <1>0, <2>5
  <2>7. QED
    BY <1>1, <2>3, <2>4, <2>6, LoadKeeps
<1>2. BringUpJob \in Submitted /\ BringUpJob.kind \notin Waiting
  BY SubmittedJobs DEF BringUpJob, Job, Waiting
<1>3. ASSUME NEW p \in Profiles, NEW t \in Threads, Initialize(p, t)
      PROVE  CoalesceInv'
  <2>1. /\ queue' = Append(queue, BringUpJob) /\ pc' # "submit"
        /\ UNCHANGED <<job, inFlight, overtaken, raced>>
    BY <1>3 DEF Initialize, Called, races
  <2>2. QED
    BY <1>1, <1>2, <2>1
<1>4. ASSUME NEW t \in Threads, NEW parent \in Threads, SessionBranch(t, parent)
      PROVE  CoalesceInv'
  <2> DEFINE child == Job("lineage", <<profile, parent>>, <<profile, t>>)
  <2>1. child \in Submitted /\ child.kind \notin Waiting
    BY SubmittedJobs DEF Keys, Job, Waiting
  <2>2. /\ queue' = Append(queue, child) /\ pc' # "submit"
        /\ UNCHANGED <<job, inFlight, overtaken, raced>>
    BY <1>4 DEF SessionBranch, Called, races
  <2> HIDE DEF child
  <2>3. QED
    BY <1>1, <2>1, <2>2
<1>5. ASSUME \/ \E t \in Threads : Prefetch(t) \/ QueuePrefetch(t) \/ SessionReset(t)
             \/ \E p \in Profiles : TurnStart(p)
             \/ PreCompress \/ EngineFetch \/ PrefetchSetCurrent \/ PrefetchGet \/ Return
      PROVE  CoalesceInv'
  <2>1. UNCHANGED <<queue, job, inFlight, overtaken, raced>> /\ pc' # "submit"
    BY <1>5 DEF Prefetch, QueuePrefetch, SessionReset, TurnStart, PreCompress, EngineFetch,
                PrefetchSetCurrent, PrefetchGet, Return, Called, runner, ghosts, races
  <2>2. QED
    BY <1>1, <1>2, <2>1
<1>6. AfterRefresh # "submit"
  BY DEF AfterRefresh
<1>7. CASE RefreshTest
  <2>1. UNCHANGED <<queue, job, inFlight, overtaken, raced>> /\ (pc' = "submit" => ~inFlight)
    BY <1>6, <1>7 DEF RefreshTest, runner, ghosts, races
  <2>2. QED
    BY <1>1, <1>2, <2>1
<1>8. CASE RefreshSubmit
  <2>1. /\ pc = "submit" /\ pc' # "submit" /\ StartRefresh(Hermes, Own)
        /\ queue' = Append(queue, RefreshJob(Own)) /\ UNCHANGED job
    BY <1>6, <1>8 DEF RefreshSubmit, StartRefresh
  <2>2. RefreshJob(Own) \in Submitted /\ RefreshJob(Own).kind \in Waiting
    <3>1. Own \in Keys
      BY DEF Own, Keys
    <3>2. QED
      BY <3>1, SubmittedJobs DEF RefreshJob, Job, Waiting
  <2>3. Cardinality(Places(queue')) = Cardinality(Places(queue)) + 1 /\ AtWork' = AtWork
    BY <1>0, <2>1, <2>2, PlacesAppend DEF AtWork
  <2>4. queue' \in Seq(Submitted)
    BY <1>0, <2>1, <2>2, AppendProperties
  <2>5. Load' = Load + 1
    BY <1>0, <2>1, <2>3 DEF Load
  <2>6. Hermes \in Deciding /\ Deciding' \subseteq Deciding \ {Hermes}
    BY <2>1, RecallAssumption DEF Deciding
  <2>7. QED
    BY <2>1, <2>4, <2>5, <2>6, LoadGrows
<1>9. CASE RecapSubmit
  <2>1. Job("recap", NoText, NoText) \in Submitted /\ Job("recap", NoText, NoText).kind \notin Waiting
    BY SubmittedJobs DEF Job, Waiting
  <2>2. UNCHANGED <<job, inFlight, overtaken, raced>> /\ pc' # "submit"
        /\ queue' \in {queue, Append(queue, Job("recap", NoText, NoText))}
    BY <1>9 DEF RecapSubmit, ghosts, races
  <2>3. QED
    BY <1>1, <2>1, <2>2
<1>10. QED
  BY <1>3, <1>4, <1>5, <1>7, <1>8, <1>9 DEF HookBegins, HookGoesOn

LEMMA CoalesceLose == ASSUME CoalesceInv, LoseJob PROVE CoalesceInv'
<1>1. PICK i \in {1, Len(queue)} : queue # <<>> /\ queue' = RemoveAt(queue, i)
  BY DEF LoseJob
<1>2. queue \in Seq(Submitted) /\ i \in 1..Len(queue) /\ Len(queue) \in Nat
  BY <1>1, EmptySeq, LenProperties DEF CoalesceInv
<1> DEFINE front == SubSeq(queue, 1, i - 1)
           back == SubSeq(queue, i + 1, Len(queue))
<1>3. /\ front \in Seq(Submitted) /\ Len(front) = i - 1
      /\ \A n \in 1..(i - 1) : front[n] = queue[n]
  BY <1>2, SubSeqProperties
<1>4. /\ back \in Seq(Submitted) /\ Len(back) = Len(queue) - i
      /\ \A n \in 1..(Len(queue) - i) : back[n] = queue[n + i]
  BY <1>2, SubSeqProperties
<1>5. queue' = front \o back
  BY <1>1 DEF RemoveAt
<1> HIDE DEF front, back
<1>6. /\ queue' \in Seq(Submitted) /\ Len(queue') = Len(queue) - 1
      /\ \A n \in 1..Len(queue') : queue'[n] = IF n < i THEN queue[n] ELSE queue[n + 1]
  <2>1. queue' \in Seq(Submitted) /\ Len(queue') = Len(queue) - 1
    BY <1>2, <1>3, <1>4, <1>5, ConcatProperties
  <2>2. \A n \in 1..Len(queue') : queue'[n] = IF n <= i - 1 THEN front[n] ELSE back[n - (i - 1)]
    BY <1>2, <1>3, <1>4, <1>5, ConcatProperties
  <2>3. QED
    BY <1>2, <1>3, <1>4, <2>1, <2>2
<1>7. Cardinality(Places(queue')) =
        Cardinality(Places(queue)) - (IF queue[i].kind \in Waiting THEN 1 ELSE 0)
  BY <1>2, <1>6, PlacesRemove
<1>8. AtWork' = AtWork /\ Deciding' = Deciding /\ UNCHANGED inFlight /\ Forget
  BY DEF LoseJob, AtWork, Deciding, call
<1>9. /\ Cardinality(Places(queue)) \in Nat /\ Cardinality(Places(queue')) \in Nat
      /\ Cardinality(AtWork) \in Nat
  BY <1>2, <1>6, PlacesFinite, AtWorkFinite
<1>10. Load' <= Load /\ Load' \in Nat
  BY <1>7, <1>8, <1>9 DEF Load
<1>11. Load' = Unfinished'
  BY <1>6, LoadCountsNext
<1>12. QED
  BY <1>6, <1>8, <1>10, <1>11, LoadShrinks

LEMMA CoalesceWork == ASSUME RecallInv, CoalesceInv, NEW w \in Workers, Work(w) PROVE CoalesceInv'
<1>0. /\ queue \in Seq(Submitted) /\ job \in [Workers -> Jobs] /\ Load \in Nat
      /\ Cardinality(Places(queue)) \in Nat /\ Cardinality(AtWork) \in Nat
  BY PlacesFinite, AtWorkFinite, LoadIsNat DEF CoalesceInv, RecallInv, JobsFit, FitJobs
<1>1. ASSUME NEW after, job' = [job EXCEPT ![w] = job'[w]], job'[w].kind = after
      PROVE  Cardinality(AtWork') = Cardinality(AtWork)
               - (IF job[w].kind \in Busy THEN 1 ELSE 0) + (IF after \in Busy THEN 1 ELSE 0)
  BY <1>0, <1>1, WorkerMoves
<1>2. ASSUME UNCHANGED <<queue, pc, inFlight, overtaken, raced>>,
             job' = [job EXCEPT ![w] = job'[w]],
             job'[w].kind \in Busy => job[w].kind \in Busy,
             job'[w].kind = "submitting" => ~inFlight
      PROVE  CoalesceInv'
  <2>1. Cardinality(AtWork') <= Cardinality(AtWork) /\ Cardinality(AtWork') \in Nat
    <3>1. Cardinality(AtWork') \in Int
      BY <1>0, <1>1, <1>2
    <3>2. IsFiniteSet(AtWork') /\ Cardinality(AtWork') \in Nat
      BY AtWorkFiniteNext
    <3>3. QED
      BY <1>0, <1>1, <1>2, <3>2
  <2>2. Load' <= Load /\ Load' \in Nat
    BY <1>0, <1>2, <2>1 DEF Load
  <2>3. \A a \in Deciding' : a \in Deciding \/ ~inFlight
    BY <1>0, <1>2 DEF Deciding
  <2>4. queue' \in Seq(Submitted)
    BY <1>0, <1>2
  <2>5. QED
    BY <1>2, <2>2, <2>3, <2>4, LoadKeeps
<1>3. CASE TakeJob(w)
  <2>1. /\ job[w] = Idle /\ queue # <<>> /\ queue' = Tail(queue)
        /\ UNCHANGED <<pc, inFlight, overtaken, raced>>
        /\ job' = [job EXCEPT ![w] = job'[w]]
        /\ job'[w].kind = Head(queue).kind
    <3>1. job' = [job EXCEPT ![w] = IF Head(queue).kind = "recap"
                                      THEN Job("recap", Own, NoText) ELSE Head(queue)]
      BY <1>3 DEF TakeJob
    <3>2. job'[w] = IF Head(queue).kind = "recap" THEN Job("recap", Own, NoText) ELSE Head(queue)
      BY <1>0, <3>1
    <3>3. job'[w].kind = Head(queue).kind
      BY <3>2 DEF Job
    <3>4. job' = [job EXCEPT ![w] = job'[w]]
      BY <1>0, <3>1, <3>2
    <3>5. QED
      BY <1>3, <3>3, <3>4 DEF TakeJob, call, ghosts, races
  <2>2. /\ 1 \in 1..Len(queue) /\ Head(queue) = queue[1] /\ Head(queue) \in Submitted
        /\ queue' \in Seq(Submitted) /\ Len(queue') = Len(queue) - 1
        /\ \A n \in 1..Len(queue') : queue'[n] = queue[n + 1]
    BY <1>0, <2>1, HeadTailProperties, EmptySeq, LenProperties
  <2>3. Cardinality(Places(queue')) =
          Cardinality(Places(queue)) - (IF Head(queue).kind \in Waiting THEN 1 ELSE 0)
    <3>1. \A n \in 1..Len(queue') : queue'[n] = IF n < 1 THEN queue[n] ELSE queue[n + 1]
      BY <2>2
    <3>2. Cardinality(Places(queue')) =
            Cardinality(Places(queue)) - (IF queue[1].kind \in Waiting THEN 1 ELSE 0)
      BY <1>0, <2>2, <3>1, PlacesRemove
    <3>3. QED
      BY <2>2, <3>2
  <2>4. Cardinality(AtWork') =
          Cardinality(AtWork) + (IF Head(queue).kind \in Waiting THEN 1 ELSE 0)
    BY <1>0, <1>1, <2>1, <2>2 DEF Idle, Job, Busy, Waiting, Submitted
  <2>5. Load' = Load
    BY <1>0, <2>1, <2>3, <2>4 DEF Load
  <2>6. Load' \in Nat /\ Load' <= Load
    BY <1>0, <2>5
  <2>7. \A a \in Deciding' : a \in Deciding
    BY <1>0, <2>1, <2>2 DEF Deciding, Submitted
  <2>8. QED
    BY <2>1, <2>2, <2>6, <2>7, LoadKeeps
<1>4. CASE FinishRecall(w) \/ BringUp(w)
  <2>1. /\ UNCHANGED <<queue, pc, inFlight, overtaken, raced>>
        /\ \/ job[w].kind = "refresh" /\ job' = [job EXCEPT ![w].kind = "settling"]
           \/ job[w].kind = "bringup" /\ job' = [job EXCEPT ![w].kind = "joining"]
    BY <1>4 DEF FinishRecall, BringUp, call, ghosts, races
  <2>2. /\ job' = [job EXCEPT ![w] = job'[w]] /\ job'[w].kind # "submitting"
        /\ job'[w].kind \in Busy => job[w].kind \in Busy
    <3>1. job[w] \in Jobs
      BY <1>0
    <3>2. QED
      BY <1>0, <2>1, <3>1 DEF Busy, Jobs
  <2>3. QED
    BY <1>2, <2>1, <2>2
<1>5. ASSUME job' = [job EXCEPT ![w] = Idle]
      PROVE  job' = [job EXCEPT ![w] = job'[w]] /\ job'[w].kind = "idle" /\ "idle" \notin Busy
  BY <1>0, <1>5 DEF Idle, Job, Busy
<1>6. CASE FinishLineage(w) \/ FinishRecap(w) \/ BringUpFails(w)
  <2>1. job' = [job EXCEPT ![w] = Idle] /\ UNCHANGED <<queue, pc, inFlight, overtaken, raced>>
    BY <1>6 DEF FinishLineage, FinishRecap, BringUpFails, call, ghosts, races
  <2>2. QED
    BY <1>2, <1>5, <2>1
<1>7. CASE ClearInFlight(w)
  <2>1. /\ job[w].kind = "settling" /\ job' = [job EXCEPT ![w] = Idle]
        /\ UNCHANGED <<queue, pc>> /\ Forget /\ ~inFlight'
    BY <1>7 DEF ClearInFlight, call
  <2>2. Cardinality(AtWork') = Cardinality(AtWork) - 1 /\ Cardinality(AtWork') \in Nat
    <3>1. Cardinality(AtWork') = Cardinality(AtWork) - 1
      BY <1>0, <1>1, <1>5, <2>1 DEF Busy
    <3>2. QED
      BY <3>1, AtWorkFiniteNext
  <2>3. Load' = Load - 1 /\ Load' \in Nat
    BY <1>0, <2>1, <2>2 DEF Load
  <2>4. queue' \in Seq(Submitted)
    BY <1>0, <2>1
  <2>5. Load' = Unfinished' /\ Deciding' \subseteq Deciding
    <3>1. Load' = Unfinished'
      BY <2>4, LoadCountsNext
    <3>2. QED
      BY <1>0, <1>5, <2>1, <3>1 DEF Deciding
  <2>6. QED
    BY <2>1, <2>3, <2>4, <2>5, LoadShrinks
<1>8. CASE BringUpTest(w)
  <2>1. /\ job[w].kind = "joining" /\ UNCHANGED <<queue, pc, inFlight, overtaken, raced>>
        /\ \/ job' = [job EXCEPT ![w] = Job("submitting", Own, Own)] /\ ~inFlight
           \/ job' = [job EXCEPT ![w] = Idle]
    BY <1>8 DEF BringUpTest, call, ghosts, races
  <2>2. /\ job' = [job EXCEPT ![w] = job'[w]] /\ job'[w].kind \notin Busy
        /\ job'[w].kind = "submitting" => ~inFlight
    BY <1>0, <2>1 DEF Idle, Job, Busy
  <2>3. QED
    BY <1>2, <2>1, <2>2
<1>9. CASE BringUpSubmit(w)
  <2>1. /\ job[w].kind = "submitting" /\ job' = [job EXCEPT ![w] = Idle]
        /\ StartRefresh(w, job[w].key)
        /\ queue' = Append(queue, RefreshJob(job[w].key)) /\ UNCHANGED pc
    BY <1>9 DEF BringUpSubmit, StartRefresh, call
  <2>2. AtWork' = AtWork
    BY <1>0, <1>5, <2>1 DEF AtWork, Busy
  <2>3. RefreshJob(job[w].key) \in Submitted /\ RefreshJob(job[w].key).kind \in Waiting
    <3>1. job[w].key \in Keys
      BY <2>1 DEF RecallInv, JobsFit, FitJobs, Storing
    <3>2. QED
      BY <3>1, SubmittedJobs DEF RefreshJob, Job, Waiting
  <2>4. Cardinality(Places(queue')) = Cardinality(Places(queue)) + 1
    BY <1>0, <2>1, <2>3, PlacesAppend
  <2>5. queue' \in Seq(Submitted)
    BY <1>0, <2>1, <2>3, AppendProperties
  <2>6. Load' = Load + 1
    BY <1>0, <2>2, <2>4 DEF Load
  <2>7. w \in Deciding /\ Deciding' \subseteq Deciding \ {w}
    BY <1>0, <1>5, <2>1, RecallAssumption DEF Deciding
  <2>8. QED
    BY <2>1, <2>5, <2>6, <2>7, LoadGrows
<1>10. QED
  BY <1>3, <1>4, <1>6, <1>7, <1>8, <1>9 DEF Work

LEMMA CoalesceStep == RecallInv /\ CoalesceInv /\ [Next]_vars => CoalesceInv'
<1> SUFFICES ASSUME RecallInv, CoalesceInv, [Next]_vars PROVE CoalesceInv'
  OBVIOUS
<1>1. CASE HookBegins \/ HookGoesOn
  BY <1>1, CoalesceHook
<1>2. CASE LoseJob
  BY <1>2, CoalesceLose
<1>3. ASSUME NEW w \in Workers, Work(w) PROVE CoalesceInv'
  BY <1>3, CoalesceWork
<1>4. CASE UNCHANGED vars
  BY <1>4 DEF vars, CoalesceInv, Load, Places, AtWork, Deciding, runner, call, ghosts, races
<1>5. QED
  BY <1>1, <1>2, <1>3, <1>4 DEF Next

LEMMA LoadBoundsOutstanding == CoalesceInv => Coalesced
<1> SUFFICES ASSUME CoalesceInv PROVE Outstanding <= 1 + raced
  BY DEF Coalesced
<1> DEFINE waiting == {i \in DOMAIN queue : queue[i].kind = "refresh"}
           running == {w \in Workers : job[w].kind = "refresh"}
<1>1. queue \in Seq(Submitted) /\ raced \in Nat /\ Load <= 1 + raced
  BY LoadIsNat DEF CoalesceInv
<1>2. waiting \in SUBSET Places(queue) /\ running \in SUBSET AtWork
  <2>1. DOMAIN queue = 1..Len(queue)
    BY <1>1
  <2>2. QED
    BY <2>1 DEF Places, AtWork, Waiting, Busy
<1>3. /\ Cardinality(waiting) <= Cardinality(Places(queue)) /\ Cardinality(waiting) \in Nat
      /\ Cardinality(running) <= Cardinality(AtWork) /\ Cardinality(running) \in Nat
  BY <1>1, <1>2, PlacesFinite, AtWorkFinite, FS_Subset, FS_CardinalityType
<1>4. Cardinality(Places(queue)) \in Nat /\ Cardinality(AtWork) \in Nat
  BY <1>1, PlacesFinite, AtWorkFinite
<1>5. Outstanding = Cardinality(waiting) + Cardinality(running)
  BY DEF Outstanding, Queued
<1> HIDE DEF waiting, running
<1>6. QED
  BY <1>1, <1>3, <1>4, <1>5 DEF Load

\* Background refresh is coalesced: however many hooks ask and however many workers
\* run, one refresh is outstanding, and one more for each thread that found
\* _in_flight set, by another, between its own test and its own setting of it.
THEOREM RefreshesCoalesce == Spec => []Coalesced
<1>1. Init => RecallInv /\ CoalesceInv
  BY RecallInit, CoalesceStart
<1>2. RecallInv /\ CoalesceInv /\ [Next]_vars => (RecallInv /\ CoalesceInv)'
  BY RecallStep, CoalesceStep
<1>3. QED
  BY <1>1, <1>2, LoadBoundsOutstanding, PTL DEF Spec

-----------------------------------------------------------------------------
(* The cache: its keys are those that have a text, each once, and at most  *)
(* max_entries.                                                            *)

Once(s) == \A i, j \in 1..Len(s) : s[i] = s[j] => i = j

\* Where the entries of Only(s, S) are in s.
PlacesIn(s, S) == {i \in 1..Len(s) : s[i] \in S}
Upto(s, S, i) == {j \in PlacesIn(s, S) : j <= i}

LEMMA FirstNumbers ==
    ASSUME NEW n \in Nat
    PROVE  IsFiniteSet(1..n) /\ Cardinality(1..n) = n
<1>1. IsFiniteSet(1..n) /\ Cardinality(1..n) = IF 1 > n THEN 0 ELSE n - 1 + 1
  BY FS_Interval
<1>2. QED
  BY <1>1

LEMMA PlacesInFinite ==
    ASSUME NEW T, NEW s \in Seq(T), NEW S
    PROVE  /\ IsFiniteSet(PlacesIn(s, S)) /\ Cardinality(PlacesIn(s, S)) \in Nat
           /\ Cardinality(PlacesIn(s, S)) <= Len(s)
           /\ (\E i \in 1..Len(s) : s[i] \notin S) => Cardinality(PlacesIn(s, S)) < Len(s)
<1>1. Len(s) \in Nat
  OBVIOUS
<1>2. /\ IsFiniteSet(1..Len(s)) /\ Cardinality(1..Len(s)) = Len(s)
  BY <1>1, FirstNumbers
<1>3. PlacesIn(s, S) \in SUBSET (1..Len(s))
  BY DEF PlacesIn
<1>4. /\ IsFiniteSet(PlacesIn(s, S))
      /\ Cardinality(PlacesIn(s, S)) <= Cardinality(1..Len(s))
      /\ Cardinality(1..Len(s)) = Cardinality(PlacesIn(s, S)) => 1..Len(s) = PlacesIn(s, S)
  BY <1>2, <1>3, FS_Subset
<1>5. Cardinality(PlacesIn(s, S)) \in Nat
  BY <1>4, FS_CardinalityType
<1>6. (\E i \in 1..Len(s) : s[i] \notin S) => PlacesIn(s, S) # 1..Len(s)
  BY DEF PlacesIn
<1>7. QED
  BY <1>1, <1>2, <1>4, <1>5, <1>6

\* The n-th entry of Only(s, S) is the one that has n entries of S up to it.
LEMMA OnlyPlaces ==
    ASSUME NEW T, NEW s \in Seq(T), NEW S
    PROVE  LET m == Cardinality(PlacesIn(s, S))
           IN  \E f \in Bijection(1..m, PlacesIn(s, S)) :
                  Only(s, S) = [n \in 1..m |-> s[f[n]]]
<1> DEFINE at == PlacesIn(s, S)
           m == Cardinality(at)
           rank == [i \in at |-> Cardinality(Upto(s, S, i))]
           f == [n \in 1..m |-> CHOOSE i \in at : Cardinality(Upto(s, S, i)) = n]
<1>1. IsFiniteSet(at) /\ m \in Nat /\ \A i \in at : i \in Nat
  <2>1. IsFiniteSet(at) /\ m \in Nat
    BY PlacesInFinite
  <2>2. \A i \in at : i \in Nat
    BY DEF PlacesIn
  <2>3. QED
    BY <2>1, <2>2, Zenon
<1>2. ASSUME NEW i \in at
      PROVE  /\ IsFiniteSet(Upto(s, S, i)) /\ i \in Upto(s, S, i)
             /\ Cardinality(Upto(s, S, i)) \in 1..m
  <2>1. Upto(s, S, i) \in SUBSET at /\ i \in Upto(s, S, i)
    BY <1>1 DEF Upto
  <2>2. IsFiniteSet(Upto(s, S, i)) /\ Cardinality(Upto(s, S, i)) <= m
    BY <1>1, <2>1, FS_Subset
  <2>3. Cardinality(Upto(s, S, i)) \in Nat /\ Cardinality(Upto(s, S, i)) # 0
    BY <2>1, <2>2, FS_CardinalityType, FS_EmptySet
  <2> HIDE DEF m
  <2>4. QED
    BY <1>1, <2>1, <2>2, <2>3
<1>3. ASSUME NEW i \in at, NEW k \in at, i < k
      PROVE  Cardinality(Upto(s, S, i)) # Cardinality(Upto(s, S, k))
  <2>1. Upto(s, S, i) \in SUBSET Upto(s, S, k)
    <3>1. ASSUME NEW j \in at, j <= i PROVE j <= k
      <4>1. i \in Nat /\ k \in Nat /\ j \in Nat
        BY <1>1
      <4>2. QED
        BY <1>3, <3>1, <4>1
    <3>2. QED
      BY <3>1, Zenon DEF Upto
  <2>2. k \in Upto(s, S, k) /\ k \notin Upto(s, S, i)
    <3>1. i \in Nat /\ k \in Nat
      BY <1>1
    <3>2. QED
      BY <1>2, <1>3, <3>1 DEF Upto
  <2>3. IsFiniteSet(Upto(s, S, k))
    BY <1>2
  <2>4. QED
    BY <2>1, <2>2, <2>3, FS_Subset
<1>4. rank \in Injection(at, 1..m)
  <2>1. rank \in [at -> 1..m]
    BY <1>2
  <2>2. ASSUME NEW i \in at, NEW k \in at, rank[i] = rank[k] PROVE i = k
    <3>1. Cardinality(Upto(s, S, i)) = Cardinality(Upto(s, S, k))
      BY <2>2
    <3>2. ~(i < k) /\ ~(k < i)
      BY <1>3, <3>1
    <3>3. i \in Nat /\ k \in Nat
      BY <1>1
    <3>4. QED
      BY <3>2, <3>3
  <2> HIDE DEF rank
  <2>3. QED
    BY <2>1, <2>2 DEF Injection, IsInjective
<1>5. rank \in Surjection(at, 1..m)
  <2> HIDE DEF rank, m
  <2>1. IsFiniteSet(1..m) /\ Cardinality(1..m) = m
    BY <1>1, FirstNumbers
  <2>2. rank \in Surjection(at, 1..m) <=> Cardinality(at) = Cardinality(1..m)
    BY <1>4, <2>1, FS_Injection
  <2>3. QED
    BY <2>1, <2>2 DEF m
<1>6. ASSUME NEW n \in 1..m PROVE f[n] \in at /\ Cardinality(Upto(s, S, f[n])) = n
  <2>1. \E i \in at : rank[i] = n
    <3> HIDE DEF rank
    <3>1. QED
      BY <1>5 DEF Surjection
  <2>2. \E i \in at : Cardinality(Upto(s, S, i)) = n
    BY <2>1
  <2>3. QED
    BY <2>2
<1>7. f \in Bijection(1..m, at)
  <2>1. f \in [1..m -> at]
    BY <1>6
  <2>2. ASSUME NEW n \in 1..m, NEW l \in 1..m, f[n] = f[l] PROVE n = l
    BY <1>6, <2>2
  <2>3. ASSUME NEW i \in at PROVE \E n \in 1..m : f[n] = i
    <3>1. rank[i] \in 1..m /\ rank[i] = Cardinality(Upto(s, S, i))
      BY <1>2
    <3>2. f[rank[i]] \in at /\ Cardinality(Upto(s, S, f[rank[i]])) = rank[i]
      BY <1>6, <3>1
    <3>3. rank[f[rank[i]]] = rank[i]
      BY <3>2
    <3> HIDE DEF rank, f
    <3>4. f[rank[i]] = i
      BY <1>4, <3>2, <3>3 DEF Injection, IsInjective
    <3>5. QED
      BY <3>1, <3>4
  <2> HIDE DEF f
  <2>4. QED
    BY <2>1, <2>2, <2>3 DEF Bijection, Injection, Surjection, IsInjective
<1>8. Only(s, S) = [n \in 1..m |-> s[f[n]]]
  <2>1. DOMAIN s = 1..Len(s)
    OBVIOUS
  <2>2. QED
    BY <2>1 DEF Only, PlacesIn, Upto
<1> HIDE DEF f
<1>9. QED
  BY <1>7, <1>8

LEMMA OnlyKeeps ==
    ASSUME NEW T, NEW s \in Seq(T), NEW S, Once(s)
    PROVE  /\ Only(s, S) \in Seq(T) /\ Once(Only(s, S))
           /\ \A e : Contains(Only(s, S), e) <=> Contains(s, e) /\ e \in S
           /\ Len(Only(s, S)) <= Len(s)
           /\ \A e : Contains(s, e) /\ e \notin S => Len(Only(s, S)) < Len(s)
<1> DEFINE m == Cardinality(PlacesIn(s, S))
           r == Only(s, S)
<1>1. PICK f \in Bijection(1..m, PlacesIn(s, S)) : r = [n \in 1..m |-> s[f[n]]]
  BY OnlyPlaces
<1>2. /\ m \in Nat /\ m <= Len(s)
      /\ (\E i \in 1..Len(s) : s[i] \notin S) => m < Len(s)
  BY PlacesInFinite
<1> HIDE DEF m, r
<1>3. /\ \A n \in 1..m : f[n] \in PlacesIn(s, S)
      /\ \A n, l \in 1..m : f[n] = f[l] => n = l
      /\ \A i \in PlacesIn(s, S) : \E n \in 1..m : f[n] = i
  BY DEF Bijection, Injection, Surjection, IsInjective
<1>4. \A n \in 1..m : f[n] \in 1..Len(s) /\ s[f[n]] \in S
  BY <1>3 DEF PlacesIn
<1>5. r \in Seq(T) /\ Len(r) = m
  <2>1. \A n \in 1..m : s[f[n]] \in T
    BY <1>4
  <2>2. QED
    BY <1>1, <1>2, <2>1
<1>6. Once(r)
  <2>1. ASSUME NEW n \in 1..m, NEW l \in 1..m, r[n] = r[l] PROVE n = l
    <3>1. s[f[n]] = s[f[l]] /\ f[n] \in 1..Len(s) /\ f[l] \in 1..Len(s)
      BY <1>1, <1>4, <2>1
    <3>2. f[n] = f[l]
      BY <3>1 DEF Once
    <3>3. QED
      BY <1>3, <3>2
  <2>2. QED
    BY <1>5, <2>1 DEF Once
<1>7. ASSUME NEW e PROVE Contains(r, e) <=> Contains(s, e) /\ e \in S
  <2>1. Contains(r, e) => Contains(s, e) /\ e \in S
    BY <1>1, <1>4, <1>5 DEF Contains
  <2>2. ASSUME Contains(s, e), e \in S PROVE Contains(r, e)
    <3>1. PICK i \in 1..Len(s) : s[i] = e
      BY <2>2 DEF Contains
    <3>2. i \in PlacesIn(s, S)
      BY <2>2, <3>1 DEF PlacesIn
    <3>3. PICK n \in 1..m : f[n] = i
      BY <1>3, <3>2
    <3>4. n \in 1..Len(r) /\ r[n] = e
      BY <1>1, <1>5, <3>1, <3>3
    <3>5. QED
      BY <3>4 DEF Contains
  <2>3. QED
    BY <2>1, <2>2
<1>8. ASSUME NEW e, Contains(s, e), e \notin S PROVE Len(r) < Len(s)
  <2>1. \E i \in 1..Len(s) : s[i] \notin S
    BY <1>8 DEF Contains
  <2>2. QED
    BY <1>2, <1>5, <2>1
<1>9. QED
  BY <1>2, <1>5, <1>6, <1>7, <1>8 DEF r

LEMMA AppendOnce ==
    ASSUME NEW T, NEW s \in Seq(T), NEW x \in T, Once(s), ~Contains(s, x)
    PROVE  /\ Append(s, x) \in Seq(T) /\ Once(Append(s, x))
           /\ Len(Append(s, x)) = Len(s) + 1
           /\ \A e : Contains(Append(s, x), e) <=> Contains(s, e) \/ e = x
<1> DEFINE r == Append(s, x)
<1>1. /\ r \in Seq(T) /\ Len(s) \in Nat /\ Len(r) = Len(s) + 1
      /\ \A k \in 1..Len(s) : r[k] = s[k]
      /\ r[Len(s) + 1] = x
  OBVIOUS
<1> HIDE DEF r
<1>2. \A k \in 1..Len(s) : r[k] # x
  BY <1>1 DEF Contains
<1>3. ASSUME NEW i \in 1..Len(r), NEW j \in 1..Len(r), r[i] = r[j] PROVE i = j
  <2>1. i \in 1..Len(s) \/ i = Len(s) + 1
    BY <1>1
  <2>2. j \in 1..Len(s) \/ j = Len(s) + 1
    BY <1>1
  <2>3. QED
    BY <1>1, <1>2, <1>3, <2>1, <2>2 DEF Once
<1>4. ASSUME NEW e PROVE Contains(r, e) <=> Contains(s, e) \/ e = x
  BY <1>1 DEF Contains
<1>5. QED
  BY <1>1, <1>3, <1>4 DEF Once, r

CacheInv ==
    /\ order \in Seq(Keys) /\ Once(order) /\ Len(order) <= MaxEntries
    /\ items \in [Keys -> Texts \cup {Absent}]
    /\ \A k \in Keys : items[k] # Absent <=> Contains(order, k)

LEMMA MoveToEndOnce ==
    ASSUME CacheInv, NEW k \in Keys
    PROVE  /\ MoveToEnd(k) \in Seq(Keys) /\ Once(MoveToEnd(k))
           /\ \A e : Contains(MoveToEnd(k), e) <=> Contains(order, e) \/ e = k
           /\ Contains(order, k) => Len(MoveToEnd(k)) <= Len(order)
<1> DEFINE rest == Only(order, Keys \ {k})
<1>1. order \in Seq(Keys) /\ Once(order)
  BY DEF CacheInv
<1>2. /\ rest \in Seq(Keys) /\ Once(rest)
      /\ \A e : Contains(rest, e) <=> Contains(order, e) /\ e \in Keys \ {k}
      /\ Contains(order, k) => Len(rest) < Len(order)
  BY <1>1, OnlyKeeps
<1> HIDE DEF rest
<1>3. /\ Append(rest, k) \in Seq(Keys) /\ Once(Append(rest, k))
      /\ Len(Append(rest, k)) = Len(rest) + 1
      /\ \A e : Contains(Append(rest, k), e) <=> Contains(rest, e) \/ e = k
  BY <1>2, AppendOnce
<1>4. \A e : Contains(order, e) => e \in Keys
  BY <1>1 DEF Contains
<1>5. MoveToEnd(k) = Append(rest, k)
  BY DEF MoveToEnd, rest
<1>6. Len(rest) \in Nat /\ Len(order) \in Nat
  BY <1>1, <1>2
<1>7. QED
  BY <1>2, <1>3, <1>4, <1>5, <1>6

LEMMA TrimmedOnce ==
    ASSUME NEW s \in Seq(Keys), Once(s)
    PROVE  /\ Trimmed(s) \in Seq(Keys) /\ Once(Trimmed(s)) /\ Len(Trimmed(s)) <= MaxEntries
           /\ \A e : Contains(Trimmed(s), e) => Contains(s, e)
<1>0. Len(s) \in Nat /\ MaxEntries \in Nat
  BY RecallAssumption
<1>1. CASE Len(s) <= MaxEntries
  BY <1>0, <1>1 DEF Trimmed
<1>2. CASE Len(s) > MaxEntries
  <2> DEFINE from == Len(s) - MaxEntries
             r == SubSeq(s, from + 1, Len(s))
  <2>1. from \in Nat /\ from >= 1 /\ from <= Len(s)
    BY <1>0, <1>2
  <2>2. /\ r \in Seq(Keys) /\ Len(r) = Len(s) - from
        /\ \A n \in 1..(Len(s) - from) : r[n] = s[from + n]
    <3> HIDE DEF from
    <3>1. \A i \in (from + 1)..Len(s) : s[i] \in Keys
      BY <1>0, <2>1
    <3>2. /\ r \in Seq(Keys)
          /\ Len(r) = IF from + 1 <= Len(s) THEN Len(s) - (from + 1) + 1 ELSE 0
          /\ \A n \in 1..(Len(s) - (from + 1) + 1) : r[n] = s[(from + 1) + n - 1]
      BY <1>0, <2>1, <3>1, SubSeqProperties
    <3> HIDE DEF r
    <3>3. QED
      BY <1>0, <2>1, <3>2
  <2>3. Trimmed(s) = r /\ Len(s) - from = MaxEntries
    BY <1>0, <1>2 DEF Trimmed
  <2> HIDE DEF from, r
  <2>4. ASSUME NEW i \in 1..Len(r), NEW j \in 1..Len(r), r[i] = r[j] PROVE i = j
    <3>1. from + i \in 1..Len(s) /\ from + j \in 1..Len(s) /\ s[from + i] = s[from + j]
      BY <1>0, <2>1, <2>2, <2>4
    <3>2. from + i = from + j
      BY <3>1 DEF Once
    <3>3. QED
      BY <2>1, <3>2
  <2>5. ASSUME NEW e, Contains(r, e) PROVE Contains(s, e)
    <3>1. PICK i \in 1..Len(r) : r[i] = e
      BY <2>2, <2>5 DEF Contains
    <3>2. from + i \in 1..Len(s) /\ s[from + i] = e
      BY <1>0, <2>1, <2>2, <3>1
    <3>3. QED
      BY <3>2 DEF Contains
  <2>6. QED
    BY <1>0, <2>2, <2>3, <2>4, <2>5 DEF Once
<1>3. QED
  BY <1>0, <1>1, <1>2

\* get() moves the key it finds, and nothing else.
LEMMA TouchKeeps ==
    ASSUME CacheInv, NEW k, order' = Touched(k), items' = items
    PROVE  CacheInv'
<1>1. CASE Contains(order, k)
  <2>1. k \in Keys
    BY <1>1 DEF CacheInv, Contains
  <2>2. /\ order' \in Seq(Keys) /\ Once(order') /\ Len(order') <= Len(order)
        /\ \A e : Contains(order', e) <=> Contains(order, e)
    BY <1>1, <2>1, MoveToEndOnce DEF Touched
  <2>3. Len(order') \in Nat /\ Len(order) \in Nat /\ MaxEntries \in Nat
    BY <2>2, RecallAssumption DEF CacheInv
  <2>4. QED
    BY <2>2, <2>3 DEF CacheInv
<1>2. CASE ~Contains(order, k)
  BY <1>2 DEF Touched, CacheInv
<1>3. QED
  BY <1>1, <1>2

\* store() evicts what it has to, never an entry's text alone.
LEMMA StoreKeeps ==
    ASSUME CacheInv, NEW k \in Keys, NEW text \in Texts, Store(k, text)
    PROVE  CacheInv'
<1>1. /\ MoveToEnd(k) \in Seq(Keys) /\ Once(MoveToEnd(k))
      /\ \A e : Contains(MoveToEnd(k), e) <=> Contains(order, e) \/ e = k
  BY MoveToEndOnce
<1>2. order' = Trimmed(MoveToEnd(k))
  BY DEF Store
<1>3. /\ order' \in Seq(Keys) /\ Once(order') /\ Len(order') <= MaxEntries
      /\ \A e : Contains(order', e) => Contains(order, e) \/ e = k
  BY <1>1, <1>2, TrimmedOnce
<1>4. \A x \in Keys : items'[x] = IF ~Contains(order', x) THEN Absent
                                  ELSE IF x = k THEN text ELSE items[x]
  BY DEF Store
<1>5. text # Absent
  BY RecallAssumption DEF Texts, Keys
<1>6. items' \in [Keys -> Texts \cup {Absent}]
  BY DEF Store, CacheInv
<1>7. \A x \in Keys : items'[x] # Absent <=> Contains(order', x)
  BY <1>3, <1>4, <1>5 DEF CacheInv
<1>8. QED
  BY <1>3, <1>6, <1>7 DEF CacheInv

LEMMA ClearKeeps ==
    ASSUME CacheInv, NEW p, ClearProfile(p)
    PROVE  CacheInv'
<1> DEFINE S == {k \in Keys : k[1] # p}
<1>1. order \in Seq(Keys) /\ Once(order) /\ order' = Only(order, S)
  BY DEF CacheInv, ClearProfile
<1>2. \A k \in Keys : k \in S <=> k[1] # p
  OBVIOUS
<1> HIDE DEF S
<1>3. /\ order' \in Seq(Keys) /\ Once(order') /\ Len(order') <= Len(order)
      /\ \A e : Contains(order', e) <=> Contains(order, e) /\ e \in S
  BY <1>1, OnlyKeeps
<1>4. Len(order') \in Nat /\ Len(order) \in Nat /\ MaxEntries \in Nat
  BY <1>1, <1>3, RecallAssumption
<1>5. items' = [k \in Keys |-> IF k[1] = p THEN Absent ELSE items[k]]
  BY DEF ClearProfile
<1>6. \A k \in Keys : items'[k] # Absent <=> Contains(order', k)
  BY <1>2, <1>3, <1>5 DEF CacheInv
<1>7. QED
  BY <1>3, <1>4, <1>5, <1>6 DEF CacheInv

LEMMA TextAtTyped ==
    ASSUME CacheInv, NEW k
    PROVE  TextAt(k) \in Texts
  BY DEF CacheInv, TextAt, Texts

\* When each key is held once, the keys are as many as the places.
LEMMA OnceCounts ==
    ASSUME NEW T, NEW s \in Seq(T), Once(s)
    PROVE  Len(s) = Cardinality(ToSet(s))
<1>1. Len(s) \in Nat /\ DOMAIN s = 1..Len(s)
  OBVIOUS
<1>2. s \in [1..Len(s) -> ToSet(s)]
  <2>1. s = [k \in 1..Len(s) |-> s[k]]
    OBVIOUS
  <2>2. \A k \in 1..Len(s) : s[k] \in ToSet(s)
    BY <1>1 DEF ToSet
  <2>3. QED
    BY <2>1, <2>2
<1>3. s \in Bijection(1..Len(s), ToSet(s))
  <2>1. \A t \in ToSet(s) : \E k \in 1..Len(s) : s[k] = t
    BY <1>1 DEF ToSet
  <2>2. QED
    BY <1>2, <2>1 DEF Bijection, Injection, Surjection, Once, IsInjective
<1>4. ExistsBijection(1..Len(s), ToSet(s))
  BY <1>3 DEF ExistsBijection
<1>5. QED
  BY <1>1, <1>4, FS_CountingElements

LEMMA CacheStays ==
    ASSUME CacheInv, UNCHANGED <<items, order>>
    PROVE  CacheInv'
  BY DEF CacheInv

LEMMA CacheStep ==
    ASSUME RecallInv, CacheInv, [Next]_vars
    PROVE  CacheInv'
<1>1. ASSUME NEW p \in Profiles, NEW t \in Threads, Initialize(p, t) PROVE CacheInv'
  BY <1>1, CacheStays DEF Initialize, cache
<1>2. ASSUME NEW p \in Profiles, TurnStart(p) PROVE CacheInv'
  BY <1>2, ClearKeeps DEF TurnStart
<1>3. ASSUME NEW t \in Threads, Prefetch(t) \/ QueuePrefetch(t) \/ SessionReset(t)
      PROVE  CacheInv'
  BY <1>3, ClearKeeps, CacheStays DEF Prefetch, QueuePrefetch, SessionReset
<1>4. ASSUME NEW t \in Threads, NEW parent \in Threads, SessionBranch(t, parent)
      PROVE  CacheInv'
  BY <1>4, ClearKeeps DEF SessionBranch
<1>5. CASE PreCompress
  BY <1>5, TouchKeeps DEF PreCompress
<1>6. CASE EngineFetch
  BY <1>6, TouchKeeps DEF EngineFetch
<1>7. CASE PrefetchSetCurrent \/ PrefetchGet
  BY <1>7, CacheStays, TouchKeeps DEF PrefetchSetCurrent, PrefetchGet
<1>8. CASE RefreshTest \/ RefreshSubmit \/ RecapSubmit \/ Return
  BY <1>8, CacheStays DEF RefreshTest, RefreshSubmit, RecapSubmit, Return, cache
<1>9. CASE LoseJob
  BY <1>9, CacheStays DEF LoseJob, cache
<1>10. ASSUME NEW w \in Workers, Work(w) PROVE CacheInv'
  <2>1. CASE FinishRecall(w) \/ FinishLineage(w)
    <3>1. /\ job[w] \in FitJobs(lineage) /\ job[w].kind \in Storing
          /\ \/ \E text \in {job[w].of, NoText} : Store(job[w].key, text)
             \/ UNCHANGED cache
      BY <2>1 DEF FinishRecall, FinishLineage, RecallInv, JobsFit, Storing
    <3>2. job[w].key \in Keys /\ job[w].of \in Texts
      BY <3>1 DEF FitJobs, Jobs
    <3>3. NoText \in Texts
      BY DEF Texts
    <3>4. QED
      BY <3>1, <3>2, <3>3, StoreKeeps, CacheStays DEF cache
  <2>2. CASE TakeJob(w) \/ ClearInFlight(w) \/ FinishRecap(w)
    BY <2>2, CacheStays DEF TakeJob, ClearInFlight, FinishRecap, cache
  <2>3. CASE BringUp(w) \/ BringUpFails(w) \/ BringUpTest(w) \/ BringUpSubmit(w)
    BY <2>3, CacheStays DEF BringUp, BringUpFails, BringUpTest, BringUpSubmit, cache
  <2>4. QED
    BY <1>10, <2>1, <2>2, <2>3 DEF Work
<1>11. CASE UNCHANGED vars
  BY <1>11, CacheStays DEF vars, cache
<1>12. QED
  BY <1>1, <1>2, <1>3, <1>4, <1>5, <1>6, <1>7, <1>8, <1>9, <1>10, <1>11
     DEF Next, HookBegins, HookGoesOn

\* What else the hooks and the jobs read and write.
FlagsTyped == alive \in BOOLEAN /\ inFlight \in BOOLEAN

TextsTyped ==
    /\ current \in Texts /\ lastRecap \in Texts /\ cached \in Texts
    /\ pc \in {"idle", "lookup", "get", "refresh", "submit", "recap", "serve", "return"}

LEMMA FlagsStep ==
    ASSUME FlagsTyped, [Next]_vars
    PROVE  FlagsTyped'
<1>1. CASE HookBegins
  <2>1. UNCHANGED <<alive, inFlight>>
    BY <1>1, Zenon DEF HookBegins, Initialize, TurnStart, Prefetch, QueuePrefetch, SessionReset,
            SessionBranch, PreCompress, EngineFetch, identity
  <2>2. QED
    BY <2>1, Zenon DEF FlagsTyped
<1>2. CASE HookGoesOn
  <2>1. alive' = alive /\ inFlight' \in {inFlight, TRUE}
    BY <1>2, Zenon DEF HookGoesOn, PrefetchSetCurrent, PrefetchGet, RefreshTest, RefreshSubmit, RecapSubmit, Return,
            StartRefresh, identity
  <2>2. QED
    BY <2>1, Zenon DEF FlagsTyped
<1>3. CASE LoseJob \/ UNCHANGED vars
  BY <1>3, Zenon DEF LoseJob, vars, identity, FlagsTyped
<1>4. ASSUME NEW w \in Workers, Work(w) PROVE FlagsTyped'
  <2>1. alive' \in {alive, TRUE, FALSE} /\ inFlight' \in {inFlight, TRUE, FALSE}
    BY <1>4, Zenon DEF Work, TakeJob, FinishRecall, ClearInFlight, FinishLineage, FinishRecap,
            BringUp, BringUpFails, BringUpTest, BringUpSubmit, StartRefresh, identity
  <2>2. QED
    BY <2>1, Zenon DEF FlagsTyped
<1>5. QED
  BY <1>1, <1>2, <1>3, <1>4 DEF Next

LEMMA TextsStep ==
    ASSUME RecallInv, CacheInv, TextsTyped, [Next]_vars
    PROVE  TextsTyped'
<1>0. /\ NoText \in Texts /\ Own \in Texts /\ Own \in Keys
      /\ \A k : TextAt(k) \in Texts
      /\ \A w \in Workers : job[w] \in FitJobs(lineage) /\ job[w].of \in Texts
      /\ \A w \in Workers : job[w].kind \in Storing => job[w].key \in Keys
      /\ \A k \in Keys : k \in Texts
  BY TextAtTyped DEF RecallInv, SessionTyped, JobsFit, FitJobs, Jobs, Texts, Own, Keys
<1>1. CASE HookBegins
  <2>1. ASSUME NEW p \in Profiles, NEW t \in Threads, Initialize(p, t) PROVE TextsTyped'
    BY <1>0, <2>1 DEF Initialize, Called, cache, TextsTyped
  <2>2. ASSUME NEW p \in Profiles, TurnStart(p) PROVE TextsTyped'
    BY <1>0, <2>2 DEF TurnStart, Called, TextsTyped
  <2>3. ASSUME NEW t \in Threads, Prefetch(t) \/ SessionReset(t) PROVE TextsTyped'
    BY <1>0, <2>3 DEF Prefetch, SessionReset, Called, TextsTyped
  <2>4. ASSUME NEW t \in Threads, QueuePrefetch(t) PROVE TextsTyped'
    <3>1. <<profile, t>> \in Texts
      BY DEF RecallInv, SessionTyped, Texts, Keys
    <3>2. QED
      BY <1>0, <2>4, <3>1 DEF QueuePrefetch, Called, TextsTyped
  <2>5. ASSUME NEW t \in Threads, NEW parent \in Threads, SessionBranch(t, parent)
        PROVE  TextsTyped'
    BY <1>0, <2>5 DEF SessionBranch, Called, TextsTyped
  <2>6. CASE PreCompress
    BY <1>0, <2>6 DEF PreCompress, Called, TextsTyped
  <2>7. CASE EngineFetch
    <3>1. cached' \in {TextAt(current), Own, NoText} /\ pc' = "return"
          /\ UNCHANGED <<current, lastRecap>>
      BY <2>7 DEF EngineFetch, Called
    <3>2. QED
      BY <1>0, <3>1 DEF TextsTyped
  <2>8. QED
    BY <1>1, <2>1, <2>2, <2>3, <2>4, <2>5, <2>6, <2>7 DEF HookBegins
<1>2. CASE HookGoesOn
  <2>0. AfterRefresh \in {"recap", "return", "idle"}
    BY DEF AfterRefresh
  <2>1. CASE PrefetchSetCurrent \/ PrefetchGet
    BY <1>0, <2>1 DEF PrefetchSetCurrent, PrefetchGet, TextsTyped
  <2>2. CASE RefreshTest
    <3>1. pc' \in {"submit", AfterRefresh} /\ UNCHANGED <<current, lastRecap, cached>>
      BY <2>2 DEF RefreshTest, cache
    <3>2. QED
      BY <2>0, <3>1 DEF TextsTyped
  <2>3. CASE RefreshSubmit
    <3>1. pc' = AfterRefresh /\ current' = Own /\ UNCHANGED <<lastRecap, cached>>
      BY <2>3 DEF RefreshSubmit, StartRefresh
    <3>2. QED
      BY <1>0, <2>0, <3>1 DEF TextsTyped
  <2>4. CASE RecapSubmit \/ Return
    BY <1>0, <2>4 DEF RecapSubmit, Return, cache, TextsTyped
  <2>5. QED
    BY <1>2, <2>1, <2>2, <2>3, <2>4 DEF HookGoesOn
<1>3. CASE LoseJob \/ UNCHANGED vars
  BY <1>3 DEF LoseJob, vars, cache, call, TextsTyped
<1>4. ASSUME NEW w \in Workers, Work(w) PROVE TextsTyped'
  <2>0. UNCHANGED <<cached, pc>>
    BY <1>4 DEF Work, TakeJob, FinishRecall, ClearInFlight, FinishLineage, FinishRecap,
            BringUp, BringUpFails, BringUpTest, BringUpSubmit, call
  <2>1. CASE FinishRecall(w) \/ FinishLineage(w)
    <3>1. current' \in {current, job[w].key} /\ lastRecap' = lastRecap
      BY <2>1 DEF FinishRecall, FinishLineage, Store, cache
    <3>2. job[w].key \in Keys
      BY <1>0, <2>1 DEF FinishRecall, FinishLineage, Storing
    <3>3. QED
      BY <1>0, <2>0, <3>1, <3>2 DEF TextsTyped
  <2>2. CASE FinishRecap(w)
    BY <1>0, <2>0, <2>2 DEF FinishRecap, cache, TextsTyped
  <2>3. CASE BringUpSubmit(w)
    BY <1>0, <2>0, <2>3 DEF BringUpSubmit, StartRefresh, Storing, TextsTyped
  <2>4. CASE TakeJob(w) \/ ClearInFlight(w) \/ BringUp(w) \/ BringUpFails(w) \/ BringUpTest(w)
    BY <2>0, <2>4 DEF TakeJob, ClearInFlight, BringUp, BringUpFails, BringUpTest, cache, TextsTyped
  <2>5. QED
    BY <1>4, <2>1, <2>2, <2>3, <2>4 DEF Work
<1>5. QED
  BY <1>1, <1>2, <1>3, <1>4 DEF Next

LEMMA CacheInit == Init => CacheInv /\ FlagsTyped /\ TextsTyped
<1> SUFFICES ASSUME Init PROVE CacheInv /\ FlagsTyped /\ TextsTyped
  OBVIOUS
<1>1. CacheInv
  BY RecallAssumption DEF Init, CacheInv, Once, Contains
<1>2. FlagsTyped
  BY Zenon DEF Init, FlagsTyped
<1>3. TextsTyped
  BY DEF Init, TextsTyped, Texts
<1>4. QED
  BY <1>1, <1>2, <1>3

\* The types and the cache: the keys of its order are exactly those that have a text,
\* each once, and never more than max_entries, whatever recalls arrive late.
THEOREM RecallTyped == Spec => []TypeOK
<1> DEFINE Inv == RecallInv /\ CacheInv /\ FlagsTyped /\ TextsTyped
<1>1. Init => Inv
  BY RecallInit, CacheInit
<1>2. Inv /\ [Next]_vars => Inv'
  BY RecallStep, CacheStep, FlagsStep, TextsStep
<1>3. Inv => TypeOK
  <2> SUFFICES ASSUME Inv PROVE TypeOK
    OBVIOUS
  <2>1. Own \in Keys
    BY DEF RecallInv, SessionTyped, Own, Keys
  <2>2. Len(order) = Cardinality(ToSet(order))
    BY OnceCounts DEF CacheInv
  <2>3. queue \in Seq(Jobs) /\ job \in [Workers -> Jobs]
    <3>1. FitJobs(lineage) \subseteq Jobs
      BY DEF FitJobs
    <3>2. QED
      BY <3>1 DEF RecallInv, JobsFit
  <2>4. CacheInv /\ FlagsTyped /\ TextsTyped
    OBVIOUS
  <2> HIDE DEF Inv
  <2>5. QED
    BY <2>1, <2>2, <2>3, <2>4, Zenon DEF TypeOK, CacheInv, FlagsTyped, TextsTyped
<1> HIDE DEF Inv
<1>4. QED
  BY <1>1, <1>2, <1>3, PTL DEF Spec

=============================================================================
