------------------------ MODULE SoilCollectionProofs ------------------------
(***************************************************************************)
(* Proofs about the storing of readings: what covers a time, the watermark *)
(* of the collector and the readings that are stored fit together, for     *)
(* every number of collectors, every history of the upstream, every size   *)
(* of a page and every limit.                                              *)
(***************************************************************************)
EXTENDS SoilCollection, FiniteSetTheorems, WellFoundedInduction, TLAPS

-----------------------------------------------------------------------------
(* Extremes of a set of times.                                             *)

LEMMA GreatestExists ==
    ASSUME NEW n \in Nat, NEW T \in SUBSET (NoRow .. n), T # {}
    PROVE  \E x \in T : \A y \in T : y <= x
<1> DEFINE upTo == {x .. n : x \in T}
<1>1. upTo \subseteq FiniteSubsetsOf(NoRow .. n) /\ upTo # {}
  <2>1. \A x \in T : x .. n \in SUBSET (NoRow .. n) /\ IsFiniteSet(x .. n)
    BY FS_Interval DEF NoRow
  <2> QED BY <2>1 DEF FiniteSubsetsOf
<1>2. PICK a \in upTo : \A b \in upTo : ~(<<b, a>> \in StrictSubsetOrdering(NoRow .. n))
  <2> HIDE DEF upTo
  <2> QED BY <1>1, FS_StrictSubsetOrderingWellFounded, WFMin
<1>3. PICK x \in T : a = x .. n BY <1>2
<1>4. ASSUME NEW y \in T, ~(y <= x) PROVE FALSE
  <2>1. /\ y .. n \subseteq x .. n /\ y .. n # x .. n
        /\ y .. n \in SUBSET (NoRow .. n) /\ x .. n \in SUBSET (NoRow .. n)
    BY <1>4 DEF NoRow
  <2>2. <<y .. n, x .. n>> \in StrictSubsetOrdering(NoRow .. n)
    BY <2>1, Zenon DEF StrictSubsetOrdering
  <2>3. y .. n \in upTo OBVIOUS
  <2> QED BY <1>2, <1>3, <2>2, <2>3
<1> QED BY <1>4

LEMMA MaxOf ==
    ASSUME NEW n \in Nat, NEW T \in SUBSET (NoRow .. n), T # {}
    PROVE  Max(T) \in T /\ \A y \in T : y <= Max(T)
BY GreatestExists DEF Max

LEMMA MinOf ==
    ASSUME NEW T \in SUBSET Times, T # {}
    PROVE  Min(T) \in T /\ \A y \in T : Min(T) <= y
<1> DEFINE R == {MaxTime - x : x \in T}
<1>1. R \in SUBSET (NoRow .. MaxTime) /\ R # {}
  <2>1. MaxTime \in Nat BY CollectionAssumption
  <2>2. \A x \in T : MaxTime - x \in NoRow .. MaxTime BY <2>1 DEF Times, NoRow
  <2> QED BY <2>2
<1>2. PICK r \in R : \A s \in R : s <= r
  <2> HIDE DEF R
  <2> QED BY <1>1, GreatestExists, CollectionAssumption
<1>3. PICK x \in T : r = MaxTime - x BY <1>2
<1>4. ASSUME NEW y \in T PROVE x <= y
  <2>1. MaxTime - y <= r BY <1>2
  <2> QED BY <1>3, <2>1, CollectionAssumption DEF Times
<1> QED BY <1>4 DEF Min

-----------------------------------------------------------------------------
(* The records of the upstream.                                            *)

UpstreamOK == upstream \in [Times -> Seq(Values \cup {None})]

LEMMA RecordedFinite ==
    ASSUME UpstreamOK, NEW t \in Times
    PROVE  IsFiniteSet(Recorded(t)) /\ Cardinality(Recorded(t)) \in Nat
<1> DEFINE f == [i \in 1 .. Len(upstream[t]) |-> upstream[t][i]]
<1>1. Len(upstream[t]) \in Nat BY DEF UpstreamOK
<1>2. IsFiniteSet(1 .. Len(upstream[t])) BY <1>1, FS_Interval
<1>3. f \in Surjection(1 .. Len(upstream[t]), Recorded(t)) BY DEF Surjection, Recorded
<1>4. IsFiniteSet(Recorded(t))
  <2> HIDE DEF f
  <2> QED BY <1>2, <1>3, FS_Surjection
<1> QED BY <1>4, FS_CardinalityType

LEMMA RecordsFinite ==
    ASSUME UpstreamOK, NEW T \in SUBSET Times
    PROVE  IsFiniteSet(Records(T)) /\ Count(T) \in Nat
<1> DEFINE of(t) == {t} \X (1 .. Len(upstream[t]))
           S == {of(t) : t \in T}
           f == [t \in T |-> of(t)]
<1>1. IsFiniteSet(T)
  <2>1. MaxTime \in Nat BY CollectionAssumption
  <2>2. IsFiniteSet(Times) BY <2>1, FS_Interval DEF Times
  <2> QED BY <2>2, FS_Subset
<1>2. f \in Surjection(T, S) BY DEF Surjection
<1>3. IsFiniteSet(S)
  <2> HIDE DEF f, S
  <2> QED BY <1>1, <1>2, FS_Surjection
<1>4. \A t \in T : IsFiniteSet(of(t))
  <2> SUFFICES ASSUME NEW t \in T PROVE IsFiniteSet(of(t)) OBVIOUS
  <2>1. Len(upstream[t]) \in Nat BY DEF UpstreamOK
  <2>2. IsFiniteSet(1 .. Len(upstream[t])) BY <2>1, FS_Interval
  <2>3. IsFiniteSet({t}) BY FS_Singleton
  <2> QED BY <2>2, <2>3, FS_Product
<1>5. IsFiniteSet(UNION S) BY <1>3, <1>4, FS_UNION
<1> QED BY <1>5, FS_CardinalityType DEF Records, Count

(* The records of one time and those of others are counted in those of all.*)
LEMMA CountSplit ==
    ASSUME UpstreamOK, NEW T \in SUBSET Times, NEW t \in Times \ T,
           NEW U \in SUBSET Times, T \cup {t} \subseteq U
    PROVE  Count(T) + Len(upstream[t]) <= Count(U)
<1> DEFINE of == {t} \X (1 .. Len(upstream[t]))
<1>1. Len(upstream[t]) \in Nat BY DEF UpstreamOK
<1>2. IsFiniteSet(of) /\ Cardinality(of) = Len(upstream[t])
  <2>1. IsFiniteSet({t}) /\ Cardinality({t}) = 1 BY FS_Singleton
  <2>2. /\ IsFiniteSet(1 .. Len(upstream[t]))
        /\ Cardinality(1 .. Len(upstream[t])) = Len(upstream[t])
    BY SMTT(60), <1>1, FS_Interval
  <2>3. IsFiniteSet(of) /\ Cardinality(of) = Cardinality({t}) * Cardinality(1 .. Len(upstream[t]))
    BY <2>1, <2>2, FS_Product
  <2> QED BY <1>1, <2>1, <2>2, <2>3
<1>3. IsFiniteSet(Records(T)) /\ IsFiniteSet(Records(U)) /\ Count(T) \in Nat /\ Count(U) \in Nat
  BY RecordsFinite
<1>4. Records(T) \cap of = {} /\ Records(T) \cup of \subseteq Records(U)
  BY DEF Records
<1>5. Cardinality(Records(T) \cup of) = Cardinality(Records(T)) + Len(upstream[t])
  <2> HIDE DEF of
  <2>1. Cardinality(Records(T) \cap of) = 0 BY <1>4, FS_EmptySet
  <2>2. Cardinality(Records(T) \cup of)
          = Cardinality(Records(T)) + Cardinality(of) - Cardinality(Records(T) \cap of)
    BY <1>2, <1>3, FS_Union
  <2> QED BY <1>1, <1>2, <1>3, <2>1, <2>2 DEF Count
<1>6. Cardinality(Records(T) \cup of) <= Cardinality(Records(U))
  BY <1>3, <1>4, FS_Subset
<1> QED BY <1>1, <1>3, <1>5, <1>6 DEF Count

(* What an unambiguous time, and a time that is not reported as incomplete,*)
(* have on record.                                                         *)
LEMMA SoundOrEmpty ==
    ASSUME UpstreamOK, NEW t \in Times
    PROVE  /\ Sound(t) => Cardinality(Recorded(t) \ {None}) = 1
           /\ None \notin Recorded(t) /\ Cardinality(Recorded(t)) <= 1 => Empty(t) \/ Sound(t)
<1>1. Sound(t) => Recorded(t) \ {None} = Recorded(t) BY DEF Sound
<1>2. ASSUME Cardinality(Recorded(t)) = 0 PROVE Empty(t)
  <2>1. Recorded(t) = {} BY <1>2, RecordedFinite, FS_EmptySet
  <2>2. Len(upstream[t]) \in Nat /\ upstream[t] \in Seq(Values \cup {None}) BY DEF UpstreamOK
  <2>3. Len(upstream[t]) = 0
    <3>1. Len(upstream[t]) > 0 => upstream[t][1] \in Recorded(t) BY <2>2 DEF Recorded
    <3> QED BY <2>1, <2>2, <3>1
  <2> QED BY <2>2, <2>3 DEF Empty
<1>3. None \notin Recorded(t) /\ Cardinality(Recorded(t)) <= 1 => Empty(t) \/ Sound(t)
  BY <1>2, RecordedFinite DEF Sound
<1> QED BY <1>1, <1>3 DEF Sound

-----------------------------------------------------------------------------
(* The pages of the upstream.                                              *)

(* What a page says of a time that it has all records of.                  *)
Tells(page, t) ==
    /\ Sound(t) => t \in page.readings
    /\ page.complete => Empty(t) \/ Sound(t)

LEMMA FetchedPage ==
    ASSUME UpstreamOK, now \in 0 .. MaxTime,
           NEW begin \in 0 .. MaxTime, NEW end \in 0 .. MaxTime, NEW ascending \in BOOLEAN,
           NEW page, page = FetchPage(begin, end, ascending)
    PROVE  /\ page \in Page
           /\ ~page.full => \A t \in Times : begin <= t /\ t <= end /\ t <= now => Tells(page, t)
           /\ page.full /\ ascending =>
                /\ begin <= page.last /\ page.last <= end
                /\ \A t \in Times : begin <= t /\ t < page.last => Tells(page, t)
<1> DEFINE range == {t \in Times : begin <= t /\ t <= end /\ t <= now}
           before(t) == {u \in range : IF ascending THEN u < t ELSE u > t}
           taken(t) == Smaller(Len(upstream[t]), Larger(0, PageSize - Count(before(t))))
           seen(t) == {upstream[t][i] : i \in 1 .. taken(t)}
           times == {t \in range : taken(t) > 0}
           isFull == Count(range) >= PageSize
<1>1. page = [readings |-> {t \in range : Cardinality(seen(t) \ {None}) = 1},
              complete |-> \A t \in range : None \notin seen(t) /\ Cardinality(seen(t)) <= 1,
              full |-> isFull,
              last |-> IF times = {} THEN 0 ELSE IF ascending THEN Max(times) ELSE Min(times)]
  BY DEF FetchPage
<1>2. /\ range \in SUBSET Times /\ times \in SUBSET range /\ Count(range) \in Nat
      /\ \A t \in range : before(t) \in SUBSET range /\ t \notin before(t)
                          /\ Count(before(t)) \in Nat /\ Len(upstream[t]) \in Nat
  <2>1. \A t \in range : before(t) \in SUBSET range /\ t \notin before(t) BY DEF Times
  <2>2. range \in SUBSET Times /\ times \in SUBSET range OBVIOUS
  <2> HIDE DEF range, before
  <2> QED BY <2>1, <2>2, RecordsFinite DEF UpstreamOK
<1>3. /\ times # {} => /\ Max(times) \in times /\ Min(times) \in times
                       /\ \A t \in times : t <= Max(times)
  <2>1. times \in SUBSET Times /\ times \in SUBSET (NoRow .. MaxTime)
    BY CollectionAssumption DEF Times, NoRow
  <2> HIDE DEF times
  <2> QED BY <2>1, MaxOf, MinOf, CollectionAssumption
<1>4. page \in Page
  <2>1. page.last = 0 \/ page.last \in times
    <3> HIDE DEF times
    <3> QED BY <1>1, <1>3
  <2>2. page.last \in 0 .. MaxTime
    <3>1. MaxTime \in Nat BY CollectionAssumption
    <3>2. times \in SUBSET Times BY <1>2
    <3>3. page.last = 0 \/ page.last \in Times
      <4> HIDE DEF times
      <4> QED BY <2>1, <3>2, Zenon
    <3> QED BY <3>1, <3>3 DEF Times
  <2>3. {t \in range : Cardinality(seen(t) \ {None}) = 1} \in SUBSET Times OBVIOUS
  <2> HIDE DEF range, seen, times
  <2> QED BY <1>1, <2>2, <2>3 DEF Page
<1>9. page.full = isFull
  <2> HIDE DEF range, seen, times, isFull
  <2> QED BY <1>1
<1>10. PageSize \in Nat \ {0} BY CollectionAssumption
<1>5. ASSUME NEW t \in range, taken(t) = Len(upstream[t]) PROVE Tells(page, t)
  <2>1. seen(t) = Recorded(t) BY <1>5 DEF Recorded
  <2>2. /\ page.complete => None \notin seen(t) /\ Cardinality(seen(t)) <= 1
        /\ Cardinality(seen(t) \ {None}) = 1 => t \in page.readings
    <3> HIDE DEF seen
    <3> QED BY <1>1
  <2> QED BY <2>1, <2>2, SoundOrEmpty DEF Tells
<1>6. ASSUME NEW t \in range, Count(before(t)) + Len(upstream[t]) <= PageSize
      PROVE  taken(t) = Len(upstream[t])
  BY <1>2, <1>6, CollectionAssumption DEF Smaller, Larger
<1>7. ASSUME ~page.full, NEW t \in range PROVE Tells(page, t)
  <2>1. Count(before(t)) + Len(upstream[t]) <= Count(range)
    <3> HIDE DEF range, before
    <3> QED BY <1>2, CountSplit
  <2>2. Count(range) < PageSize
    <3>1. ~(Count(range) >= PageSize) BY <1>7, <1>9, Zenon
    <3> HIDE DEF range
    <3> QED BY <1>2, <1>10, <3>1
  <2> QED BY <1>2, <1>5, <1>6, <2>1, <2>2, CollectionAssumption
<1>8. ASSUME page.full, ascending
      PROVE  /\ begin <= page.last /\ page.last <= end
             /\ \A t \in Times : begin <= t /\ t < page.last => Tells(page, t)
  <2>1. times # {}
    <3> DEFINE some == {t \in range : Len(upstream[t]) > 0}
    <3>1. some # {}
      <4>1. ASSUME some = {} PROVE Records(range) = {}
        <5>1. \A t \in range : 1 .. Len(upstream[t]) = {} BY <1>2, <4>1
        <5> HIDE DEF range
        <5> QED BY <5>1 DEF Records
      <4>2. Count(range) # 0
        <5>1. Count(range) >= PageSize BY <1>8, <1>9, Zenon
        <5> HIDE DEF range
        <5> QED BY <1>2, <1>10, <5>1
      <4> QED BY <4>1, <4>2, FS_EmptySet DEF Count
    <3>2. some \in SUBSET Times OBVIOUS
    <3>3. PICK t \in some : \A u \in some : t <= u
      <4> HIDE DEF some
      <4> QED BY <3>1, <3>2, MinOf
    <3>4. \A u \in before(t) : 1 .. Len(upstream[u]) = {}
      BY <1>2, <1>8, <3>3 DEF Times
    <3>5. Count(before(t)) = 0
      <4> HIDE DEF before
      <4>1. Records(before(t)) = {} BY <3>4 DEF Records
      <4> QED BY <4>1, FS_EmptySet DEF Count
    <3>6. Len(upstream[t]) > 0 /\ Len(upstream[t]) \in Nat BY <1>2
    <3>7. taken(t) > 0
      BY <3>5, <3>6, CollectionAssumption DEF Smaller, Larger
    <3> QED BY <3>7
  <2>2. page.last = Max(times) /\ page.last \in times
    <3> HIDE DEF times, range, seen
    <3> QED BY <1>1, <1>3, <1>8, <2>1
  <2>3. Count(before(page.last)) < PageSize
    <3>1. taken(page.last) > 0 /\ page.last \in range BY <2>2
    <3> HIDE DEF range, before
    <3> QED BY <1>2, <3>1, CollectionAssumption DEF Smaller, Larger
  <2>4. ASSUME NEW t \in Times, begin <= t, t < page.last PROVE Tells(page, t)
    <3>1. t \in range /\ page.last \in range BY <2>2, <2>4 DEF Times
    <3>2. before(t) \cup {t} \subseteq before(page.last)
      <4>1. before(t) = {u \in range : u < t} /\ before(page.last) = {u \in range : u < page.last}
        BY <1>8
      <4>2. \A u \in range : u < t => u < page.last BY <2>4, <3>1 DEF Times
      <4> HIDE DEF range, before
      <4> QED BY <2>4, <3>1, <4>1, <4>2
    <3>3. Count(before(t)) + Len(upstream[t]) <= Count(before(page.last))
      <4> HIDE DEF range, before
      <4> QED BY <1>2, <3>1, <3>2, CountSplit
    <3>4. Count(before(t)) + Len(upstream[t]) <= PageSize
      <4> HIDE DEF range, before
      <4> QED BY <1>2, <2>3, <3>1, <3>3, CollectionAssumption
    <3> HIDE DEF taken
    <3> QED BY <1>5, <1>6, <3>1, <3>4
  <2> QED BY <2>2, <2>4
<1> QED BY <1>4, <1>7, <1>8

LEMMA NextPageTold ==
    ASSUME UpstreamOK, now \in 0 .. MaxTime,
           NEW r, r.begin \in 0 .. MaxTime, r.end \in 0 .. MaxTime
    PROVE  /\ NextPage(r) \in Page
           /\ ~NextPage(r).full =>
                \A t \in Times : r.begin <= t /\ t <= r.end /\ t <= now => Tells(NextPage(r), t)
           /\ NextPage(r).full =>
                /\ r.begin <= NextPage(r).last /\ NextPage(r).last <= r.end
                /\ \A t \in Times : r.begin <= t /\ t < NextPage(r).last => Tells(NextPage(r), t)
<1> DEFINE ascending == TRUE
<1>1. ascending \in BOOLEAN OBVIOUS
<1>2. NextPage(r) = FetchPage(r.begin, r.end, ascending) BY DEF NextPage
<1>3. ascending OBVIOUS
<1> HIDE DEF ascending
<1> QED BY <1>1, <1>2, <1>3, FetchedPage

LEMMA FetchedLatest == FetchLatest \in Page
<1> DEFINE times == {t \in Times : t <= now /\ \E i \in 1 .. Len(upstream[t]) : upstream[t][i] # None}
           latest == {t \in times : t = Max(times)}
<1>1. FetchLatest = [NoPage EXCEPT !.readings = latest] BY DEF FetchLatest
<1>2. latest \in SUBSET Times OBVIOUS
<1>3. 0 \in 0 .. MaxTime BY CollectionAssumption
<1> HIDE DEF latest
<1> QED BY <1>1, <1>2, <1>3 DEF NoPage, Page

-----------------------------------------------------------------------------
(* Types.                                                                  *)

LEMMA UpstreamTyped == ASSUME TypeOK PROVE UpstreamOK
BY CollectionAssumption DEF TypeOK, UpstreamOK

LEMMA Stored ==
    ASSUME TypeOK, NEW readings \in SUBSET Times, StoreReadings(readings)
    PROVE  /\ stored' \in SUBSET Times /\ Cardinality(stored') <= StationLimit
           /\ snapshot' \in 0 .. MaxTime
           /\ stored \subseteq stored'
<1>1. snapshot' \in 0 .. MaxTime
  <2>1. MaxTime \in Nat /\ snapshot \in 0 .. MaxTime BY CollectionAssumption DEF TypeOK
  <2>2. readings # {} => Max(readings) \in readings
    <3>1. readings \in SUBSET (NoRow .. MaxTime) BY <2>1 DEF Times, NoRow
    <3> QED BY <2>1, <3>1, MaxOf
  <2> QED BY <2>1, <2>2 DEF StoreReadings, NewSnapshot, Larger, Times
<1>2. /\ stored' \in SUBSET Times /\ Cardinality(stored') <= StationLimit
      /\ stored \subseteq stored'
  <2>1. readings = {} => stored \cup readings = stored OBVIOUS
  <2> QED BY <2>1 DEF StoreReadings, CanInsert, TypeOK
<1> QED BY <1>1, <1>2

LEMMA CoverTyped ==
    ASSUME TypeOK, NEW readings, NEW begin \in 0 .. MaxTime, NEW end \in NoRow .. MaxTime,
           NEW proven, StoreCoverage(readings, begin, end, proven)
    PROVE  cover' \in [0 .. MaxTime -> NoRow .. MaxTime]
BY DEF StoreCoverage, TypeOK, Larger

LEMMA RunTyped ==
    ASSUME TypeOK, NEW p \in Procs, NEW r \in Run, run' = [run EXCEPT ![p] = r]
    PROVE  run' \in [Procs -> Run]
BY DEF TypeOK

(* The runs that the end of a step leaves.                                 *)
LEMMA IdleTyped ==
    /\ NoPage \in Page /\ IdleRun \in Run /\ EndedRun \in Run
    /\ \A outcome \in Outcomes : FinishedRun(outcome) \in Run
<1>1. 0 \in 0 .. MaxTime /\ 0 \in 0 .. MaxPages BY CollectionAssumption
<1>2. NoPage \in Page BY <1>1 DEF NoPage, Page
<1> QED BY <1>1, <1>2 DEF IdleRun, EndedRun, FinishedRun, Run, Stages, Outcomes

LEMMA AfterPageTyped ==
    ASSUME NEW r \in Run, r.page.last \in 0 .. MaxTime PROVE AfterPage(r) \in Run
<1>1. ResumeAt(r.end, r.page) \in 0 .. MaxTime BY DEF ResumeAt, Run
<1>2. r.pages + 1 < MaxPages => r.pages + 1 \in 0 .. MaxPages BY CollectionAssumption DEF Run
<1>3. r.pages + 1 >= MaxPages \/ r.pages + 1 < MaxPages BY CollectionAssumption DEF Run
<1>4. "success" \in Outcomes /\ "saturated" \in Outcomes /\ "budget" \in Outcomes BY DEF Outcomes
<1>5. r.pages + 1 < MaxPages =>
        [r EXCEPT !.stage = "page", !.begin = ResumeAt(r.end, r.page), !.pages = r.pages + 1,
                  !.page = NoPage] \in Run
  BY <1>1, <1>2, IdleTyped DEF Run, Stages
<1> QED BY <1>3, <1>4, <1>5, IdleTyped DEF AfterPage

LEMMA NextTyped == ASSUME TypeOK, [Next]_vars PROVE TypeOK'
<1> USE DEF rows
<1>t. /\ MaxTime \in Nat /\ MaxFaults \in Nat /\ now \in 0 .. MaxTime
      /\ lease \in Procs \cup {None, "GONE"} /\ run \in [Procs -> Run]
      /\ checkpoint \in Checkpoint /\ faults \in 0 .. MaxFaults /\ request \in Request
  BY CollectionAssumption DEF TypeOK
<1>1. CASE UNCHANGED vars BY <1>1 DEF vars, TypeOK
<1>2. ASSUME NEW p \in Procs, StartRun(p) PROVE TypeOK'
  <2>1. [IdleRun EXCEPT !.stage = "prune", !.start = now] \in Run
    BY <1>t, IdleTyped DEF Run, Stages
  <2> QED BY <1>2, <2>1, RunTyped DEF StartRun, TypeOK
<1>3. ASSUME NEW p \in Procs, Prune(p) PROVE TypeOK'
  <2> DEFINE cutoff == run[p].start - Retention
             old == {b \in 0 .. MaxTime : cover[b] # NoRow /\ b < cutoff}
  <2>1. stored' \in SUBSET Times /\ Cardinality(stored') <= StationLimit
    <3>1. stored' \in SUBSET stored /\ stored \in SUBSET Times /\ Cardinality(stored) <= StationLimit
      BY <1>3 DEF Prune, TypeOK
    <3>2. IsFiniteSet(Times) BY <1>t, FS_Interval DEF Times
    <3>3. IsFiniteSet(stored) BY <3>1, <3>2, FS_Subset
    <3>4. /\ Cardinality(stored') \in Nat /\ Cardinality(stored) \in Nat
          /\ Cardinality(stored') <= Cardinality(stored)
      BY <3>1, <3>3, FS_Subset, FS_CardinalityType
    <3> QED BY <3>1, <3>4, CollectionAssumption
  <2>2. cover' \in [0 .. MaxTime -> NoRow .. MaxTime]
    <3>1. PICK batch \in SUBSET old :
            cover' = [b \in 0 .. MaxTime |->
                        IF b \in batch THEN NoRow
                        ELSE IF b = cutoff /\ \E e \in {cover[x] : x \in batch} : e >= cutoff
                        THEN Max({cover[x] : x \in batch} \cup {cover[b]}) ELSE cover[b]]
      BY <1>3 DEF Prune
    <3>2. cover \in [0 .. MaxTime -> NoRow .. MaxTime] /\ batch \in SUBSET (0 .. MaxTime)
      BY DEF TypeOK
    <3>3. ASSUME NEW b \in 0 .. MaxTime
          PROVE  Max({cover[x] : x \in batch} \cup {cover[b]}) \in NoRow .. MaxTime
      <4> DEFINE T == {cover[x] : x \in batch} \cup {cover[b]}
      <4>1. T \in SUBSET (NoRow .. MaxTime) /\ T # {} BY <3>2
      <4>2. Max(T) \in T
        <5> HIDE DEF T
        <5> QED BY <1>t, <4>1, MaxOf
      <4> QED BY <4>1, <4>2
    <3>4. NoRow \in NoRow .. MaxTime BY <1>t DEF NoRow
    <3> QED BY <3>1, <3>2, <3>3, <3>4
  <2>3. [run[p] EXCEPT !.stage = "due"] \in Run BY <1>t DEF Run, Stages
  <2>4. run' = [run EXCEPT ![p] = [run[p] EXCEPT !.stage = "due"]] BY <1>3 DEF Prune, Stage
  <2> QED BY <1>3, <2>1, <2>2, <2>3, <2>4, RunTyped DEF Prune, TypeOK
<1>4. ASSUME NEW p \in Procs, ReadDue(p) PROVE TypeOK'
  <2>1. /\ run[p].start \in 0 .. MaxTime /\ checkpoint.through \in 0 .. MaxTime
        /\ Retention \in Nat /\ Window \in Nat
    BY <1>t, CollectionAssumption DEF Run, Checkpoint
  <2>2. Begin(p) \in 0 .. MaxTime BY <1>t, <2>1 DEF Begin, Larger
  <2>3. Smaller(run[p].start, Begin(p) + Window) \in 0 .. MaxTime BY <1>t, <2>1, <2>2 DEF Smaller
  <2>4. [IdleRun EXCEPT !.stage = "latest", !.begin = Begin(p),
                        !.end = Smaller(run[p].start, Begin(p) + Window)] \in Run
    BY <2>2, <2>3, IdleTyped DEF Run, Stages
  <2> QED BY <1>4, <2>4, IdleTyped, RunTyped DEF ReadDue, TypeOK
<1>5. ASSUME NEW p \in Procs, CollectLatest(p) PROVE TypeOK'
  <2>1. [run[p] EXCEPT !.stage = "saveLatest", !.page = FetchLatest] \in Run
    BY <1>t, FetchedLatest DEF Run, Stages
  <2> QED BY <1>5, <2>1, RunTyped DEF CollectLatest, TypeOK
<1>6. ASSUME NEW p \in Procs, SaveLatest(p) PROVE TypeOK'
  <2>1. run[p].page.readings \in SUBSET Times BY <1>t DEF Run, Page
  <2>2. [run[p] EXCEPT !.stage = "page", !.page = NoPage] \in Run
    BY <1>t, IdleTyped DEF Run, Stages
  <2>3. FinishedRun("storage_limit") \in Run BY IdleTyped DEF Outcomes
  <2>4. run' \in [Procs -> Run] BY <1>6, <2>2, <2>3, RunTyped DEF SaveLatest
  <2> QED BY <1>6, <2>1, <2>4, Stored DEF SaveLatest, TypeOK
<1>7. ASSUME NEW p \in Procs, CollectPage(p) PROVE TypeOK'
  <2>1. NextPage(run[p]) \in Page
    <3>1. run[p].begin \in 0 .. MaxTime /\ run[p].end \in 0 .. MaxTime BY <1>t DEF Run
    <3>2. UpstreamOK BY UpstreamTyped
    <3> QED BY <1>t, <3>1, <3>2, NextPageTold
  <2>2. [run[p] EXCEPT !.stage = "savePage", !.page = NextPage(run[p])] \in Run
    BY <1>t, <2>1 DEF Run, Stages
  <2> QED BY <1>7, <2>2, RunTyped DEF CollectPage, TypeOK
<1>8. ASSUME NEW p \in Procs, SavePage(p) PROVE TypeOK'
  <2>1. run[p] \in Run /\ run[p].page \in Page BY <1>t DEF Run
  <2>2. /\ run[p].page.readings \in SUBSET Times /\ run[p].page.last \in 0 .. MaxTime
        /\ run[p].begin \in 0 .. MaxTime /\ run[p].end \in 0 .. MaxTime
    BY <2>1 DEF Run, Page
  <2>3. CoveredTo(run[p].end, run[p].page) \in NoRow .. MaxTime
    BY <1>t, <2>2 DEF CoveredTo, NoRow
  <2>4. Watermark(run[p]) \in 0 .. MaxTime
    BY <1>t, <2>2 DEF Watermark, ResumeAt, Checkpoint
  <2>5. checkpoint' \in Checkpoint
    <3>1. "success" \in Outcomes /\ "storage_limit" \in Outcomes BY DEF Outcomes
    <3> QED BY <1>8, <2>4, <3>1 DEF SavePage, Checkpoint
  <2>6. run' \in [Procs -> Run] BY <1>8, <2>1, <2>2, AfterPageTyped, RunTyped DEF SavePage
  <2>7. cover' \in [0 .. MaxTime -> NoRow .. MaxTime]
    BY <1>8, <2>2, <2>3, CoverTyped DEF SavePage
  <2> QED BY <1>8, <2>2, <2>5, <2>6, <2>7, Stored DEF SavePage, TypeOK
<1>9. ASSUME NEW p \in Procs, SaveOutcome(p) PROVE TypeOK'
  <2>1. checkpoint' \in Checkpoint BY <1>t, <1>9 DEF SaveOutcome, Checkpoint, Run
  <2> QED BY <1>9, <2>1, IdleTyped, RunTyped DEF SaveOutcome, End, TypeOK
<1>10. ASSUME NEW p \in Procs, Rejected(p) PROVE TypeOK'
  BY <1>10, IdleTyped, RunTyped DEF Rejected, End, TypeOK
<1>11. ASSUME NEW p \in Procs, EndRun(p) PROVE TypeOK'
  BY <1>11, IdleTyped, RunTyped DEF EndRun, TypeOK
<1>12. ASSUME NEW p \in Procs, UpstreamFails(p) PROVE TypeOK'
  <2>1. "upstream_error" \in Outcomes BY DEF Outcomes
  <2>2. faults' \in 0 .. MaxFaults BY <1>t, <1>12 DEF UpstreamFails
  <2> QED BY <1>12, <2>1, <2>2, IdleTyped, RunTyped DEF UpstreamFails, TypeOK
<1>13. ASSUME NEW p \in Procs, StopRun(p) PROVE TypeOK'
  <2>1. faults' \in 0 .. MaxFaults BY <1>t, <1>13 DEF StopRun
  <2> QED BY <1>13, <2>1, IdleTyped, RunTyped DEF StopRun, End, TypeOK
<1>14. ASSUME NEW p \in Procs, Restart(p) PROVE TypeOK'
  <2>1. faults' \in 0 .. MaxFaults BY <1>t, <1>14 DEF Restart
  <2> QED BY <1>14, <2>1, IdleTyped, RunTyped DEF Restart, TypeOK
<1>15. CASE LeaseExpires
  <2>1. faults' \in 0 .. MaxFaults BY <1>t, <1>15 DEF LeaseExpires
  <2> QED BY <1>15, <2>1 DEF LeaseExpires, TypeOK
<1>16. CASE OrphanExpires BY <1>16 DEF OrphanExpires, TypeOK
<1>17. CASE BecomesDue
  <2>1. checkpoint' \in Checkpoint BY <1>t, <1>17 DEF BecomesDue, Checkpoint
  <2> QED BY <1>17, <2>1 DEF BecomesDue, TypeOK
<1>18. CASE Tick
  <2>1. now' \in 0 .. MaxTime BY <1>t, <1>18 DEF Tick
  <2> QED BY <1>18, <2>1 DEF Tick, TypeOK
<1>19. ASSUME NEW q \in Queries, ReadHistory(q) PROVE TypeOK'
  <2>1. q.begin \in 0 .. MaxTime /\ q.end \in 0 .. MaxTime /\ q.ascending \in BOOLEAN
    BY CollectionAssumption DEF Times
  <2>2. FetchPage(q.begin, q.end, q.ascending) \in Page BY <1>t, <2>1, FetchedPage, UpstreamTyped
  <2>3. request' \in Request BY <1>19, <2>1, <2>2 DEF ReadHistory, Request
  <2> QED BY <1>19, <2>3 DEF ReadHistory, TypeOK
<1>20. CASE ReadLatest
  <2>1. NoRequest \in Request BY <1>t, IdleTyped DEF NoRequest, Request
  <2>2. [NoRequest EXCEPT !.pending = TRUE, !.page = FetchLatest] \in Request
    BY <2>1, FetchedLatest DEF Request
  <2> QED BY <1>20, <2>2 DEF ReadLatest, TypeOK
<1>21. CASE SaveRequest
  <2>1. NoRequest \in Request BY <1>t, IdleTyped DEF NoRequest, Request
  <2>2. /\ request.page.readings \in SUBSET Times /\ request.begin \in 0 .. MaxTime
        /\ request.end \in NoRow .. MaxTime /\ request.ahead \in SUBSET Times
    BY <1>t DEF Request, Page, NoRow
  <2>3. CASE SourceActive
    <3>1. cover' \in [0 .. MaxTime -> NoRow .. MaxTime]
      BY <1>21, <2>2, <2>3, CoverTyped DEF SaveRequest
    <3>2. foreseen' \in SUBSET Times BY <1>21, <2>2, <2>3 DEF SaveRequest, TypeOK
    <3> QED BY <1>21, <2>1, <2>2, <2>3, <3>1, <3>2, Stored DEF SaveRequest, TypeOK
  <2>4. CASE ~SourceActive BY <1>21, <2>1, <2>4 DEF SaveRequest, TypeOK
  <2> QED BY <2>3, <2>4
<1>22. CASE RemoveSource BY <1>22 DEF RemoveSource, TypeOK
<1> QED
  BY <1>1, <1>2, <1>3, <1>4, <1>5, <1>6, <1>7, <1>8, <1>9, <1>10, <1>11, <1>12, <1>13, <1>14,
     <1>15, <1>16, <1>17, <1>18, <1>19, <1>20, <1>21, <1>22 DEF Next, CollectorStep

LEMMA InitTyped == ASSUME Init PROVE TypeOK
<1>1. /\ 0 \in 0 .. MaxTime /\ 0 \in 0 .. MaxFaults /\ NoRow \in NoRow .. MaxTime
      /\ StationLimit \in Nat
  BY CollectionAssumption DEF NoRow
<1>2. NoRequest \in Request BY <1>1, IdleTyped DEF NoRequest, Request
<1>3. checkpoint \in Checkpoint BY <1>1 DEF Init, Checkpoint
<1>4. Cardinality({}) <= StationLimit BY <1>1, FS_EmptySet
<1> QED BY <1>1, <1>2, <1>3, <1>4, IdleTyped DEF Init, TypeOK

-----------------------------------------------------------------------------
(* The inductive invariant.                                                *)

(* What a time needs that is called covered, and what a range that was     *)
(* passed by needs.                                                        *)
Covered(t) == \E b \in 0 .. MaxTime : cover[b] # NoRow /\ b <= t /\ t <= cover[b]
Sufficient(t) == Empty(t) \/ (Sound(t) /\ t \in stored)
StoredBefore(time) == \A t \in Times : t < time /\ Kept(t) /\ Sound(t) => t \in stored

Waiting == {"prune", "due"}
Traversing == {"latest", "saveLatest", "page", "savePage"}

(* A run asks for times that have come, behind which everything is stored  *)
(* already; the page it has fetched tells all that it will be taken for.   *)
RunTells(r) ==
    /\ r.stage \in Waiting => r.start <= now
    /\ r.stage \in Traversing => r.end <= now /\ StoredBefore(r.begin)
    /\ r.stage = "savePage" =>
         /\ \A t \in Times : r.begin <= t /\ t <= CoveredTo(r.end, r.page) => Tells(r.page, t)
         /\ r.page.full => r.begin <= r.page.last /\ r.page.last <= r.end

(* The same of the request of a user, but for the times still to come.     *)
RequestTells ==
    request.pending /\ request.history /\ ~request.page.full =>
        \A t \in Times : request.begin <= t /\ t <= request.end =>
            t \in request.ahead \/ Tells(request.page, t)

CoverTells == \A t \in Times : Covered(t) /\ Kept(t) => t \in foreseen \/ Sufficient(t)

(* Only the holder of the lease moves the watermark, and it began there.   *)
HolderLeads ==
    /\ checkpoint.through <= now
    /\ \A p \in Procs : lease = p =>
         /\ run[p].stage \in Waiting => checkpoint.through <= run[p].start
         /\ run[p].stage \in Traversing =>
              checkpoint.through <= run[p].begin /\ run[p].begin <= run[p].end

CollectionInv ==
    /\ TypeOK /\ RequestTells /\ CoverTells /\ HolderLeads
    /\ \A p \in Procs : RunTells(run[p])
    /\ StoredBefore(checkpoint.through)

-----------------------------------------------------------------------------
(* What every step leaves as it was: the upstream, and the readings that   *)
(* are kept; the clock goes on.                                            *)

LEMMA RowTyped ==
    ASSUME TypeOK, NEW p \in Procs
    PROVE  /\ run[p] \in Run /\ run[p].page \in Page /\ run[p].page.readings \in SUBSET Times
           /\ run[p].start \in 0 .. MaxTime /\ run[p].begin \in 0 .. MaxTime
           /\ run[p].end \in 0 .. MaxTime /\ run[p].page.last \in 0 .. MaxTime
           /\ now \in 0 .. MaxTime /\ checkpoint.through \in 0 .. MaxTime
           /\ MaxTime \in Nat /\ Retention \in Nat
BY CollectionAssumption DEF TypeOK, Run, Page, Checkpoint

LEMMA PagesTyped ==
    ASSUME TypeOK PROVE request.page.readings \in SUBSET Times
BY DEF TypeOK, Request, Page

LEMMA Steady ==
    ASSUME CollectionInv, [Next]_vars
    PROVE  /\ upstream' = upstream /\ now <= now' /\ now \in 0 .. MaxTime /\ now' \in 0 .. MaxTime
           /\ MaxTime \in Nat /\ Retention \in Nat
           /\ \A t \in stored : Kept(t)' => t \in stored'
<1>1. TypeOK /\ TypeOK' BY NextTyped DEF CollectionInv
<1>2. /\ now \in 0 .. MaxTime /\ now' \in 0 .. MaxTime /\ MaxTime \in Nat /\ Retention \in Nat
  BY <1>1, CollectionAssumption DEF TypeOK
<1>3. upstream' = upstream /\ (now' = now \/ now' = now + 1)
  BY DEF Next, vars, rows, CollectorStep, StartRun, Prune, ReadDue, CollectLatest, SaveLatest,
         CollectPage, SavePage, SaveOutcome, Rejected, EndRun, UpstreamFails, StopRun, Restart,
         LeaseExpires, OrphanExpires, BecomesDue, Tick, ReadHistory, ReadLatest, SaveRequest,
         RemoveSource
<1>4. ASSUME NEW p \in Procs, Prune(p), NEW t \in stored, Kept(t)' PROVE t \in stored'
  <2>1. run[p].start <= now BY <1>4 DEF CollectionInv, RunTells, Waiting, Prune
  <2>2. t \in Times BY <1>1 DEF TypeOK
  <2>3. now - Retention <= t BY <1>4 DEF Kept, Prune
  <2>4. ~(t < run[p].start - Retention)
    BY <1>1, <1>2, <2>1, <2>2, <2>3, RowTyped DEF Times
  <2>5. t \notin Pruned(run[p].start - Retention) BY <2>4 DEF Pruned
  <2> QED BY <1>4, <2>5 DEF Prune
<1>5. ASSUME NEW p \in Procs, SaveLatest(p) \/ SavePage(p) PROVE stored \subseteq stored'
  BY <1>1, <1>5, RowTyped, Stored DEF SaveLatest, SavePage
<1>6. ASSUME SaveRequest PROVE stored \subseteq stored'
  BY <1>1, <1>6, PagesTyped, Stored DEF SaveRequest, rows
<1>7. \/ stored' = stored \/ SaveRequest
      \/ \E p \in Procs : Prune(p) \/ SaveLatest(p) \/ SavePage(p)
  BY DEF Next, vars, rows, CollectorStep, StartRun, ReadDue, CollectLatest,
         CollectPage, SaveOutcome, Rejected, EndRun, UpstreamFails, StopRun, Restart,
         LeaseExpires, OrphanExpires, BecomesDue, Tick, ReadHistory, ReadLatest, RemoveSource
<1> QED BY <1>2, <1>3, <1>4, <1>5, <1>6, <1>7

LEMMA UpstreamStays ==
    ASSUME upstream' = upstream
    PROVE  /\ \A t \in Times : (Sound(t) <=> Sound(t)') /\ (Empty(t) <=> Empty(t)')
           /\ \A t \in Times, page \in Page : Tells(page, t) <=> Tells(page, t)'
<1>1. \A t \in Times : (Sound(t) <=> Sound(t)') /\ (Empty(t) <=> Empty(t)')
  BY DEF Sound, Empty, Recorded
<1> QED BY <1>1, Zenon DEF Tells

LEMMA KeptStays ==
    ASSUME now <= now', now \in 0 .. MaxTime, now' \in 0 .. MaxTime, Retention \in Nat,
           MaxTime \in Nat, NEW t \in Times, Kept(t)'
    PROVE  Kept(t)
<1>1. now' - Retention <= t BY DEF Kept
<1>2. now \in Nat /\ now' \in Nat /\ t \in Nat BY DEF Times
<1>3. \A m \in Nat, n \in Nat : m <= n /\ n - Retention <= t => m - Retention <= t BY <1>2
<1>4. now - Retention <= t BY <1>1, <1>2, <1>3
<1> QED BY <1>4 DEF Kept

LEMMA StoredBeforeStays ==
    ASSUME CollectionInv, [Next]_vars
    PROVE  \A time \in 0 .. MaxTime : StoredBefore(time) => StoredBefore(time)'
<1>1. ASSUME NEW time \in 0 .. MaxTime, StoredBefore(time),
             NEW t \in Times, t < time, Kept(t)', Sound(t)'
      PROVE  t \in stored'
  <2>1. Kept(t) BY <1>1, Steady, KeptStays
  <2>2. Sound(t) BY <1>1, Steady, UpstreamStays
  <2> QED BY <1>1, <2>1, <2>2, Steady DEF StoredBefore
<1> QED BY <1>1 DEF StoredBefore

LEMMA RunTellsStays ==
    ASSUME CollectionInv, [Next]_vars, NEW p \in Procs, run'[p] = run[p]
    PROVE  RunTells(run[p])'
<1>1. /\ run[p] \in Run /\ run[p].page \in Page /\ run[p].begin \in 0 .. MaxTime
      /\ run[p].end \in 0 .. MaxTime /\ run[p].start \in 0 .. MaxTime
  BY RowTyped DEF CollectionInv
<1>2. RunTells(run[p]) BY DEF CollectionInv
<1>3. run[p].stage \in Waiting => run[p].start <= now' BY <1>1, <1>2, Steady DEF RunTells
<1>4. run[p].stage \in Traversing => run[p].end <= now' BY <1>1, <1>2, Steady DEF RunTells
<1>5. ASSUME run[p].stage \in Traversing PROVE StoredBefore(run[p].begin)'
  <2>1. StoredBefore(run[p].begin) BY <1>2, <1>5 DEF RunTells
  <2> QED BY <1>1, <2>1, StoredBeforeStays DEF StoredBefore
<1>6. ASSUME run[p].stage = "savePage", NEW t \in Times,
             run[p].begin <= t, t <= CoveredTo(run[p].end, run[p].page)
      PROVE  Tells(run[p].page, t)'
  <2>1. Tells(run[p].page, t) BY <1>2, <1>6 DEF RunTells
  <2> QED BY <1>1, <2>1, Steady, UpstreamStays DEF Tells
<1>7. run[p].stage = "savePage" /\ run[p].page.full =>
        run[p].begin <= run[p].page.last /\ run[p].page.last <= run[p].end
  BY <1>2 DEF RunTells
<1> QED BY <1>3, <1>4, <1>5, <1>6, <1>7 DEF RunTells, CoveredTo

(* A run that is over says nothing.                                        *)
Over == Stages \ (Waiting \cup Traversing)

LEMMA OverTells ==
    ASSUME NEW p \in Procs, run'[p].stage \in Over PROVE RunTells(run[p])'
BY DEF RunTells, Over, Waiting, Traversing

LEMMA OverStages ==
    /\ IdleRun.stage \in Over /\ EndedRun.stage \in Over
    /\ \A outcome \in Outcomes : FinishedRun(outcome).stage \in Over
BY DEF IdleRun, EndedRun, FinishedRun, Over, Stages, Waiting, Traversing

-----------------------------------------------------------------------------
(* A page is stored.                                                       *)

LEMMA LimitsTyped ==
    ASSUME TypeOK, NEW p \in Procs
    PROVE  /\ ResumeAt(run[p].end, run[p].page) \in 0 .. MaxTime
           /\ CoveredTo(run[p].end, run[p].page) \in NoRow .. MaxTime
BY RowTyped DEF ResumeAt, CoveredTo, NoRow

(* Of what a page covers, everything sound is stored with it.              *)
LEMMA PageIsStored ==
    ASSUME CollectionInv, [Next]_vars, NEW p \in Procs, SavePage(p),
           CanInsert(run[p].page.readings),
           NEW time \in 0 .. MaxTime, time = ResumeAt(run[p].end, run[p].page)
    PROVE  StoredBefore(time)'
<1>1. /\ run[p].begin \in 0 .. MaxTime /\ run[p].end \in 0 .. MaxTime
      /\ run[p].page.last \in 0 .. MaxTime
  BY RowTyped DEF CollectionInv
<1>2. RunTells(run[p]) /\ run[p].stage = "savePage" BY DEF CollectionInv, SavePage
<1>3. /\ \A t \in Times : run[p].begin <= t /\ t <= CoveredTo(run[p].end, run[p].page)
                           => Tells(run[p].page, t)
      /\ StoredBefore(run[p].begin)
  BY <1>2 DEF RunTells, Traversing
<1>4. stored' = stored \cup run[p].page.readings BY DEF SavePage, StoreReadings
<1>5. ASSUME NEW t \in Times, t < time, Kept(t)', Sound(t)' PROVE t \in stored'
  <2>1. Sound(t) /\ Kept(t) BY <1>5, Steady, UpstreamStays, KeptStays
  <2>2. CASE t < run[p].begin BY <1>3, <1>4, <2>1, <2>2 DEF StoredBefore
  <2>3. CASE run[p].begin <= t
    <3>1. t <= CoveredTo(run[p].end, run[p].page)
      BY <1>1, <1>5 DEF ResumeAt, CoveredTo, Times
    <3>2. Tells(run[p].page, t) BY <1>3, <2>3, <3>1
    <3> QED BY <1>4, <2>1, <3>2 DEF Tells
  <2> QED BY <1>1, <2>2, <2>3 DEF Times
<1> QED BY <1>5 DEF StoredBefore

(* Where the watermark goes, and where the next page begins, everything is *)
(* stored.                                                                 *)
LEMMA WatermarkStays ==
    ASSUME CollectionInv, [Next]_vars PROVE StoredBefore(checkpoint.through)'
<1>1. checkpoint.through \in 0 .. MaxTime /\ StoredBefore(checkpoint.through)
  BY DEF CollectionInv, TypeOK, Checkpoint
<1>2. checkpoint'.through = checkpoint.through => StoredBefore(checkpoint.through)'
  BY <1>1, StoredBeforeStays DEF StoredBefore
<1>3. ASSUME NEW p \in Procs, SavePage(p) PROVE StoredBefore(checkpoint.through)'
  <2>1. checkpoint'.through = Watermark(run[p]) BY <1>3 DEF SavePage
  <2>2. CASE CanInsert(run[p].page.readings)
    <3>1. ResumeAt(run[p].end, run[p].page) \in 0 .. MaxTime BY LimitsTyped DEF CollectionInv
    <3>2. checkpoint'.through = ResumeAt(run[p].end, run[p].page)
      BY <2>1, <2>2 DEF Watermark
    <3>3. \A time \in 0 .. MaxTime : time = checkpoint'.through => StoredBefore(time)'
      BY <1>3, <2>2, <3>2, PageIsStored
    <3> QED BY <3>1, <3>2, <3>3 DEF StoredBefore
  <2>3. CASE ~CanInsert(run[p].page.readings)
    <3>1. checkpoint'.through = checkpoint.through BY <2>1, <2>3 DEF Watermark
    <3> QED BY <1>1, <1>2, <3>1
  <2> QED BY <2>2, <2>3
<1>4. checkpoint'.through = checkpoint.through \/ \E p \in Procs : SavePage(p)
  <2>1. checkpoint \in Checkpoint BY DEF CollectionInv, TypeOK
  <2> QED
    BY <2>1 DEF Checkpoint, Next, vars, rows, CollectorStep, StartRun, Prune, ReadDue,
       CollectLatest, SaveLatest, CollectPage, SaveOutcome, Rejected, EndRun, UpstreamFails,
       StopRun, Restart, LeaseExpires, OrphanExpires, BecomesDue, Tick, ReadHistory, ReadLatest,
       SaveRequest, RemoveSource
<1> QED BY <1>1, <1>2, <1>3, <1>4

(* A run that goes on with the same range, without a page of it.           *)
LEMMA PassedOn ==
    ASSUME CollectionInv, [Next]_vars, NEW p \in Procs,
           run[p].stage \in Traversing, run'[p].stage \in Traversing \ {"savePage"},
           run'[p].begin = run[p].begin, run'[p].end = run[p].end
    PROVE  RunTells(run[p])'
<1>1. run[p].end <= now /\ StoredBefore(run[p].begin)
  BY DEF CollectionInv, RunTells
<1>2. run[p].begin \in 0 .. MaxTime /\ run[p].end \in 0 .. MaxTime BY RowTyped DEF CollectionInv
<1>3. run'[p].end <= now' BY <1>1, <1>2, Steady
<1>4. \A time \in 0 .. MaxTime : time = run[p].begin => StoredBefore(time)'
  BY <1>1, StoredBeforeStays
<1>5. StoredBefore(run[p].begin)' BY <1>2, <1>4 DEF StoredBefore
<1> QED BY <1>3, <1>5 DEF RunTells, Waiting, Traversing

(* A step of one process leaves the runs of the others alone.              *)
LEMMA OwnStep ==
    ASSUME TypeOK, [Next]_vars, NEW p \in Procs, run'[p] # run[p]
    PROVE  StartRun(p) \/ CollectorStep(p) \/ UpstreamFails(p) \/ StopRun(p) \/ Restart(p)
<1>1. run \in [Procs -> Run] BY DEF TypeOK
<1>2. ASSUME NEW q \in Procs,
             StartRun(q) \/ CollectorStep(q) \/ UpstreamFails(q) \/ StopRun(q) \/ Restart(q)
      PROVE  q = p
  <2>1. \E r : run' = [run EXCEPT ![q] = r]
    BY <1>1, <1>2 DEF CollectorStep, StartRun, Prune, ReadDue, CollectLatest, SaveLatest, CollectPage,
         SavePage, SaveOutcome, Rejected, EndRun, UpstreamFails, StopRun, Restart, End, Stage
  <2> QED BY <1>1, <2>1
<1>3. run' = run \/ \E q \in Procs : \/ StartRun(q) \/ CollectorStep(q) \/ UpstreamFails(q)
                                   \/ StopRun(q) \/ Restart(q)
  BY DEF Next, vars, LeaseExpires, OrphanExpires, BecomesDue, Tick, ReadHistory, ReadLatest,
         SaveRequest, RemoveSource
<1> QED BY <1>2, <1>3

LEMMA RunsTell ==
    ASSUME CollectionInv, [Next]_vars, NEW p \in Procs
    PROVE  RunTells(run[p])'
<1>t. /\ TypeOK /\ TypeOK' /\ run \in [Procs -> Run]
      /\ run[p] \in Run /\ run[p].page \in Page /\ run[p].start \in 0 .. MaxTime
      /\ run[p].begin \in 0 .. MaxTime /\ run[p].end \in 0 .. MaxTime
      /\ run[p].page.last \in 0 .. MaxTime /\ checkpoint.through \in 0 .. MaxTime
  BY RowTyped, NextTyped DEF CollectionInv, TypeOK
<1>i. RunTells(run[p]) BY DEF CollectionInv
<1>n. /\ now \in 0 .. MaxTime /\ now' \in 0 .. MaxTime /\ now <= now' /\ MaxTime \in Nat
      /\ Retention \in Nat
  BY Steady
<1>1. CASE run'[p] = run[p] BY <1>1, RunTellsStays
<1>2. CASE StartRun(p)
  <2>1. run'[p] = [IdleRun EXCEPT !.stage = "prune", !.start = now] BY <1>2, <1>t DEF StartRun
  <2>2. run'[p].stage = "prune" /\ run'[p].start = now BY <2>1 DEF IdleRun
  <2> QED BY <1>n, <2>2 DEF RunTells, Waiting, Traversing
<1>3. CASE Prune(p)
  <2>1. run'[p] = [run[p] EXCEPT !.stage = "due"] /\ run[p].stage = "prune"
    BY <1>3, <1>t DEF Prune, Stage
  <2>2. run'[p].stage = "due" /\ run'[p].start = run[p].start BY <1>t, <2>1 DEF Run
  <2>3. run[p].start <= now BY <1>i, <2>1 DEF RunTells, Waiting
  <2> QED BY <1>n, <1>t, <2>2, <2>3 DEF RunTells, Waiting, Traversing
<1>4. CASE ReadDue(p)
  <2>1. CASE removed \/ ~checkpoint.due
    <3>1. run'[p] = EndedRun BY <1>4, <1>t, <2>1 DEF ReadDue
    <3> QED BY <3>1, OverTells, OverStages
  <2>2. CASE ~(removed \/ ~checkpoint.due)
    <3>1. run'[p] = [IdleRun EXCEPT !.stage = "latest", !.begin = Begin(p),
                                    !.end = Smaller(run[p].start, Begin(p) + Window)]
      BY <1>4, <1>t, <2>2 DEF ReadDue
    <3>2. /\ run'[p].stage = "latest" /\ run'[p].begin = Begin(p)
          /\ run'[p].end = Smaller(run[p].start, Begin(p) + Window)
      BY <3>1 DEF IdleRun
    <3>3. run[p].start <= now BY <1>4, <1>i DEF RunTells, Waiting, ReadDue
    <3>4. Begin(p) \in 0 .. MaxTime BY <1>t, <1>n DEF Begin, Larger
    <3>5. run'[p].end <= now'
      BY <1>t, <1>n, <3>2, <3>3, <3>4, CollectionAssumption DEF Smaller
    <3>6. \A time \in 0 .. MaxTime : time = Begin(p) => StoredBefore(time)'
      <4>1. ASSUME NEW t \in Times, t < Begin(p), Kept(t), Sound(t) PROVE t \in stored
        <5>1. ~(t < run[p].start - Retention) BY <1>t, <1>n, <3>3, <4>1 DEF Kept, Times
        <5>2. t < checkpoint.through BY <4>1, <5>1 DEF Begin, Larger
        <5> QED BY <4>1, <5>2 DEF CollectionInv, StoredBefore
      <4>2. \A time \in 0 .. MaxTime : time = Begin(p) => StoredBefore(time)
        BY <4>1 DEF StoredBefore
      <4> QED BY <4>2, StoredBeforeStays
    <3>7. StoredBefore(run[p].begin)' BY <3>2, <3>4, <3>6 DEF StoredBefore
    <3> QED BY <3>2, <3>5, <3>7 DEF RunTells, Waiting, Traversing
  <2> QED BY <2>1, <2>2
<1>5. CASE CollectLatest(p)
  <2>1. run'[p] = [run[p] EXCEPT !.stage = "saveLatest", !.page = FetchLatest]
        /\ run[p].stage = "latest"
    BY <1>5, <1>t DEF CollectLatest
  <2>2. /\ run'[p].stage = "saveLatest" /\ run'[p].begin = run[p].begin
        /\ run'[p].end = run[p].end
    BY <1>t, <2>1 DEF Run
  <2> QED BY <2>1, <2>2, PassedOn DEF Traversing
<1>6. CASE SaveLatest(p)
  <2>1. CASE CanInsert(run[p].page.readings)
    <3>1. run'[p] = [run[p] EXCEPT !.stage = "page", !.page = NoPage]
          /\ run[p].stage = "saveLatest"
      BY <1>6, <1>t, <2>1 DEF SaveLatest
    <3>2. /\ run'[p].stage = "page" /\ run'[p].begin = run[p].begin
          /\ run'[p].end = run[p].end
      BY <1>t, <3>1 DEF Run
    <3> QED BY <3>1, <3>2, PassedOn DEF Traversing
  <2>2. CASE ~CanInsert(run[p].page.readings)
    <3>1. run'[p] = FinishedRun("storage_limit") BY <1>6, <1>t, <2>2 DEF SaveLatest
    <3> QED BY <3>1, OverTells, OverStages DEF Outcomes
  <2> QED BY <2>1, <2>2
<1>7. CASE CollectPage(p)
  <2>1. run'[p] = [run[p] EXCEPT !.stage = "savePage", !.page = NextPage(run[p])]
        /\ run[p].stage = "page" /\ upstream' = upstream
    BY <1>7, <1>t DEF CollectPage
  <2>2. /\ run'[p].stage = "savePage" /\ run'[p].begin = run[p].begin
        /\ run'[p].end = run[p].end /\ run'[p].page = NextPage(run[p])
    BY <1>t, <2>1 DEF Run
  <2>3. run[p].end <= now /\ StoredBefore(run[p].begin)
    BY <1>i, <2>1 DEF RunTells, Traversing
  <2>4. StoredBefore(run[p].begin)'
    <3>1. \A time \in 0 .. MaxTime : time = run[p].begin => StoredBefore(time)'
      BY <2>3, StoredBeforeStays
    <3> QED BY <1>t, <2>2, <3>1 DEF StoredBefore
  <2>5. UpstreamOK BY <1>t, UpstreamTyped
  <2>6. /\ ~NextPage(run[p]).full =>
             \A t \in Times : run[p].begin <= t /\ t <= run[p].end /\ t <= now
                                => Tells(NextPage(run[p]), t)
        /\ NextPage(run[p]).full =>
             /\ run[p].begin <= NextPage(run[p]).last /\ NextPage(run[p]).last <= run[p].end
             /\ \A t \in Times : run[p].begin <= t /\ t < NextPage(run[p]).last
                                    => Tells(NextPage(run[p]), t)
        /\ NextPage(run[p]) \in Page
    BY <1>t, <1>n, <2>5, NextPageTold
  <2>7. ASSUME NEW t \in Times, run[p].begin <= t,
               t <= CoveredTo(run[p].end, NextPage(run[p]))
        PROVE  Tells(NextPage(run[p]), t)
    <3>1. CASE NextPage(run[p]).full
      <4>1. NextPage(run[p]).last \in 0 .. MaxTime BY <2>6 DEF Page
      <4>2. t < NextPage(run[p]).last BY <1>n, <2>7, <3>1, <4>1 DEF CoveredTo, Times
      <4> QED BY <2>6, <2>7, <3>1, <4>2
    <3>2. CASE ~NextPage(run[p]).full
      <4>1. t <= run[p].end BY <2>7, <3>2 DEF CoveredTo
      <4>2. t <= now BY <1>t, <1>n, <2>3, <4>1 DEF Times
      <4> QED BY <2>6, <2>7, <3>2, <4>1, <4>2
    <3> QED BY <3>1, <3>2
  <2>8. \A t \in Times : run'[p].begin <= t /\ t <= CoveredTo(run'[p].end, run'[p].page)
                         => Tells(run[p].page, t)'
    BY <2>1, <2>2, <2>6, <2>7, UpstreamStays DEF Tells
  <2>9. run'[p].end <= now' BY <1>t, <1>n, <2>2, <2>3
  <2> QED BY <2>2, <2>4, <2>6, <2>8, <2>9 DEF RunTells, Waiting, Traversing, CoveredTo
<1>8. CASE SavePage(p)
  <2>1. run'[p] = AfterPage(run[p]) BY <1>8, <1>t DEF SavePage
  <2>2. CASE AfterPage(run[p]).stage \in Over BY <2>1, <2>2, OverTells
  <2>3. CASE AfterPage(run[p]).stage \notin Over
    <3>1. /\ CanInsert(run[p].page.readings) /\ run[p].page.full
          /\ AfterPage(run[p]) = [run[p] EXCEPT !.stage = "page",
                 !.begin = ResumeAt(run[p].end, run[p].page),
                 !.pages = run[p].pages + 1, !.page = NoPage]
      BY <2>3, OverStages DEF AfterPage, Outcomes
    <3>2. /\ run'[p].stage = "page" /\ run'[p].begin = ResumeAt(run[p].end, run[p].page)
          /\ run'[p].end = run[p].end
      BY <1>t, <2>1, <3>1 DEF Run
    <3>3. run[p].stage = "savePage" BY <1>8 DEF SavePage
    <3>4. run'[p].end <= now' BY <1>i, <1>t, <1>n, <3>2, <3>3 DEF RunTells, Traversing
    <3>5. ResumeAt(run[p].end, run[p].page) \in 0 .. MaxTime BY <1>t, LimitsTyped
    <3>6. \A time \in 0 .. MaxTime : time = run'[p].begin => StoredBefore(time)'
      BY <1>8, <3>1, <3>2, PageIsStored
    <3>7. StoredBefore(run[p].begin)' BY <3>2, <3>5, <3>6 DEF StoredBefore
    <3> QED BY <3>2, <3>4, <3>7 DEF RunTells, Waiting, Traversing
  <2> QED BY <2>2, <2>3
<1>9. CASE \/ SaveOutcome(p) \/ Rejected(p) \/ EndRun(p)
           \/ UpstreamFails(p) \/ StopRun(p) \/ Restart(p)
  <2>1. run'[p] \in {EndedRun, IdleRun, FinishedRun("upstream_error")}
    BY <1>9, <1>t DEF SaveOutcome, Rejected, EndRun, UpstreamFails, StopRun, Restart, End
  <2>2. run'[p].stage \in Over BY <2>1, OverStages DEF Outcomes
  <2> QED BY <2>2, OverTells
<1> QED BY <1>1, <1>2, <1>3, <1>4, <1>5, <1>6, <1>7, <1>8, <1>9, <1>t, OwnStep DEF CollectorStep

-----------------------------------------------------------------------------
(* The request of a user, and the coverage.                                *)

LEMMA RequestTellsStays == ASSUME CollectionInv, [Next]_vars PROVE RequestTells'
<1>t. /\ TypeOK /\ request \in Request /\ request.page \in Page /\ now \in 0 .. MaxTime
      /\ upstream' = upstream
  BY Steady DEF CollectionInv, TypeOK, Request
<1>1. CASE request' = request
  <2>1. ASSUME request.pending, request.history, ~request.page.full,
               NEW t \in Times, request.begin <= t, t <= request.end, t \notin request.ahead
        PROVE  Tells(request.page, t)'
    <3>1. Tells(request.page, t) BY <2>1 DEF CollectionInv, RequestTells
    <3> QED BY <1>t, <1>1, <3>1, UpstreamStays DEF Tells
  <2> QED BY <1>1, <2>1 DEF RequestTells
<1>2. ASSUME NEW q \in Queries, ReadHistory(q) PROVE RequestTells'
  <2>1. q.begin \in 0 .. MaxTime /\ q.end \in 0 .. MaxTime /\ q.ascending \in BOOLEAN
    BY CollectionAssumption DEF Times
  <2> DEFINE page == FetchPage(q.begin, q.end, q.ascending)
             ahead == {t \in Times : now < t /\ t <= q.end}
  <2>2. /\ request' = [pending |-> TRUE, begin |-> q.begin, end |-> q.end, history |-> TRUE,
                       ahead |-> ahead, page |-> page]
    BY <1>2 DEF ReadHistory
  <2>3. page \in Page /\ (~page.full => \A t \in Times : q.begin <= t /\ t <= q.end /\ t <= now
                                                         => Tells(page, t))
    BY <1>t, <2>1, FetchedPage, UpstreamTyped
  <2>4. ASSUME ~page.full, NEW t \in Times, q.begin <= t, t <= q.end
        PROVE  t \in ahead \/ Tells(page, t)
    <3>1. t <= now \/ now < t BY <1>t DEF Times
    <3> HIDE DEF page
    <3> QED BY <2>3, <2>4, <3>1
  <2>5. request'.page = page /\ request'.begin = q.begin /\ request'.end = q.end
        /\ request'.ahead = ahead
    <3> HIDE DEF page, ahead
    <3> QED BY <2>2
  <2>6. ASSUME ~request'.page.full, NEW t \in Times, request'.begin <= t, t <= request'.end,
               t \notin request'.ahead
        PROVE  Tells(request.page, t)'
    <3> HIDE DEF page, ahead
    <3>1. Tells(page, t) BY <2>4, <2>5, <2>6
    <3> QED BY <1>t, <2>3, <2>5, <3>1, UpstreamStays DEF Tells
  <2> QED BY <2>6 DEF RequestTells
<1>3. CASE ReadLatest \/ SaveRequest
  <2>1. NoRequest.history = FALSE /\ NoRequest.pending = FALSE BY DEF NoRequest
  <2>2. \A page : [NoRequest EXCEPT !.pending = TRUE, !.page = page].history = FALSE
    BY DEF NoRequest
  <2>3. request'.history = FALSE BY <1>3, <2>1, <2>2 DEF ReadLatest, SaveRequest
  <2> QED BY <2>3 DEF RequestTells
<1>4. request' = request \/ ReadLatest \/ SaveRequest \/ \E q \in Queries : ReadHistory(q)
  BY DEF Next, vars, rows, CollectorStep, StartRun, Prune, ReadDue, CollectLatest, SaveLatest,
         CollectPage, SavePage, SaveOutcome, Rejected, EndRun, UpstreamFails, StopRun, Restart,
         LeaseExpires, OrphanExpires, BecomesDue, Tick, RemoveSource
<1> QED BY <1>1, <1>2, <1>3, <1>4

(* A time that is covered stays stored, or as it was.                      *)
LEMMA SufficientStays ==
    ASSUME CollectionInv, [Next]_vars, foreseen \subseteq foreseen',
           NEW t \in Times, Covered(t), Kept(t)'
    PROVE  t \in foreseen' \/ Sufficient(t)'
<1>1. Kept(t) BY Steady, KeptStays
<1>2. t \in foreseen \/ Sufficient(t) BY <1>1 DEF CollectionInv, CoverTells
<1>3. Sufficient(t) => Sufficient(t)'
  <2>1. /\ Empty(t) <=> Empty(t)'
        /\ Sound(t) <=> Sound(t)'
    BY Steady, UpstreamStays
  <2>2. t \in stored => t \in stored' BY Steady
  <2> QED BY <2>1, <2>2 DEF Sufficient
<1> QED BY <1>2, <1>3

LEMMA CoverageAdded ==
    ASSUME TypeOK, NEW readings, NEW begin \in 0 .. MaxTime, NEW end \in NoRow .. MaxTime,
           NEW proven \in BOOLEAN, StoreCoverage(readings, begin, end, proven),
           NEW t \in Times, Covered(t)'
    PROVE  \/ Covered(t)
           \/ proven /\ CanInsert(readings) /\ begin <= t /\ t <= end
<1>1. /\ cover \in [0 .. MaxTime -> NoRow .. MaxTime] /\ MaxTime \in Nat /\ t \in 1 .. MaxTime
  BY CollectionAssumption DEF TypeOK, Times
<1>2. PICK b \in 0 .. MaxTime : cover'[b] # NoRow /\ b <= t /\ t <= cover'[b]
  BY DEF Covered
<1>3. CASE cover'[b] = cover[b] BY <1>2, <1>3 DEF Covered
<1>4. CASE cover'[b] # cover[b]
  <2>1. /\ proven /\ CanInsert(readings) /\ cover' = [cover EXCEPT ![begin] = Larger(@, end)]
    BY <1>4 DEF StoreCoverage
  <2>2. b = begin /\ cover'[b] = end BY <1>1, <1>2, <1>4, <2>1 DEF Larger
  <2> QED BY <1>2, <2>1, <2>2
<1> QED BY <1>3, <1>4

LEMMA CoverageTells == ASSUME CollectionInv, [Next]_vars PROVE CoverTells'
<1>t. /\ TypeOK /\ MaxTime \in Nat /\ cover \in [0 .. MaxTime -> NoRow .. MaxTime]
      /\ upstream' = upstream
  BY Steady DEF CollectionInv, TypeOK
<1>1. CASE cover' = cover /\ foreseen' = foreseen
  <2>1. \A t \in Times : Covered(t)' => Covered(t) BY <1>1 DEF Covered
  <2> QED BY <1>1, <2>1, SufficientStays DEF CoverTells
<1>2. ASSUME NEW p \in Procs, SavePage(p) PROVE CoverTells'
  <2>1. /\ run[p].page \in Page /\ run[p].page.readings \in SUBSET Times
        /\ run[p].begin \in 0 .. MaxTime /\ run[p].end \in 0 .. MaxTime
    BY <1>t, RowTyped
  <2> DEFINE page == run[p].page
             proven == page.complete /\ ~Saturated(run[p].begin, page)
             end == CoveredTo(run[p].end, page)
  <2>2. /\ StoreCoverage(page.readings, run[p].begin, end, proven)
        /\ StoreReadings(page.readings) /\ run[p].stage = "savePage" /\ foreseen' = foreseen
    BY <1>2 DEF SavePage
  <2>3. end \in NoRow .. MaxTime BY <1>t, LimitsTyped
  <2>4. ASSUME NEW t \in Times, Covered(t)', Kept(t)' PROVE t \in foreseen' \/ Sufficient(t)'
    <3>1. CASE Covered(t) BY <2>2, <2>4, <3>1, SufficientStays
    <3>2. CASE ~Covered(t)
      <4>1. proven \in BOOLEAN OBVIOUS
      <4>2. proven /\ CanInsert(page.readings) /\ run[p].begin <= t /\ t <= end
        <5> HIDE DEF proven, end, page
        <5> QED BY <1>t, <2>1, <2>2, <2>3, <2>4, <3>2, <4>1, CoverageAdded
      <4>3. Tells(page, t) BY <2>2, <4>2 DEF CollectionInv, RunTells
      <4>4. Empty(t) \/ (Sound(t) /\ t \in page.readings) BY <4>2, <4>3 DEF Tells
      <4>5. stored' = stored \cup page.readings BY <2>2, <4>2 DEF StoreReadings
      <4>6. (Sound(t) <=> Sound(t)') /\ (Empty(t) <=> Empty(t)') BY <1>t, UpstreamStays
      <4> QED BY <4>4, <4>5, <4>6 DEF Sufficient
    <3> QED BY <3>1, <3>2
  <2> QED BY <2>4 DEF CoverTells
<1>3. CASE SaveRequest /\ SourceActive
  <2>1. /\ request.page \in Page /\ request.page.readings \in SUBSET Times
        /\ request.begin \in 0 .. MaxTime /\ request.end \in NoRow .. MaxTime
        /\ request.history \in BOOLEAN /\ request.page.complete \in BOOLEAN
        /\ request.page.full \in BOOLEAN
    BY <1>t DEF TypeOK, Request, Page, NoRow
  <2> DEFINE page == request.page
             proven == request.history /\ page.complete /\ ~page.full
  <2>2. /\ StoreCoverage(page.readings, request.begin, request.end, proven)
        /\ StoreReadings(page.readings) /\ request.pending
        /\ foreseen' = foreseen \cup (IF proven THEN request.ahead ELSE {})
    BY <1>3 DEF SaveRequest
  <2>4. ASSUME NEW t \in Times, Covered(t)', Kept(t)' PROVE t \in foreseen' \/ Sufficient(t)'
    <3>1. CASE Covered(t) BY <2>2, <2>4, <3>1, SufficientStays
    <3>2. CASE ~Covered(t)
      <4>1. proven \in BOOLEAN OBVIOUS
      <4>2. proven /\ CanInsert(page.readings) /\ request.begin <= t /\ t <= request.end
        <5> HIDE DEF proven, page
        <5> QED BY <1>t, <2>1, <2>2, <2>4, <3>2, <4>1, CoverageAdded
      <4>3. t \in request.ahead \/ Tells(page, t)
        BY <2>2, <4>2 DEF CollectionInv, RequestTells
      <4>4. Tells(page, t) => Empty(t) \/ (Sound(t) /\ t \in page.readings) BY <4>2 DEF Tells
      <4>5. stored' = stored \cup page.readings BY <2>2, <4>2 DEF StoreReadings
      <4>6. (Sound(t) <=> Sound(t)') /\ (Empty(t) <=> Empty(t)') BY <1>t, UpstreamStays
      <4>7. t \in request.ahead => t \in foreseen' BY <2>2, <4>2
      <4> QED BY <4>3, <4>4, <4>5, <4>6, <4>7 DEF Sufficient
    <3> QED BY <3>1, <3>2
  <2> QED BY <2>4 DEF CoverTells
<1>4. ASSUME NEW p \in Procs, Prune(p) PROVE CoverTells'
  <2> DEFINE cutoff == run[p].start - Retention
             old == {b \in 0 .. MaxTime : cover[b] # NoRow /\ b < cutoff}
  <2>1. PICK batch \in SUBSET old :
          cover' = [b \in 0 .. MaxTime |->
                      IF b \in batch THEN NoRow
                      ELSE IF b = cutoff /\ \E e \in {cover[x] : x \in batch} : e >= cutoff
                      THEN Max({cover[x] : x \in batch} \cup {cover[b]}) ELSE cover[b]]
    BY <1>4 DEF Prune
  <2>2. cutoff \in Int BY <1>t, RowTyped
  <2>3. ASSUME NEW t \in Times, Covered(t)' PROVE Covered(t)
    <3>1. PICK b \in 0 .. MaxTime : cover'[b] # NoRow /\ b <= t /\ t <= cover'[b]
      BY <2>3 DEF Covered
    <3>2. CASE cover'[b] = cover[b] BY <3>1, <3>2 DEF Covered
    <3>3. CASE cover'[b] # cover[b]
      <4> DEFINE T == {cover[x] : x \in batch} \cup {cover[b]}
      <4>1. b = cutoff /\ cover'[b] = Max(T) BY <2>1, <3>1, <3>3
      <4>2. T \in SUBSET (NoRow .. MaxTime) /\ T # {} BY <1>t
      <4>3. Max(T) \in T
        <5> HIDE DEF T
        <5> QED BY <1>t, <4>2, MaxOf
      <4>4. PICK x \in batch : cover'[b] = cover[x] BY <3>3, <4>1, <4>3
      <4>5. x \in 0 .. MaxTime /\ x < b /\ cover[x] # NoRow BY <2>1, <4>1, <4>4
      <4>6. x <= t BY <3>1, <4>5 DEF Times
      <4> QED BY <3>1, <4>4, <4>5, <4>6 DEF Covered
    <3> QED BY <3>2, <3>3
  <2>4. foreseen' = foreseen BY <1>4 DEF Prune
  <2> QED BY <2>3, <2>4, SufficientStays DEF CoverTells
<1>5. \/ cover' = cover /\ foreseen' = foreseen
      \/ SaveRequest /\ SourceActive
      \/ \E p \in Procs : SavePage(p) \/ Prune(p)
  BY ZenonT(60) DEF Next, vars, rows, CollectorStep, StartRun, ReadDue, CollectLatest, SaveLatest,
         CollectPage, SaveOutcome, Rejected, EndRun, UpstreamFails, StopRun, Restart,
         LeaseExpires, OrphanExpires, BecomesDue, Tick, ReadHistory, ReadLatest, SaveRequest,
         RemoveSource
<1> QED BY <1>1, <1>2, <1>3, <1>4, <1>5

-----------------------------------------------------------------------------
(* The holder of the lease.                                                *)

(* The watermark is moved by the holder alone, to where its page resumes.  *)
LEMMA WatermarkMoves ==
    ASSUME CollectionInv, [Next]_vars, checkpoint'.through # checkpoint.through
    PROVE  \E p \in Procs : /\ SavePage(p) /\ lease = p /\ lease' = p
                            /\ checkpoint'.through = ResumeAt(run[p].end, run[p].page)
<1>1. checkpoint \in Checkpoint BY DEF CollectionInv, TypeOK
<1>2. PICK p \in Procs : SavePage(p)
  BY <1>1 DEF Checkpoint, Next, vars, rows, CollectorStep, StartRun, Prune, ReadDue, CollectLatest,
         SaveLatest, CollectPage, SaveOutcome, Rejected, EndRun, UpstreamFails, StopRun, Restart,
         LeaseExpires, OrphanExpires, BecomesDue, Tick, ReadHistory, ReadLatest, SaveRequest,
         RemoveSource
<1>3. lease = p /\ lease' = p /\ checkpoint'.through = Watermark(run[p])
  BY <1>2 DEF SavePage, HoldsLease
<1>4. Watermark(run[p]) = ResumeAt(run[p].end, run[p].page) BY <1>3 DEF Watermark
<1> QED BY <1>2, <1>3, <1>4

(* A page that is saved resumes between where it was asked from and the    *)
(* end of its range, which has come.                                       *)
LEMMA ResumesInRange ==
    ASSUME CollectionInv, NEW p \in Procs, SavePage(p), lease = p
    PROVE  /\ checkpoint.through <= ResumeAt(run[p].end, run[p].page)
           /\ ResumeAt(run[p].end, run[p].page) <= run[p].end
           /\ run[p].end <= now
<1>1. /\ run[p].begin \in 0 .. MaxTime /\ run[p].end \in 0 .. MaxTime
      /\ run[p].page.last \in 0 .. MaxTime /\ checkpoint.through \in 0 .. MaxTime
      /\ now \in 0 .. MaxTime
  BY RowTyped DEF CollectionInv
<1>2. run[p].stage = "savePage" BY DEF SavePage
<1>3. /\ run[p].end <= now
      /\ run[p].page.full => run[p].begin <= run[p].page.last /\ run[p].page.last <= run[p].end
  BY <1>2 DEF CollectionInv, RunTells, Traversing
<1>4. checkpoint.through <= run[p].begin /\ run[p].begin <= run[p].end
  BY <1>2 DEF CollectionInv, HolderLeads, Traversing
<1> QED BY <1>1, <1>3, <1>4 DEF ResumeAt

LEMMA HolderStillLeads == ASSUME CollectionInv, [Next]_vars PROVE HolderLeads'
<1>t. /\ TypeOK /\ run \in [Procs -> Run] /\ checkpoint.through \in 0 .. MaxTime
      /\ now \in 0 .. MaxTime /\ now' \in 0 .. MaxTime /\ now <= now' /\ MaxTime \in Nat
      /\ checkpoint.through <= now
  BY Steady DEF CollectionInv, TypeOK, HolderLeads, Checkpoint
<1>1. checkpoint'.through <= now'
  <2>1. CASE checkpoint'.through = checkpoint.through BY <1>t, <2>1
  <2>2. CASE checkpoint'.through # checkpoint.through
    <3>1. PICK p \in Procs : /\ SavePage(p) /\ lease = p
                            /\ checkpoint'.through = ResumeAt(run[p].end, run[p].page)
      BY <2>2, WatermarkMoves
    <3>2. run[p].end \in 0 .. MaxTime /\ ResumeAt(run[p].end, run[p].page) \in 0 .. MaxTime
      BY <1>t, RowTyped, LimitsTyped
    <3> QED BY <1>t, <3>1, <3>2, ResumesInRange
  <2> QED BY <2>1, <2>2
<1>2. ASSUME NEW p \in Procs, lease' = p
      PROVE  /\ run'[p].stage \in Waiting => checkpoint'.through <= run'[p].start
             /\ run'[p].stage \in Traversing =>
                  checkpoint'.through <= run'[p].begin /\ run'[p].begin <= run'[p].end
  <2>t. /\ run[p] \in Run /\ run[p].start \in 0 .. MaxTime /\ run[p].begin \in 0 .. MaxTime
        /\ run[p].end \in 0 .. MaxTime
    BY <1>t, RowTyped
  <2>1. CASE StartRun(p)
    <3>1. run'[p] = [IdleRun EXCEPT !.stage = "prune", !.start = now]
          /\ checkpoint' = checkpoint
      BY <1>t, <2>1 DEF StartRun
    <3>2. run'[p].stage = "prune" /\ run'[p].start = now BY <3>1 DEF IdleRun
    <3> QED BY <1>t, <3>1, <3>2 DEF Waiting, Traversing
  <2>2. CASE lease # p
    <3>1. StartRun(p)
      BY <1>2, <2>2, CollectionAssumption DEF Next, vars, rows, CollectorStep, StartRun, Prune,
         ReadDue, CollectLatest, SaveLatest, CollectPage, SavePage, SaveOutcome, Rejected, EndRun,
         UpstreamFails, StopRun, Restart, LeaseExpires, OrphanExpires, BecomesDue, Tick,
         ReadHistory, ReadLatest, SaveRequest, RemoveSource
    <3> QED BY <2>1, <3>1
  <2>3. CASE lease = p
    <3>1. /\ run[p].stage \in Waiting => checkpoint.through <= run[p].start
          /\ run[p].stage \in Traversing =>
               checkpoint.through <= run[p].begin /\ run[p].begin <= run[p].end
      BY <2>3 DEF CollectionInv, HolderLeads
    <3>2. CASE SavePage(p)
      <4>1. run'[p] = AfterPage(run[p]) /\ checkpoint'.through = Watermark(run[p])
        BY <1>t, <3>2 DEF SavePage
      <4>2. CASE AfterPage(run[p]).stage \in Over
        BY <4>1, <4>2 DEF Over, Waiting, Traversing
      <4>3. CASE AfterPage(run[p]).stage \notin Over
        <5>1. /\ CanInsert(run[p].page.readings) /\ run[p].page.full
              /\ AfterPage(run[p]) = [run[p] EXCEPT !.stage = "page",
                     !.begin = ResumeAt(run[p].end, run[p].page),
                     !.pages = run[p].pages + 1, !.page = NoPage]
          BY <4>3, OverStages DEF AfterPage, Outcomes
        <5>2. /\ run'[p].stage = "page" /\ run'[p].begin = ResumeAt(run[p].end, run[p].page)
              /\ run'[p].end = run[p].end
          BY <2>t, <4>1, <5>1 DEF Run
        <5>3. checkpoint'.through = ResumeAt(run[p].end, run[p].page)
          BY <4>1, <5>1 DEF Watermark
        <5>4. ResumeAt(run[p].end, run[p].page) \in 0 .. MaxTime BY <1>t, LimitsTyped
        <5> QED BY <2>3, <3>2, <5>2, <5>3, <5>4, ResumesInRange DEF Waiting, Traversing
      <4> QED BY <4>2, <4>3
    <3>3. CASE ~SavePage(p)
      <4>1. checkpoint'.through = checkpoint.through
        BY <2>3, <3>3, WatermarkMoves
      <4>2. CASE run'[p] = run[p] BY <3>1, <4>1, <4>2
      <4>3. CASE Prune(p)
        <5>1. run'[p] = [run[p] EXCEPT !.stage = "due"] /\ run[p].stage = "prune"
          BY <4>3, <1>t DEF Prune, Stage
        <5>2. run'[p].stage = "due" /\ run'[p].start = run[p].start BY <2>t, <5>1 DEF Run
        <5> QED BY <3>1, <4>1, <5>1, <5>2 DEF Waiting, Traversing
      <4>4. CASE ReadDue(p)
        <5>1. CASE removed \/ ~checkpoint.due
          <6>1. run'[p] = EndedRun BY <1>t, <4>4, <5>1 DEF ReadDue
          <6> QED BY <6>1 DEF EndedRun, IdleRun, Waiting, Traversing
        <5>2. CASE ~(removed \/ ~checkpoint.due)
          <6>1. run'[p] = [IdleRun EXCEPT !.stage = "latest", !.begin = Begin(p),
                                          !.end = Smaller(run[p].start, Begin(p) + Window)]
            BY <1>t, <4>4, <5>2 DEF ReadDue
          <6>2. /\ run'[p].stage = "latest" /\ run'[p].begin = Begin(p)
                /\ run'[p].end = Smaller(run[p].start, Begin(p) + Window)
            BY <6>1 DEF IdleRun
          <6>3. checkpoint.through <= run[p].start BY <3>1, <4>4 DEF ReadDue, Waiting
          <6>4. Retention \in Nat /\ Window \in Nat BY CollectionAssumption
          <6>5. Begin(p) \in 0 .. MaxTime /\ checkpoint.through <= Begin(p) /\ Begin(p) <= run[p].start
            BY <1>t, <2>t, <6>3, <6>4 DEF Begin, Larger
          <6>6. Begin(p) <= Smaller(run[p].start, Begin(p) + Window)
            BY <2>t, <6>4, <6>5 DEF Smaller
          <6> QED BY <4>1, <6>2, <6>5, <6>6 DEF Waiting, Traversing
        <5> QED BY <5>1, <5>2
      <4>5. CASE \/ CollectLatest(p) \/ CollectPage(p)
                 \/ SaveLatest(p) /\ CanInsert(run[p].page.readings)
        <5>1. \E stage, page : run'[p] = [run[p] EXCEPT !.stage = stage, !.page = page]
          BY <1>t, <4>5 DEF CollectLatest, CollectPage, SaveLatest
        <5>2. /\ run'[p].begin = run[p].begin /\ run'[p].end = run[p].end
          BY <2>t, <5>1 DEF Run
        <5>3. run[p].stage \in Traversing
          BY <4>5 DEF CollectLatest, CollectPage, SaveLatest, Traversing
        <5>4. run'[p].stage \notin Waiting
          <6>1. \E stage \in {"saveLatest", "savePage", "page"} : \E page :
                  run'[p] = [run[p] EXCEPT !.stage = stage, !.page = page]
            BY <1>t, <4>5 DEF CollectLatest, CollectPage, SaveLatest
          <6> QED BY <2>t, <6>1 DEF Run, Waiting
        <5> QED BY <3>1, <4>1, <5>2, <5>3, <5>4
      <4>6. CASE \/ SaveLatest(p) /\ ~CanInsert(run[p].page.readings)
                 \/ SaveOutcome(p) \/ Rejected(p) \/ EndRun(p)
                 \/ UpstreamFails(p) \/ StopRun(p) \/ Restart(p)
        <5>1. run'[p] \in {EndedRun, IdleRun, FinishedRun("upstream_error"),
                           FinishedRun("storage_limit")}
          BY <4>6, <1>t
          DEF SaveLatest, SaveOutcome, Rejected, EndRun, UpstreamFails, StopRun, Restart, End
        <5> QED BY <5>1, OverStages DEF Outcomes, Over, Waiting, Traversing
      <4> QED
        BY <1>t, <2>1, <3>3, <4>2, <4>3, <4>4, <4>5, <4>6, OwnStep DEF CollectorStep
    <3> QED BY <3>2, <3>3
  <2> QED BY <2>2, <2>3
<1> QED BY <1>1, <1>2 DEF HolderLeads

-----------------------------------------------------------------------------
(* The theorems.                                                           *)

LEMMA InitCollection == ASSUME Init PROVE CollectionInv
<1>1. TypeOK /\ MaxTime \in Nat BY InitTyped, CollectionAssumption
<1>2. RequestTells BY DEF Init, NoRequest, RequestTells
<1>3. CoverTells BY DEF Init, CoverTells, Covered
<1>4. HolderLeads BY CollectionAssumption DEF Init, HolderLeads
<1>5. \A p \in Procs : RunTells(run[p])
  BY OverStages DEF Init, RunTells, Over, Waiting, Traversing
<1>6. StoredBefore(checkpoint.through) BY DEF Init, StoredBefore, Times
<1> QED BY <1>1, <1>2, <1>3, <1>4, <1>5, <1>6 DEF CollectionInv

LEMMA NextCollection == ASSUME CollectionInv, [Next]_vars PROVE CollectionInv'
<1>1. TypeOK' BY NextTyped DEF CollectionInv
<1>2. \A p \in Procs : RunTells(run[p])' BY RunsTell
<1> QED
  BY <1>1, <1>2, RequestTellsStays, CoverageTells, HolderStillLeads, WatermarkStays DEF CollectionInv

(* The state of the collectors, the stored readings and their coverage     *)
(* have the types that the code declares, and no more readings are stored  *)
(* than the limit of a station.                                            *)
THEOREM CollectionTypes == Spec => []TypeOK
<1>1. Init => CollectionInv BY InitCollection
<1>2. CollectionInv /\ [Next]_vars => CollectionInv' BY NextCollection
<1>3. CollectionInv => TypeOK BY DEF CollectionInv
<1> QED BY <1>1, <1>2, <1>3, PTL DEF Spec

(* Everything sound before the watermark of the collector is stored.       *)
THEOREM WatermarkStored == Spec => []WatermarkIsStored
<1>1. Init => CollectionInv BY InitCollection
<1>2. CollectionInv /\ [Next]_vars => CollectionInv' BY NextCollection
<1>3. CollectionInv => WatermarkIsStored
  BY DEF CollectionInv, StoredBefore, WatermarkIsStored
<1> QED BY <1>1, <1>2, <1>3, PTL DEF Spec

(* A range that is called complete consists of covered and kept times.     *)
LEMMA CompleteCovers ==
    ASSUME TypeOK, NEW begin \in Times, NEW end \in Times,
           HistoryCoverage(begin, end) = "complete", NEW t \in begin .. end
    PROVE  t \in Times /\ Covered(t) /\ Kept(t)
<1>t. /\ t \in Times /\ now \in 0 .. MaxTime /\ Retention \in Nat
      /\ cover \in [0 .. MaxTime -> NoRow .. MaxTime] /\ MaxTime \in Nat
  BY CollectionAssumption DEF TypeOK, Times
<1>1. t \in ProvenTimes(begin, end) BY DEF HistoryCoverage
<1>2. PICK row \in CoverageRows(begin, end) :
        t \in Larger(begin, row.begin) .. Smaller(end, row.end)
  BY <1>1 DEF ProvenTimes
<1>3. PICK b \in 0 .. MaxTime : /\ cover[b] # NoRow
                               /\ row = [begin |-> Larger(b, now - Retention), end |-> cover[b]]
  BY <1>2 DEF CoverageRows
<1>4. t >= Larger(begin, Larger(b, now - Retention)) /\ t <= Smaller(end, cover[b])
  BY <1>2, <1>3
<1>5. b <= t /\ now - Retention <= t /\ t <= cover[b]
  BY <1>t, <1>4 DEF Larger, Smaller, Times, NoRow
<1> QED BY <1>t, <1>3, <1>5 DEF Covered, Kept

(* Of a history that is called complete everything is stored that the      *)
(* upstream had.                                                           *)
THEOREM CoverageStored == Spec => []CoverageIsStored
<1>1. Init => CollectionInv BY InitCollection
<1>2. CollectionInv /\ [Next]_vars => CollectionInv' BY NextCollection
<1>3. CollectionInv => CoverageIsStored
  <2> SUFFICES ASSUME CollectionInv, NEW begin \in Times, NEW end \in Times,
                      begin <= end, HistoryCoverage(begin, end) = "complete",
                      NEW t \in (begin .. end) \ foreseen
               PROVE  Empty(t) \/ (Sound(t) /\ t \in stored)
    BY DEF CoverageIsStored
  <2>1. t \in Times /\ Covered(t) /\ Kept(t) BY CompleteCovers DEF CollectionInv
  <2> QED BY <2>1 DEF CollectionInv, CoverTells, Sufficient
<1> QED BY <1>1, <1>2, <1>3, PTL DEF Spec

(* The watermark never goes back: a process that lost its lease does not   *)
(* move it, whatever it had fetched.                                       *)
THEOREM WatermarkAdvances == Spec => WatermarkNeverGoesBack
<1>1. Init => CollectionInv BY InitCollection
<1>2. CollectionInv /\ [Next]_vars => CollectionInv' BY NextCollection
<1>3. ASSUME CollectionInv, [Next]_vars PROVE checkpoint'.through >= checkpoint.through
  <2>1. checkpoint.through \in 0 .. MaxTime BY <1>3 DEF CollectionInv, TypeOK, Checkpoint
  <2>2. CASE checkpoint'.through = checkpoint.through BY <2>1, <2>2
  <2>3. CASE checkpoint'.through # checkpoint.through
    <3>1. PICK p \in Procs : /\ SavePage(p) /\ lease = p
                            /\ checkpoint'.through = ResumeAt(run[p].end, run[p].page)
      BY <1>3, <2>3, WatermarkMoves
    <3>2. ResumeAt(run[p].end, run[p].page) \in 0 .. MaxTime
      BY <1>3, LimitsTyped DEF CollectionInv
    <3> QED BY <1>3, <2>1, <3>1, <3>2, ResumesInRange
  <2> QED BY <2>2, <2>3
<1>4. CollectionInv /\ [Next]_vars => [checkpoint'.through >= checkpoint.through]_vars
  BY <1>3
<1> QED BY <1>1, <1>2, <1>4, PTL DEF Spec, WatermarkNeverGoesBack

(* What was in flight when the source was removed is not stored.           *)
THEOREM RemovedStaysEmpty == Spec => NothingIsStoredAfterRemoval
<1>1. Init => TypeOK BY InitTyped
<1>2. TypeOK /\ [Next]_vars => TypeOK' BY NextTyped
<1>3. TypeOK /\ [Next]_vars => [removed => /\ stored' \subseteq stored /\ snapshot' = snapshot
                                          /\ checkpoint'.through = checkpoint.through]_vars
  <2> SUFFICES ASSUME TypeOK, Next, removed
               PROVE  /\ stored' \subseteq stored /\ snapshot' = snapshot
                      /\ checkpoint'.through = checkpoint.through
    OBVIOUS
  <2>1. checkpoint \in Checkpoint BY DEF TypeOK
  <2> QED
    BY <2>1 DEF Checkpoint, SourceActive, Next, rows, CollectorStep, StartRun, Prune, ReadDue,
       CollectLatest, SaveLatest, CollectPage, SavePage, SaveOutcome, Rejected, EndRun,
       UpstreamFails, StopRun, Restart, LeaseExpires, OrphanExpires, BecomesDue, Tick,
       ReadHistory, ReadLatest, SaveRequest, RemoveSource
<1> QED BY <1>1, <1>2, <1>3, PTL DEF Spec, NothingIsStoredAfterRemoval
=============================================================================
