--------------------------- MODULE ComponentsProofs ---------------------------
(***************************************************************************)
(* Proofs about what an evaluation and a preflight may claim (modules      *)
(* DeviceContract and NativeReceipt): the receipt agrees with the frames,  *)
(* judged by the definition of an acceptable run, for runs of any length;  *)
(* and the theorems of all components as theorems about Components.        *)
(***************************************************************************)
EXTENDS Components, AuthorityProofs, ServiceProofs, FunctionTheorems, TLAPS

------------------------------------------------------------------------------
(* Percentiles. *)

\* The largest of the values up to a limit has as many values at or below it as the limit.
LEMMA LargestWithin ==
  ASSUME NEW D, IsFiniteSet(D), NEW values \in [D -> Nat], NEW limit \in Nat,
         NEW k \in D, values[k] <= limit
  PROVE  \E m \in D : /\ values[m] <= limit
                      /\ {i \in D : values[i] <= values[m]} = {i \in D : values[i] <= limit}
<1> DEFINE S == {v \in Range(values) : v <= limit}
<1>1. Range(values) = {values[i] : i \in D}
  BY DEF Range
<1>2. S \in SUBSET (0 .. limit) /\ values[k] \in S
  BY <1>1
<1>3. PICK g \in S : \A v \in S : g >= v
  BY <1>2, GreatestNatural
<1>4. PICK m \in D : g = values[m]
  BY <1>1, <1>3
<1>5. \A i \in D : values[i] <= limit => values[i] \in S
  BY <1>1
<1>6. \A i \in D : values[i] <= values[m] <=> values[i] <= limit
  BY <1>2, <1>3, <1>4, <1>5
<1> QED
  BY <1>2, <1>3, <1>4, <1>6

\* The rank is within a limit exactly when at least this percentage of the values is.
LEMMA RankWithin ==
  ASSUME NEW D, IsFiniteSet(D), D # {}, NEW b \in Nat, NEW values \in [D -> 0 .. b],
         NEW p \in 1 .. 100, NEW limit \in Nat
  PROVE  /\ nearest_rank(values, p) \in 0 .. b
         /\ nearest_rank(values, p) <= limit <=> MostWithin(values, limit, p)
<1> DEFINE Places(v) == Cardinality({i \in D : values[i] <= v})
           n == Cardinality(D)
           place == (p * n + 99) \div 100
           Ranked == {v \in Range(values) : Places(v) >= place}
<1>1. DOMAIN values = D /\ Range(values) = {values[i] : i \in D} /\ values \in [D -> Nat]
  BY DEF Range
<1>2. nearest_rank(values, p) = Min(Ranked)
  BY <1>1 DEF nearest_rank
<1>3. n \in Nat /\ n >= 1
  BY FS_CardinalityType, FS_EmptySet
<1>4. p * n \in Nat /\ p * n >= 1 /\ p * n <= 100 * n
  <2>1. \A m \in Nat : m >= 1 => p * m \in Nat /\ p * m >= 1 /\ p * m <= 100 * m
    BY SMT
  <2> QED
    BY <1>3, <2>1
<1>5. place \in Nat /\ place >= 1 /\ \A c \in Nat : c >= place <=> 100 * c >= p * n
  <2>1. \A q \in Nat, c \in Nat : (q + 99) \div 100 \in Nat /\ (c >= (q + 99) \div 100 <=> 100 * c >= q)
                                  /\ (q >= 1 => (q + 99) \div 100 >= 1)
    OBVIOUS
  <2> QED
    BY <1>4, <2>1
<1>6. \A v : Places(v) \in Nat /\ Places(v) <= n
  <2> SUFFICES ASSUME NEW v PROVE Places(v) \in Nat /\ Places(v) <= n
    OBVIOUS
  <2>1. {i \in D : values[i] <= v} \in SUBSET D
    OBVIOUS
  <2> QED
    BY <1>3, <2>1, FS_Subset, FS_CardinalityType
<1>7. \A v, w \in Nat : v <= w => Places(v) <= Places(w)
  <2> SUFFICES ASSUME NEW v \in Nat, NEW w \in Nat, v <= w PROVE Places(v) <= Places(w)
    OBVIOUS
  <2>1. {i \in D : values[i] <= w} \in SUBSET D
    OBVIOUS
  <2>2. {i \in D : values[i] <= v} \in SUBSET {i \in D : values[i] <= w}
    BY <1>1
  <2> QED
    BY <2>1, <2>2, FS_Subset
<1>8. \A l \in Nat : Places(l) >= place => \E v \in Ranked : v <= l
  <2> SUFFICES ASSUME NEW l \in Nat, Places(l) >= place PROVE \E v \in Ranked : v <= l
    OBVIOUS
  <2>1. PICK k \in D : values[k] <= l
    <3>1. CASE {i \in D : values[i] <= l} = {}
      <4>1. Places(l) = 0
        BY <3>1, FS_EmptySet
      <4> QED
        BY <4>1, <1>5
    <3> QED
      BY <3>1
  <2>2. PICK m \in D : /\ values[m] <= l
                       /\ {i \in D : values[i] <= values[m]} = {i \in D : values[i] <= l}
    BY <1>1, <2>1, LargestWithin
  <2>3. values[m] \in Ranked
    BY <1>1, <2>2
  <2> QED
    BY <2>2, <2>3
<1>9. Places(b) = n
  <2>1. {i \in D : values[i] <= b} = D
    OBVIOUS
  <2> QED
    BY <2>1
<1>10. n >= place
  BY <1>3, <1>4, <1>5
<1>11. Ranked \in SUBSET Nat /\ Ranked # {} /\ Ranked \in SUBSET (0 .. b)
  <2>1. Ranked \in SUBSET Nat /\ Ranked \in SUBSET (0 .. b)
    BY <1>1
  <2>2. Places(b) >= place
    BY <1>9, <1>10
  <2>3. \E v \in Ranked : v <= b
    BY <1>8, <2>2
  <2> QED
    BY <2>1, <2>3
<1> HIDE DEF Ranked
<1>12. Min(Ranked) \in Ranked /\ \A v \in Ranked : Min(Ranked) <= v
  BY <1>11, LeastNatural DEF Min
<1>13. Min(Ranked) <= limit <=> Places(limit) >= place
  <2>1. ASSUME Min(Ranked) <= limit PROVE Places(limit) >= place
    <3>1. Places(Min(Ranked)) >= place /\ Min(Ranked) \in Nat
      BY <1>11, <1>12 DEF Ranked
    <3>2. Places(Min(Ranked)) <= Places(limit)
      BY <1>7, <2>1, <3>1
    <3>3. \A x, y, z \in Nat : x >= z /\ x <= y => y >= z
      OBVIOUS
    <3>4. Places(Min(Ranked)) \in Nat /\ Places(limit) \in Nat /\ place \in Nat
      BY <1>5, <1>6
    <3> HIDE DEF place, Places
    <3> QED
      BY <3>1, <3>2, <3>3, <3>4
  <2>2. ASSUME Places(limit) >= place PROVE Min(Ranked) <= limit
    <3>1. PICK v \in Ranked : v <= limit
      BY <1>8, <2>2
    <3>2. \A x, y \in Nat : x <= y /\ y <= limit => x <= limit
      OBVIOUS
    <3>3. Min(Ranked) \in Nat /\ v \in Nat /\ Min(Ranked) <= v
      BY <3>1, <1>11, <1>12
    <3> QED
      BY <3>1, <3>2, <3>3
  <2> QED
    BY <2>1, <2>2
<1>14. Places(limit) >= place <=> 100 * Places(limit) >= p * n
  BY <1>5, <1>6
<1>15. MostWithin(values, limit, p) <=> 100 * Places(limit) >= p * n
  BY <1>1 DEF MostWithin
<1> QED
  BY <1>2, <1>11, <1>12, <1>13, <1>14, <1>15

------------------------------------------------------------------------------
(* The evaluator: the run as it is recorded. *)

RecordedFrames ==
  {f \in [at : Nat, kind : {"PROCESSED", "DROPPED_EXPLICIT", "FAILED", "MALFORMED"}, done : Int, poor : BOOLEAN] :
     /\ f.kind = "PROCESSED" => f.done >= f.at
     /\ f.kind # "PROCESSED" => f.done = NoValue /\ ~ f.poor}
RecordedRun == [frames : Seq(RecordedFrames), end : Nat, disk : Disks, injected : Injected]

LEMMA FramesRecorded == Frames \subseteq RecordedFrames
<1>1. MaxTime \in Nat /\ MaxTime - 1 \in Nat /\ \A t \in 0 .. MaxTime - 2 : t \in Nat /\ t + 2 \in Nat
  BY ContractAssumption
<1> SUFFICES ASSUME NEW f \in Frames PROVE f \in RecordedFrames
  OBVIOUS
<1> DEFINE Framed(t, k, d, q) == [at |-> t, kind |-> k, done |-> d, poor |-> q]
<1>2. \A t \in Nat, d \in Nat, q \in BOOLEAN : d >= t => Framed(t, "PROCESSED", d, q) \in RecordedFrames
  BY DEF RecordedFrames
<1>3. \A t \in Nat, k \in {"DROPPED_EXPLICIT", "FAILED", "MALFORMED"} : Framed(t, k, -1, FALSE) \in RecordedFrames
  BY DEF RecordedFrames, NoValue
<1>4. \/ \E t \in 0 .. MaxTime : f = Framed(t, "PROCESSED", t, FALSE)
      \/ \E t \in 0 .. MaxTime - 2 : f = Framed(t, "PROCESSED", t + 2, FALSE)
      \/ \E t \in {1, MaxTime - 1} : f = Framed(t, "DROPPED_EXPLICIT", -1, FALSE)
      \/ f = Framed(MaxTime - 1, "PROCESSED", MaxTime - 1, TRUE)
      \/ f = Framed(MaxTime - 1, "FAILED", -1, FALSE)
      \/ f = Framed(MaxTime, "MALFORMED", -1, FALSE)
  BY DEF Frames, Frame, NoValue
<1> HIDE DEF Framed
<1>5. \A t \in Nat : Framed(t, "PROCESSED", t, FALSE) \in RecordedFrames /\ Framed(t, "PROCESSED", t, TRUE) \in RecordedFrames
                     /\ Framed(t, "PROCESSED", t + 2, FALSE) \in RecordedFrames
  <2>1. \A t \in Nat : t >= t /\ t + 2 \in Nat /\ t + 2 >= t
    OBVIOUS
  <2>2. TRUE \in BOOLEAN /\ FALSE \in BOOLEAN
    OBVIOUS
  <2> QED
    BY <1>2, <2>1, <2>2
<1>6. /\ \A t \in 0 .. MaxTime : t \in Nat
      /\ \A t \in {1, MaxTime - 1} : t \in Nat
  BY <1>1
<1> QED
  BY <1>1, <1>3, <1>4, <1>5, <1>6

LEMMA DiskShape ==
  ASSUME NEW d \in Disks
  PROVE  /\ d.free \in Nat /\ d.count \in Nat /\ d.rate \in Nat
         /\ d.samples \in [1 .. 2 -> 0 .. 3] /\ d.samples[1] \in 0 .. 3 /\ d.samples[2] \in 0 .. 3
         /\ d.stages \in [Stages -> {"SUCCEEDED", "FAILED", "NOT_ATTEMPTED"}]
<1>1. /\ GoodDisk = [free |-> 2 * Duration, count |-> Warmup + Duration, rate |-> 1, samples |-> <<2, 3>>,
                     stages |-> Succeeded]
      /\ 2 * Duration \in Nat /\ 2 * Duration - 1 \in Nat /\ Warmup + Duration \in Nat /\ Warmup + Duration + 1 \in Nat
  BY ContractAssumption DEF GoodDisk
<1>2. Succeeded \in [Stages -> {"SUCCEEDED", "FAILED", "NOT_ATTEMPTED"}]
  BY DEF Succeeded
<1>3. \A s \in Stages, x \in {"FAILED", "NOT_ATTEMPTED"} :
        [Succeeded EXCEPT ![s] = x] \in [Stages -> {"SUCCEEDED", "FAILED", "NOT_ATTEMPTED"}]
  BY <1>2
<1>4. <<2, 3>> \in [1 .. 2 -> 0 .. 3] /\ <<3, 1>> \in [1 .. 2 -> 0 .. 3]
  OBVIOUS
<1>5. CASE d \in {GoodDisk, [GoodDisk EXCEPT !.free = @ - 1], [GoodDisk EXCEPT !.rate = 0],
                  [GoodDisk EXCEPT !.count = @ + 1], [GoodDisk EXCEPT !.samples = <<3, 1>>]}
  BY <1>1, <1>2, <1>4, <1>5
<1>6. CASE \E s \in Stages, x \in {"FAILED", "NOT_ATTEMPTED"} : d = [GoodDisk EXCEPT !.stages[s] = x]
  <2>1. PICK s \in Stages, x \in {"FAILED", "NOT_ATTEMPTED"} : d = [GoodDisk EXCEPT !.stages[s] = x]
    BY <1>6
  <2>2. d.stages = [Succeeded EXCEPT ![s] = x] /\ d.free = 2 * Duration /\ d.count = Warmup + Duration
        /\ d.rate = 1 /\ d.samples = <<2, 3>>
    BY <1>1, <2>1
  <2> QED
    BY <1>1, <1>3, <1>4, <2>2
<1> QED
  BY <1>5, <1>6 DEF Disks, Stages

\* A run whose frames are captured and completed in order and in time.
InTime(r) ==
  /\ \A i \in 1 .. Len(r.frames) : /\ r.frames[i].kind # "MALFORMED" /\ r.frames[i].at <= r.end
                                   /\ r.frames[i].kind = "PROCESSED" => r.frames[i].done <= r.end
  /\ \A i \in 1 .. Len(r.frames) - 1 : r.frames[i + 1].at - r.frames[i].at \in 1 .. Stall - 1
  /\ \A i, j \in 1 .. Len(r.frames) :
       i < j /\ r.frames[i].kind = "PROCESSED" /\ r.frames[j].kind = "PROCESSED" => r.frames[i].done < r.frames[j].done

LEMMA RecordedFacts ==
  ASSUME NEW r \in RecordedRun
  PROVE  /\ Len(r.frames) \in Nat /\ DOMAIN r.frames = 1 .. Len(r.frames) /\ r.end \in Nat
         /\ \A i \in 1 .. Len(r.frames) :
              /\ r.frames[i] \in RecordedFrames /\ r.frames[i].at \in Nat /\ r.frames[i].done \in Int
              /\ r.frames[i].kind \in {"PROCESSED", "DROPPED_EXPLICIT", "FAILED", "MALFORMED"}
              /\ r.frames[i].poor \in BOOLEAN
              /\ r.frames[i].kind = "PROCESSED" => r.frames[i].done >= r.frames[i].at
              /\ r.frames[i].kind # "PROCESSED" => r.frames[i].done = NoValue /\ ~ r.frames[i].poor
<1>1. r.frames \in Seq(RecordedFrames) /\ r.end \in Nat
  BY DEF RecordedRun
<1> QED
  BY <1>1 DEF RecordedFrames

LEMMA ValidatedAll ==
  ASSUME NEW r \in RecordedRun
  PROVE  validate_observations(r) = "OK" <=> \A i \in 1 .. Len(r.frames) : validate_frame(r, i) = "OK"
<1> DEFINE bad == {i \in 1 .. Len(r.frames) : validate_frame(r, i) # "OK"}
<1>1. bad \in SUBSET Nat
  BY RecordedFacts
<1>2. ASSUME bad # {} PROVE (CHOOSE i \in bad : \A j \in bad : i <= j) \in bad
  BY <1>1, <1>2, LeastNatural
<1> QED
  BY <1>2 DEF validate_observations

\* The nearest processed frame before a place.
LEMMA LastProcessed ==
  ASSUME NEW r \in RecordedRun, NEW i \in 1 .. Len(r.frames),
         {j \in 1 .. i - 1 : r.frames[j].kind = "PROCESSED"} # {}
  PROVE  LET before == {j \in 1 .. i - 1 : r.frames[j].kind = "PROCESSED"}
             last == CHOOSE j \in before : \A k \in before : k <= j
         IN last \in before /\ \A k \in before : k <= last
<1> DEFINE before == {j \in 1 .. i - 1 : r.frames[j].kind = "PROCESSED"}
<1>1. i \in Nat /\ before \in SUBSET (0 .. i)
  BY RecordedFacts
<1>2. \E j \in before : \A k \in before : j >= k
  BY <1>1, GreatestNatural
<1>3. \A j, k \in before : j >= k <=> k <= j
  BY <1>1
<1> QED
  BY <1>2, <1>3

LEMMA ValidatedInTime ==
  ASSUME NEW r \in RecordedRun, \A i \in 1 .. Len(r.frames) : validate_frame(r, i) = "OK"
  PROVE  InTime(r)
<1> DEFINE n == Len(r.frames)
           P(i) == r.frames[i].kind = "PROCESSED"
           bef(i) == {j \in 1 .. i - 1 : r.frames[j].kind = "PROCESSED"}
           lst(i) == CHOOSE j \in bef(i) : \A k \in bef(i) : k <= j
<1>0. Stall \in Nat
  BY ContractAssumption
<1>1. \A i \in 1 .. n : r.frames[i].kind # "MALFORMED" /\ r.frames[i].at <= r.end /\ (P(i) => r.frames[i].done <= r.end)
  <2> SUFFICES ASSUME NEW i \in 1 .. n
               PROVE  r.frames[i].kind # "MALFORMED" /\ r.frames[i].at <= r.end /\ (P(i) => r.frames[i].done <= r.end)
    OBVIOUS
  <2>1. validate_frame(r, i) = "OK"
    OBVIOUS
  <2>2. r.frames[i].kind # "MALFORMED" /\ ~ (r.frames[i].at > r.end) /\ ~ (P(i) /\ r.frames[i].done > r.end)
    BY <2>1 DEF validate_frame
  <2> QED
    BY <2>2, RecordedFacts
<1>2. \A i \in 1 .. n - 1 : r.frames[i + 1].at - r.frames[i].at \in 1 .. Stall - 1
  <2> SUFFICES ASSUME NEW i \in 1 .. n - 1 PROVE r.frames[i + 1].at - r.frames[i].at \in 1 .. Stall - 1
    OBVIOUS
  <2>1. i + 1 \in 1 .. n /\ i \in 1 .. n /\ i + 1 > 1 /\ (i + 1) - 1 = i
    BY RecordedFacts
  <2>2. r.frames[i + 1].at \in Nat /\ r.frames[i].at \in Nat
    BY <2>1, RecordedFacts
  <2>3. validate_frame(r, i + 1) = "OK"
    BY <2>1
  <2>4. /\ r.frames[i + 1].at # r.frames[i].at /\ ~ (r.frames[i + 1].at < r.frames[i].at)
        /\ ~ (r.frames[i + 1].at - r.frames[i].at >= Stall)
    BY <2>1, <2>3 DEF validate_frame
  <2> QED
    BY <2>2, <2>4, <1>0
<1>3. \A j \in 1 .. n : P(j) /\ bef(j) # {} =>
        lst(j) \in bef(j) /\ (\A k \in bef(j) : k <= lst(j)) /\ r.frames[lst(j)].done < r.frames[j].done
  <2> SUFFICES ASSUME NEW j \in 1 .. n, P(j), bef(j) # {}
               PROVE  lst(j) \in bef(j) /\ (\A k \in bef(j) : k <= lst(j)) /\ r.frames[lst(j)].done < r.frames[j].done
    OBVIOUS
  <2>1. lst(j) \in bef(j) /\ \A k \in bef(j) : k <= lst(j)
    BY LastProcessed
  <2>2. ~ (r.frames[j].done <= r.frames[lst(j)].done)
    BY DEF validate_frame
  <2>3. lst(j) \in 1 .. n
    BY <2>1, RecordedFacts
  <2>4. r.frames[j].done \in Int /\ r.frames[lst(j)].done \in Int
    BY <2>3, RecordedFacts
  <2> HIDE DEF lst
  <2> QED
    BY <2>1, <2>2, <2>4
<1>4. \A i, j \in 1 .. n : i < j /\ P(i) /\ P(j) => r.frames[i].done < r.frames[j].done
  <2> DEFINE T == {j \in 1 .. n : P(j) /\ \E i \in 1 .. n : i < j /\ P(i) /\ ~ (r.frames[i].done < r.frames[j].done)}
  <2> SUFFICES ASSUME T # {} PROVE FALSE
    OBVIOUS
  <2>1. T \in SUBSET Nat
    BY RecordedFacts
  <2>2. PICK j \in T : \A k \in T : j <= k
    BY <2>1, LeastNatural
  <2>3. PICK i \in 1 .. n : i < j /\ P(i) /\ ~ (r.frames[i].done < r.frames[j].done)
    BY <2>2
  <2>4. j \in 1 .. n /\ P(j) /\ i \in bef(j)
    BY <2>2, <2>3, RecordedFacts
  <2>5. PICK l \in bef(j) : (\A k \in bef(j) : k <= l) /\ r.frames[l].done < r.frames[j].done
    BY <1>3, <2>4
  <2>6. l \in 1 .. n /\ l < j /\ P(l) /\ i <= l
    BY <2>4, <2>5, RecordedFacts
  <2>7. r.frames[i].done \in Int /\ r.frames[l].done \in Int /\ r.frames[j].done \in Int
    BY <2>3, <2>4, <2>6, RecordedFacts
  <2>8. i # l
    BY <2>3, <2>5
  <2>9. ~ (r.frames[i].done < r.frames[l].done)
    BY <2>3, <2>5, <2>7
  <2>10. l \in T /\ j \in Nat /\ l \in Nat /\ i < l
    BY <2>1, <2>2, <2>3, <2>6, <2>8, <2>9, RecordedFacts
  <2> QED
    BY <2>2, <2>6, <2>10
<1> QED
  BY <1>1, <1>2, <1>4 DEF InTime

LEMMA InTimeValidated ==
  ASSUME NEW r \in RecordedRun, InTime(r), NEW i \in 1 .. Len(r.frames)
  PROVE  validate_frame(r, i) = "OK"
<1> DEFINE n == Len(r.frames)
           f == r.frames[i]
           before == {j \in 1 .. i - 1 : r.frames[j].kind = "PROCESSED"}
           last == IF before = {} THEN NoValue ELSE r.frames[CHOOSE j \in before : \A k \in before : k <= j].done
<1>1. f.kind # "MALFORMED" /\ ~ (f.at > r.end) /\ ~ (f.kind = "PROCESSED" /\ f.done > r.end)
  BY RecordedFacts DEF InTime
<1>2. ASSUME i > 1 PROVE ~ (f.at = r.frames[i - 1].at) /\ ~ (f.at < r.frames[i - 1].at) /\ ~ (f.at - r.frames[i - 1].at >= Stall)
  <2>1. i - 1 \in 1 .. n - 1 /\ (i - 1) + 1 = i /\ i - 1 \in 1 .. n
    BY <1>2, RecordedFacts
  <2>2. f.at - r.frames[i - 1].at \in 1 .. Stall - 1
    BY <2>1 DEF InTime
  <2>3. f.at \in Nat /\ r.frames[i - 1].at \in Nat /\ Stall \in Nat
    BY <2>1, RecordedFacts, ContractAssumption
  <2> QED
    BY <2>2, <2>3
<1>3. ~ (f.kind = "PROCESSED" /\ f.done <= last)
  <2> SUFFICES ASSUME f.kind = "PROCESSED" PROVE ~ (f.done <= last)
    OBVIOUS
  <2>1. f.done \in Int /\ f.done >= 0
    BY RecordedFacts
  <2>2. CASE before = {}
    BY <2>1, <2>2 DEF NoValue
  <2>3. CASE before # {}
    <3>1. PICK l \in before : last = r.frames[l].done
      BY <2>3, LastProcessed
    <3>2. l \in 1 .. n /\ l < i /\ r.frames[l].kind = "PROCESSED"
      BY <3>1, RecordedFacts
    <3>3. r.frames[l].done < f.done /\ r.frames[l].done \in Int
      BY <3>2, RecordedFacts DEF InTime
    <3> HIDE DEF last
    <3> QED
      BY <2>1, <3>1, <3>3
  <2> QED
    BY <2>2, <2>3
<1> QED
  BY <1>1, <1>2, <1>3 DEF validate_frame

LEMMA ValidatedIffInTime ==
  ASSUME NEW r \in RecordedRun
  PROVE  validate_observations(r) = "OK" <=> InTime(r)
BY ValidatedAll, ValidatedInTime, InTimeValidated

------------------------------------------------------------------------------
(* The evaluator: what is measured of a run in time. *)

LEMMA CapturedInOrder ==
  ASSUME NEW r \in RecordedRun, InTime(r)
  PROVE  \A i, j \in 1 .. Len(r.frames) : i < j => r.frames[i].at < r.frames[j].at
<1> DEFINE n == Len(r.frames)
           T == {j \in 1 .. n : \E i \in 1 .. n : i < j /\ ~ (r.frames[i].at < r.frames[j].at)}
<1> SUFFICES ASSUME T # {} PROVE FALSE
  OBVIOUS
<1>1. T \in SUBSET Nat /\ n \in Nat
  BY RecordedFacts
<1>2. PICK j \in T : \A k \in T : j <= k
  BY <1>1, LeastNatural
<1>3. PICK i \in 1 .. n : i < j /\ ~ (r.frames[i].at < r.frames[j].at)
  BY <1>2
<1>4. j \in 1 .. n /\ j - 1 \in 1 .. n - 1 /\ j - 1 \in 1 .. n /\ (j - 1) + 1 = j /\ i <= j - 1
  BY <1>1, <1>2, <1>3
<1>5. r.frames[j].at - r.frames[j - 1].at \in 1 .. Stall - 1
  BY <1>4 DEF InTime
<1>6. r.frames[j].at \in Nat /\ r.frames[j - 1].at \in Nat /\ r.frames[i].at \in Nat /\ Stall \in Nat
  BY <1>3, <1>4, RecordedFacts, ContractAssumption
<1> HIDE DEF T
<1>7. r.frames[j - 1].at < r.frames[j].at
  <2>1. \A x, y, z \in Nat : x - y \in 1 .. z - 1 => y < x
    OBVIOUS
  <2> QED
    BY <2>1, <1>5, <1>6
<1>8. i # j - 1
  BY <1>3, <1>7
<1>9. i < j - 1 /\ ~ (r.frames[i].at < r.frames[j - 1].at)
  <2>1. \A x, y, z \in Nat : y < z /\ x < y => x < z
    OBVIOUS
  <2>2. ~ (r.frames[i].at < r.frames[j - 1].at)
    BY <1>3, <1>6, <1>7, <2>1
  <2> QED
    BY <1>1, <1>4, <1>8, <2>2
<1>10. j - 1 \in T
  BY <1>3, <1>4, <1>9 DEF T
<1> QED
  BY <1>1, <1>2, <1>4, <1>10

DoneOf(r) == Of(r, post_of(r), "PROCESSED")
GapsOf(r) == [i \in {j \in post_of(r) : j - 1 \in post_of(r)} |-> r.frames[i].at - r.frames[i - 1].at]
LatenciesOf(r) == [i \in DoneOf(r) |-> r.frames[i].done - r.frames[i].at]

LEMMA PartsFinite ==
  ASSUME NEW r \in RecordedRun, NEW part \in SUBSET (1 .. Len(r.frames))
  PROVE  /\ IsFiniteSet(part) /\ Cardinality(part) \in Nat
         /\ Cardinality(part) = 0 <=> part = {}
<1>1. IsFiniteSet(1 .. Len(r.frames))
  BY RecordedFacts, FS_Interval
<1> QED
  BY <1>1, FS_Subset, FS_CardinalityType, FS_EmptySet

LEMMA PostParts ==
  ASSUME NEW r \in RecordedRun
  PROVE  /\ post_of(r) \in SUBSET (1 .. Len(r.frames)) /\ DoneOf(r) \in SUBSET (1 .. Len(r.frames))
         /\ DOMAIN GapsOf(r) \in SUBSET (1 .. Len(r.frames)) /\ DOMAIN LatenciesOf(r) = DoneOf(r)
         /\ warmup_of(r) \in SUBSET (1 .. Len(r.frames))
BY RecordedFacts DEF post_of, DoneOf, Of, GapsOf, LatenciesOf, warmup_of

\* The last frame is the last one after the warm-up.
LEMMA LastOfPost ==
  ASSUME NEW r \in RecordedRun, InTime(r), post_of(r) # {}
  PROVE  /\ Len(r.frames) \in post_of(r) /\ Max(post_of(r)) = Len(r.frames)
         /\ Len(r.frames) >= 1 /\ 1 \in 1 .. Len(r.frames) /\ Boundary(r) \in Nat
         /\ Boundary(r) = r.frames[1].at + Warmup /\ r.frames[1].at \in Nat /\ r.frames[1].at <= r.end
<1> DEFINE n == Len(r.frames)
<1>1. PICK i \in 1 .. n : r.frames[i].at >= Boundary(r)
  BY RecordedFacts DEF post_of
<1>2. n \in Nat /\ n >= 1 /\ 1 \in 1 .. n /\ n \in 1 .. n
  BY <1>1, RecordedFacts
<1>3. Boundary(r) \in Nat /\ Boundary(r) = r.frames[1].at + Warmup /\ r.frames[1].at \in Nat
  BY <1>2, RecordedFacts, ContractAssumption DEF Boundary
<1>4. r.frames[n].at \in Nat /\ r.frames[i].at \in Nat /\ (i < n => r.frames[i].at < r.frames[n].at)
  BY <1>2, RecordedFacts, CapturedInOrder
<1>5. r.frames[n].at >= Boundary(r)
  BY <1>1, <1>2, <1>3, <1>4
<1>6. n \in post_of(r) /\ \A j \in post_of(r) : n >= j
  BY <1>2, <1>5, RecordedFacts DEF post_of
<1>7. Max(post_of(r)) \in post_of(r) /\ Max(post_of(r)) >= n
  BY <1>6 DEF Max
<1>8. Max(post_of(r)) = n
  BY <1>6, <1>7, <1>2, PostParts
<1>9. r.frames[1].at <= r.end
  BY <1>2 DEF InTime
<1> QED
  BY <1>2, <1>3, <1>6, <1>8, <1>9

LEMMA GapsMeasured ==
  ASSUME NEW r \in RecordedRun, InTime(r)
  PROVE  /\ DOMAIN GapsOf(r) = {} => nearest_rank(GapsOf(r), 95) = -1
         /\ DOMAIN GapsOf(r) # {} => nearest_rank(GapsOf(r), 95) \in Nat
         /\ nearest_rank(GapsOf(r), 95) <= MaxGap <=> MostWithin(GapsOf(r), MaxGap, 95)
<1> DEFINE g == GapsOf(r)
           D == DOMAIN g
<1>1. IsFiniteSet(D) /\ D \in SUBSET (1 .. Len(r.frames))
  BY PartsFinite, PostParts
<1>2. MaxGap \in Nat
  BY ContractAssumption
<1>3. CASE D = {}
  <2>1. nearest_rank(g, 95) = -1
    BY <1>3 DEF nearest_rank
  <2>2. {i \in D : g[i] <= MaxGap} = {}
    BY <1>3
  <2>3. MostWithin(g, MaxGap, 95)
    BY <1>3, <2>2, FS_EmptySet DEF MostWithin
  <2> QED
    BY <1>2, <1>3, <2>1, <2>3
<1>4. CASE D # {}
  <2>1. \A i \in D : g[i] \in 0 .. r.end
    <3> SUFFICES ASSUME NEW i \in D PROVE g[i] \in 0 .. r.end
      OBVIOUS
    <3>1. i \in 1 .. Len(r.frames) /\ i - 1 \in 1 .. Len(r.frames) /\ i - 1 < i
      BY <1>1, PostParts DEF GapsOf
    <3>2. g[i] = r.frames[i].at - r.frames[i - 1].at
      BY DEF GapsOf
    <3>3. r.frames[i].at \in Nat /\ r.frames[i - 1].at \in Nat /\ r.frames[i].at <= r.end
          /\ r.frames[i - 1].at < r.frames[i].at /\ r.end \in Nat
      BY <3>1, RecordedFacts, CapturedInOrder DEF InTime
    <3> QED
      BY <3>2, <3>3
  <2>2. g \in [D -> 0 .. r.end]
    <3>1. g = [i \in D |-> g[i]]
      BY DEF GapsOf
    <3> QED
      BY <2>1, <3>1
  <2>3. r.end \in Nat
    BY RecordedFacts
  <2> HIDE DEF g
  <2>4. 95 \in 1 .. 100
    OBVIOUS
  <2>5. nearest_rank(g, 95) \in 0 .. r.end
        /\ (nearest_rank(g, 95) <= MaxGap <=> MostWithin(g, MaxGap, 95))
    BY <1>1, <1>2, <1>4, <2>2, <2>3, <2>4, RankWithin
  <2> QED
    BY <1>4, <2>3, <2>5 DEF g
<1> QED
  BY <1>3, <1>4

LEMMA LatenciesMeasured ==
  ASSUME NEW r \in RecordedRun, InTime(r), NEW p \in 1 .. 100, NEW limit \in Nat
  PROVE  /\ DoneOf(r) = {} => nearest_rank(LatenciesOf(r), p) = NoValue
         /\ DoneOf(r) # {} => /\ nearest_rank(LatenciesOf(r), p) \in Nat
                              /\ nearest_rank(LatenciesOf(r), p) <= limit <=> MostWithin(LatenciesOf(r), limit, p)
<1> DEFINE g == LatenciesOf(r)
           D == DoneOf(r)
<1>1. IsFiniteSet(D) /\ D \in SUBSET (1 .. Len(r.frames)) /\ D = DOMAIN g
  BY PartsFinite, PostParts
<1>2. CASE D = {}
  BY <1>1, <1>2 DEF nearest_rank, NoValue
<1>3. CASE D # {}
  <2>1. \A i \in D : g[i] \in 0 .. r.end
    <3> SUFFICES ASSUME NEW i \in D PROVE g[i] \in 0 .. r.end
      OBVIOUS
    <3>1. i \in 1 .. Len(r.frames) /\ r.frames[i].kind = "PROCESSED"
      BY <1>1 DEF DoneOf, Of
    <3>2. g[i] = r.frames[i].done - r.frames[i].at
      BY DEF LatenciesOf
    <3>3. r.frames[i].at \in Nat /\ r.frames[i].done \in Int /\ r.frames[i].done <= r.end /\ r.frames[i].done >= r.frames[i].at
          /\ r.end \in Nat
      BY <3>1, RecordedFacts DEF InTime
    <3> QED
      BY <3>2, <3>3
  <2>2. g \in [D -> 0 .. r.end]
    <3>1. g = [i \in D |-> g[i]]
      BY DEF LatenciesOf
    <3> QED
      BY <2>1, <3>1
  <2>3. r.end \in Nat
    BY RecordedFacts
  <2> HIDE DEF g
  <2>4. nearest_rank(g, p) \in 0 .. r.end
        /\ (nearest_rank(g, p) <= limit <=> MostWithin(g, limit, p))
    <3> HIDE DEF D
    <3> QED
      BY <1>1, <1>3, <2>2, <2>3, RankWithin
  <2> QED
    BY <1>3, <2>3, <2>4 DEF g
<1> QED
  BY <1>2, <1>3

\* Of two samples the tenth percentile is the smaller one.
LEMMA SamplesMeasured ==
  ASSUME NEW d \in Disks, NEW x \in Nat
  PROVE  /\ nearest_rank(d.samples, 10) \in Nat
         /\ nearest_rank(d.samples, 10) >= x <=> \A i \in DOMAIN d.samples : d.samples[i] >= x
<1> DEFINE v == d.samples
           D == 1 .. 2
<1>1. v \in [D -> 0 .. 3] /\ \A i \in D : v[i] \in 0 .. 3
  BY DiskShape
<1>2. IsFiniteSet(D) /\ Cardinality(D) = 2 /\ D # {}
  <2>1. 1 \in Int /\ 2 \in Int /\ ~ (1 > 2) /\ 2 - 1 + 1 = 2 /\ 1 \in D
    OBVIOUS
  <2> QED
    BY <2>1, FS_Interval
<1> HIDE DEF v, D
<1>0. 10 \in 1 .. 100 /\ 3 \in Nat
  OBVIOUS
<1>3. nearest_rank(v, 10) \in 0 .. 3
  BY <1>0, <1>1, <1>2, RankWithin
<1>4. CASE x = 0
  BY <1>1, <1>3, <1>4 DEF v, D
<1>5. CASE x # 0
  <2> DEFINE S == {i \in D : v[i] <= x - 1}
  <2>1. x - 1 \in Nat
    BY <1>5
  <2>2. nearest_rank(v, 10) <= x - 1 <=> 100 * Cardinality(S) >= 10 * Cardinality(D)
    <3>1. nearest_rank(v, 10) <= x - 1 <=> MostWithin(v, x - 1, 10)
      BY <1>0, <1>1, <1>2, <2>1, RankWithin
    <3>2. DOMAIN v = D
      BY <1>1
    <3> QED
      BY <3>1, <3>2 DEF MostWithin
  <2>3. S \in SUBSET D
    OBVIOUS
  <2> HIDE DEF S
  <2>4. Cardinality(S) \in Nat /\ (Cardinality(S) = 0 <=> S = {})
    BY <1>2, <2>3, FS_Subset, FS_CardinalityType, FS_EmptySet
  <2>5. nearest_rank(v, 10) <= x - 1 <=> S # {}
    BY <1>2, <2>2, <2>4
  <2>6. S # {} <=> \E i \in D : v[i] <= x - 1
    BY DEF S
  <2>7. \A i \in D : v[i] <= x - 1 <=> ~ (v[i] >= x)
    BY <1>1, <2>1
  <2>8. nearest_rank(v, 10) <= x - 1 <=> ~ (nearest_rank(v, 10) >= x)
    BY <1>3, <2>1
  <2> QED
    BY <1>1, <1>3, <2>5, <2>6, <2>7, <2>8 DEF v, D
<1> QED
  BY <1>4, <1>5

\* In a run in time the frame completed last is the last one processed.
LEMMA NewestLatest ==
  ASSUME NEW r \in RecordedRun, InTime(r), DoneOf(r) # {}
  PROVE  LET newest == CHOOSE i \in DoneOf(r) : \A j \in DoneOf(r) : j <= i
             lastDone == CHOOSE i \in DoneOf(r) : \A j \in DoneOf(r) : r.frames[j].done <= r.frames[i].done
         IN newest = lastDone /\ newest \in DoneOf(r)
<1> DEFINE D == DoneOf(r)
           newest == CHOOSE i \in D : \A j \in D : j <= i
           lastDone == CHOOSE i \in D : \A j \in D : r.frames[j].done <= r.frames[i].done
<1>1. \A i \in D : i \in 1 .. Len(r.frames) /\ i \in Nat /\ r.frames[i].kind = "PROCESSED" /\ r.frames[i].done \in Int
  <2> SUFFICES ASSUME NEW i \in D
               PROVE  i \in 1 .. Len(r.frames) /\ i \in Nat /\ r.frames[i].kind = "PROCESSED" /\ r.frames[i].done \in Int
    OBVIOUS
  <2>1. i \in 1 .. Len(r.frames)
    BY PostParts
  <2>2. r.frames[i].kind = "PROCESSED"
    BY DEF DoneOf, Of
  <2> QED
    BY <2>1, <2>2, RecordedFacts
<1>2. D \in SUBSET (0 .. Len(r.frames)) /\ Len(r.frames) \in Nat
  BY <1>1, RecordedFacts
<1>3. \A i, j \in D : i < j => r.frames[i].done < r.frames[j].done
  BY <1>1 DEF InTime
<1>4. \E i \in D : \A j \in D : i >= j
  BY <1>2, GreatestNatural
<1> HIDE DEF D
<1>5. newest \in D /\ \A j \in D : j <= newest
  <2>1. \A i, j \in D : i >= j <=> j <= i
    BY <1>1
  <2> QED
    BY <1>4, <2>1
<1> HIDE DEF newest
<1>6. \A j \in D : r.frames[j].done <= r.frames[newest].done
  <2> SUFFICES ASSUME NEW j \in D PROVE r.frames[j].done <= r.frames[newest].done
    OBVIOUS
  <2>1. CASE j = newest
    BY <1>1, <1>5, <2>1
  <2>2. CASE j < newest
    BY <1>1, <1>3, <1>5, <2>2
  <2> QED
    BY <1>1, <1>5, <2>1, <2>2
<1>7. lastDone \in D /\ \A j \in D : r.frames[j].done <= r.frames[lastDone].done
  BY <1>5, <1>6
<1> HIDE DEF lastDone
<1>8. newest = lastDone
  <2>1. CASE newest < lastDone
    BY <1>1, <1>5, <1>7, <2>1
  <2>2. CASE lastDone < newest
    BY <1>1, <1>3, <1>5, <1>7, <2>2
  <2> QED
    BY <1>1, <1>5, <1>7, <2>1, <2>2
<1> QED
  BY <1>5, <1>8 DEF D, newest, lastDone

------------------------------------------------------------------------------
(* The evaluator: its judgement. *)

\* In a part of a run in time every frame is processed, dropped or failed.
LEMMA PartsAccounted ==
  ASSUME NEW r \in RecordedRun, InTime(r), NEW part \in SUBSET (1 .. Len(r.frames))
  PROVE  /\ accounting_is_semantic(accounting(r, part))
         /\ accounting(r, part).delivered = Cardinality(part) /\ Cardinality(part) \in Nat
         /\ accounting(r, part).processed = Cardinality(Of(r, part, "PROCESSED"))
         /\ accounting(r, part).processed \in Nat /\ accounting(r, part).dropped \in Nat
         /\ accounting(r, part).failed \in Nat
         /\ accounting(r, part).poor = Cardinality({i \in part : r.frames[i].poor})
<1> DEFINE P == Of(r, part, "PROCESSED")
           D == Of(r, part, "DROPPED_EXPLICIT")
           F == Of(r, part, "FAILED")
           Q == {i \in part : r.frames[i].poor}
<1>1. /\ P \in SUBSET (1 .. Len(r.frames)) /\ D \in SUBSET (1 .. Len(r.frames))
      /\ F \in SUBSET (1 .. Len(r.frames)) /\ Q \in SUBSET (1 .. Len(r.frames))
  BY DEF Of
<1>2. part = (P \cup D) \cup F /\ (P \cup D) \cap F = {} /\ P \cap D = {}
  <2>1. \A i \in part : r.frames[i].kind \in {"PROCESSED", "DROPPED_EXPLICIT", "FAILED"}
    BY RecordedFacts DEF InTime
  <2> QED
    BY <2>1 DEF Of
<1>3. Q \in SUBSET P
  BY RecordedFacts DEF Of
<1>4. accounting(r, part) = [delivered |-> Cardinality(part), processed |-> Cardinality(P), dropped |-> Cardinality(D),
                             failed |-> Cardinality(F), poor |-> Cardinality(Q)]
  BY DEF accounting
<1> HIDE DEF P, D, F, Q
<1>5. /\ IsFiniteSet(P) /\ IsFiniteSet(D) /\ IsFiniteSet(F) /\ IsFiniteSet(Q) /\ IsFiniteSet(part)
      /\ Cardinality(P) \in Nat /\ Cardinality(D) \in Nat /\ Cardinality(F) \in Nat /\ Cardinality(Q) \in Nat
      /\ Cardinality(part) \in Nat
  BY <1>1, PartsFinite
<1>6. IsFiniteSet(P \cup D) /\ Cardinality(P \cup D) = Cardinality(P) + Cardinality(D) - Cardinality({})
  BY <1>2, <1>5, FS_Union
<1>7. Cardinality(part) = Cardinality(P \cup D) + Cardinality(F) - Cardinality({})
  BY <1>2, <1>5, <1>6, FS_Union
<1>8. Cardinality({}) = 0
  BY FS_EmptySet
<1>9. Cardinality(Q) <= Cardinality(P)
  BY <1>3, <1>5, FS_Subset
<1>10. Cardinality(P) + Cardinality(D) + Cardinality(F) = Cardinality(part)
  BY <1>5, <1>6, <1>7, <1>8
<1>11. accounting_is_semantic(accounting(r, part))
  BY <1>4, <1>9, <1>10 DEF accounting_is_semantic
<1> QED
  BY <1>4, <1>5, <1>11 DEF P, Q

\* What the judgement asks of a run, check by check.
Passing(r) ==
  /\ validate_observations(r) = "OK" /\ failure_counts(r) = {} /\ post_of(r) # {}
  /\ stage_failure(r.disk.stages) = "OK"
  /\ metrics_of(r).total > 0 /\ metrics_of(r).post > 0
  /\ r.disk.count > 0 /\ r.disk.rate > 0 /\ r.disk.count = r.disk.rate * metrics_of(r).total
  /\ threshold_failure(r, accounting(r, post_of(r)), metrics_of(r)) = "OK"

PassReceipt(r) == receipt(r, "PASS", "NONE", {}, Len(r.frames), 0, accounting(r, warmup_of(r)),
                          accounting(r, post_of(r)), metrics_of(r))
Refusal(r, code, m) == failure_receipt(r, code, warmup_of(r), accounting(r, post_of(r)), m, Len(r.frames))
BareRefusal(r, code, n) == failure_receipt(r, code, {}, NoFrames, NoMetrics, n)

LEMMA JudgeCases ==
  ASSUME NEW r \in RecordedRun
  PROVE  IF Passing(r) THEN judge(r) = PassReceipt(r)
         ELSE \/ \E code : judge(r) = BareRefusal(r, code, Len(r.frames))
              \/ InTime(r) /\ \E code, m : judge(r) = Refusal(r, code, m)
<1> DEFINE n == Len(r.frames)
           warm == warmup_of(r)
           acc == accounting(r, post_of(r))
           mm == metrics_of(r)
<1>1. acc.delivered = Cardinality(post_of(r)) /\ (acc.delivered = 0 <=> post_of(r) = {})
  BY PartsFinite, PostParts DEF accounting
<1>2. CASE validate_observations(r) # "OK"
  <2>1. judge(r) = BareRefusal(r, validate_observations(r), n)
    BY <1>2 DEF judge, BareRefusal
  <2> QED
    BY <1>2, <2>1 DEF Passing
<1>3. CASE validate_observations(r) = "OK"
  <2>1. InTime(r)
    BY <1>3, ValidatedIffInTime
  <2>2. Measurable(r) <=> post_of(r) # {} /\ mm.total > 0 /\ mm.post > 0
    BY DEF Measurable
  <2>3. r.disk.count \in Nat /\ r.disk.rate \in Nat
    BY DiskShape DEF RecordedRun
  <2>4. CASE Passing(r)
    <3>1. /\ failure_counts(r) = {} /\ acc.delivered # 0 /\ stage_failure(r.disk.stages) = "OK"
          /\ Measurable(r) /\ ~ (r.disk.count <= 0 \/ r.disk.rate <= 0) /\ r.disk.count = r.disk.rate * mm.total
          /\ threshold_failure(r, acc, mm) = "OK"
      BY <1>1, <2>2, <2>3, <2>4 DEF Passing
    <3> HIDE DEF acc, mm
    <3>2. judge(r) = receipt(r, "PASS", "NONE", {}, n, 0, accounting(r, warm), acc, mm)
      BY <1>3, <3>1 DEF judge, acc, mm
    <3> QED
      BY <2>4, <3>2 DEF PassReceipt, acc, mm
  <2>5. CASE ~ Passing(r)
    <3>1. ~ (/\ failure_counts(r) = {} /\ acc.delivered # 0 /\ stage_failure(r.disk.stages) = "OK"
             /\ Measurable(r) /\ ~ (r.disk.count <= 0 \/ r.disk.rate <= 0) /\ r.disk.count = r.disk.rate * mm.total
             /\ threshold_failure(r, acc, mm) = "OK")
      BY <1>1, <1>3, <2>2, <2>3, <2>5 DEF Passing
    <3> HIDE DEF acc, mm
    <3>2. judge(r) \in {failure_receipt(r, first_count_code(failure_counts(r)), warm, acc, NoMetrics, n),
                        failure_receipt(r, "INPUT_UNAVAILABLE", warm, acc, NoMetrics, n),
                        failure_receipt(r, stage_failure(r.disk.stages), warm, acc, NoMetrics, n),
                        failure_receipt(r, "SCHEMA_INCOMPATIBLE", warm, acc, NoMetrics, n),
                        failure_receipt(r, "ENCODER_WRITE_FAILED", warm, acc, mm, n),
                        failure_receipt(r, "SCHEMA_INCOMPATIBLE", warm, acc, mm, n),
                        failure_receipt(r, threshold_failure(r, acc, mm), warm, acc, mm, n)}
      BY <1>3, <3>1 DEF judge, acc, mm
    <3>3. \E code, m : judge(r) = failure_receipt(r, code, warm, acc, m, n)
      BY <3>2
    <3> QED
      BY <2>1, <2>5, <3>3 DEF Refusal, acc
  <2> QED
    BY <2>4, <2>5
<1> QED
  BY <1>2, <1>3

LEMMA RefusalVerified ==
  ASSUME NEW r \in RecordedRun, NEW warm, NEW acc, NEW m, NEW checked \in Nat, NEW code,
         accounting_is_semantic(accounting(r, warm)), accounting_is_semantic(acc)
  PROVE  LET rc == failure_receipt(r, code, warm, acc, m, checked)
         IN /\ rc.outcome = "NO_GO" /\ rc.code = code /\ rc.stops = 0
            /\ verify_receipt_semantics(rc) <=> code # "PRIVACY_STOP" /\ r.disk.free >= required_bytes(r)
<1> DEFINE rc == failure_receipt(r, code, warm, acc, m, checked)
           counts == failure_counts(r) \cup {code}
<1>1. CASE code = "PRIVACY_STOP"
  <2>1. rc = scrubbed_receipt(counts, checked, 0)
    BY <1>1 DEF failure_receipt
  <2>2. rc.outcome = "NO_GO" /\ rc.code = "PRIVACY_STOP" /\ rc.stops = 0
    BY <2>1 DEF scrubbed_receipt
  <2>3. ~ verify_receipt_semantics(rc)
    BY <2>2 DEF verify_receipt_semantics, verify_privacy_stop
  <2> QED
    BY <1>1, <2>2, <2>3
<1>2. CASE code # "PRIVACY_STOP"
  <2>1. rc = receipt(r, "NO_GO", code, counts, checked, 0, accounting(r, warm), acc, m)
    BY <1>2 DEF failure_receipt
  <2>2. /\ rc.outcome = "NO_GO" /\ rc.code = code /\ rc.stops = 0 /\ rc.counts = counts /\ rc.checked = checked
        /\ rc.warm = accounting(r, warm) /\ rc.acc = acc /\ rc.required = required_bytes(r)
        /\ rc.free = r.disk.free /\ rc.rate = r.disk.rate
    BY <2>1 DEF receipt
  <2>3. rc.required = Larger(MinFree, 2 * rc.rate * Duration) /\ rc.checked >= rc.stops /\ rc.code \in rc.counts
    BY <2>2 DEF required_bytes
  <2> HIDE DEF rc
  <2>4. verify_receipt_semantics(rc) <=> rc.free >= rc.required
    BY <1>2, <2>2, <2>3 DEF verify_receipt_semantics
  <2> QED
    BY <1>2, <2>2, <2>4 DEF rc
<1> QED
  BY <1>1, <1>2

LEMMA NothingAccounted ==
  ASSUME NEW r \in RecordedRun
  PROVE  accounting(r, {}) = NoFrames /\ accounting_is_semantic(NoFrames)
<1>1. Cardinality({}) = 0
  BY FS_EmptySet
<1>2. \A kind : Of(r, {}, kind) = {}
  BY DEF Of
<1>3. {i \in {} : r.frames[i].poor} = {}
  OBVIOUS
<1>4. accounting(r, {}) = [delivered |-> 0, processed |-> 0, dropped |-> 0, failed |-> 0, poor |-> 0]
  <2>1. accounting(r, {}) = [delivered |-> Cardinality({}), processed |-> Cardinality(Of(r, {}, "PROCESSED")),
                             dropped |-> Cardinality(Of(r, {}, "DROPPED_EXPLICIT")),
                             failed |-> Cardinality(Of(r, {}, "FAILED")),
                             poor |-> Cardinality({i \in {} : r.frames[i].poor})]
    BY DEF accounting
  <2> QED
    BY <1>1, <1>2, <1>3, <2>1
<1>5. accounting_is_semantic(NoFrames)
  BY DEF NoFrames, accounting_is_semantic
<1> QED
  BY <1>4, <1>5 DEF NoFrames

\* No frame failed or was poor and nothing was injected.
LEMMA NothingCounted ==
  ASSUME NEW r \in RecordedRun
  PROVE  failure_counts(r) = {} <=> /\ \A i \in 1 .. Len(r.frames) : r.frames[i].kind # "FAILED" /\ ~ r.frames[i].poor
                                    /\ r.injected = <<>>
<1>1. DOMAIN r.frames = 1 .. Len(r.frames)
  BY RecordedFacts
<1>2. r.injected = <<>> \/ r.injected = <<"PRIVACY_STOP">> \/ r.injected = <<"UNKNOWN_TECHNICAL_FAILURE">>
  BY DEF RecordedRun, Injected
<1>3. r.injected = <<>> => \A code : ~ \E i \in DOMAIN r.injected : r.injected[i] = code
  OBVIOUS
<1>4. r.injected # <<>> => \E code \in {"PRIVACY_STOP", "UNKNOWN_TECHNICAL_FAILURE"} :
                             \E i \in DOMAIN r.injected : r.injected[i] = code
  <2>1. \A code : 1 \in DOMAIN <<code>> /\ <<code>>[1] = code
    OBVIOUS
  <2> QED
    BY <1>2, <2>1
<1>5. failure_counts(r) = {} <=>
        ~ Counted(r, "PRIVACY_STOP") /\ ~ Counted(r, "QUALITY_INSUFFICIENT") /\ ~ Counted(r, "UNKNOWN_TECHNICAL_FAILURE")
  BY DEF failure_counts
<1> QED
  BY <1>1, <1>3, <1>4, <1>5 DEF Counted

LEMMA StagesFailed ==
  ASSUME NEW stages
  PROVE  stage_failure(stages) = "OK" <=> \A s \in Stages : stages[s] # "FAILED"
BY DEF stage_failure, Stages

\* How far the last processed frame is behind the last one.
LagOf(r) == r.frames[Len(r.frames)].at - r.frames[CHOOSE i \in DoneOf(r) : \A j \in DoneOf(r) : j <= i].at

\* The metrics, each by itself.
LEMMA MetricsOf ==
  ASSUME NEW r \in RecordedRun, InTime(r), post_of(r) # {}
  PROVE  /\ metrics_of(r).total = r.end - r.frames[1].at /\ metrics_of(r).post = r.end - Boundary(r)
         /\ metrics_of(r).rate = Cardinality(post_of(r)) /\ metrics_of(r).gap95 = nearest_rank(GapsOf(r), 95)
         /\ metrics_of(r).latency95 = nearest_rank(LatenciesOf(r), 95)
         /\ metrics_of(r).latency99 = nearest_rank(LatenciesOf(r), 99)
         /\ metrics_of(r).p10 = nearest_rank(r.disk.samples, 10)
         /\ metrics_of(r).backlog = IF DoneOf(r) = {} THEN NoValue ELSE LagOf(r)
         /\ DOMAIN metrics_of(r) = {"total", "post", "rate", "gap95", "latency95", "latency99", "p10", "backlog"}
         /\ r.end - r.frames[1].at \in Nat /\ r.end - Boundary(r) \in Int
         /\ (r.end - r.frames[1].at) - (r.end - Boundary(r)) = Warmup
         /\ Cardinality(post_of(r)) \in Nat
         /\ DoneOf(r) # {} => LagOf(r) \in Nat
<1> DEFINE n == Len(r.frames)
           newest == CHOOSE i \in DoneOf(r) : \A j \in DoneOf(r) : j <= i
           lastDone == CHOOSE i \in DoneOf(r) : \A j \in DoneOf(r) : r.frames[j].done <= r.frames[i].done
<1>1. DoneOf(r) # {} => newest = lastDone /\ newest \in DoneOf(r)
  BY NewestLatest
<1>2. Max(post_of(r)) = n
  BY LastOfPost
<1>3. metrics_of(r) = [total |-> r.end - r.frames[1].at, post |-> r.end - Boundary(r), rate |-> Cardinality(post_of(r)),
                       gap95 |-> nearest_rank(GapsOf(r), 95), latency95 |-> nearest_rank(LatenciesOf(r), 95),
                       latency99 |-> nearest_rank(LatenciesOf(r), 99), p10 |-> nearest_rank(r.disk.samples, 10),
                       backlog |-> IF DoneOf(r) = {} THEN NoValue ELSE r.frames[Max(post_of(r))].at - r.frames[lastDone].at]
  BY DEF metrics_of, GapsOf, LatenciesOf, DoneOf
<1>4. r.end \in Nat /\ Boundary(r) = r.frames[1].at + Warmup /\ r.frames[1].at \in Nat /\ r.frames[1].at <= r.end
      /\ Warmup \in Nat /\ n \in 1 .. n /\ n \in Nat
  BY LastOfPost, RecordedFacts, ContractAssumption
<1>5. ASSUME DoneOf(r) # {} PROVE r.frames[n].at - r.frames[newest].at \in Nat
  <2>1. newest \in 1 .. n
    BY <1>1, <1>5, PostParts
  <2>2. r.frames[n].at \in Nat /\ r.frames[newest].at \in Nat
    BY <1>4, <2>1, RecordedFacts
  <2>3. newest < n => r.frames[newest].at < r.frames[n].at
    BY <1>4, <2>1, CapturedInOrder
  <2>4. newest = n \/ newest < n
    BY <1>4, <2>1
  <2> HIDE DEF newest, n
  <2> QED
    BY <2>2, <2>3, <2>4
<1>6. Cardinality(post_of(r)) \in Nat
  BY PartsFinite, PostParts
<1>7. r.end - r.frames[1].at \in Nat /\ r.end - Boundary(r) \in Int
      /\ (r.end - r.frames[1].at) - (r.end - Boundary(r)) = Warmup
  <2>1. \A e, f, w \in Nat : f <= e => e - f \in Nat /\ e - (f + w) \in Int /\ (e - f) - (e - (f + w)) = w
    OBVIOUS
  <2> QED
    BY <1>4, <2>1
<1> HIDE DEF newest, lastDone
<1>8. metrics_of(r) = [total |-> r.end - r.frames[1].at, post |-> r.end - Boundary(r), rate |-> Cardinality(post_of(r)),
                       gap95 |-> nearest_rank(GapsOf(r), 95), latency95 |-> nearest_rank(LatenciesOf(r), 95),
                       latency99 |-> nearest_rank(LatenciesOf(r), 99), p10 |-> nearest_rank(r.disk.samples, 10),
                       backlog |-> IF DoneOf(r) = {} THEN NoValue ELSE r.frames[n].at - r.frames[newest].at]
  <2>1. CASE DoneOf(r) = {}
    BY <1>3, <2>1
  <2>2. CASE DoneOf(r) # {}
    BY <1>1, <1>2, <1>3, <2>2
  <2> QED
    BY <2>1, <2>2
<1>9. LagOf(r) = r.frames[n].at - r.frames[newest].at
  BY DEF LagOf, newest
<1> QED
  BY <1>5, <1>6, <1>7, <1>8, <1>9

\* The thresholds, said of the frames.
WithinThresholds(r) ==
  /\ r.end - r.frames[1].at >= Duration /\ r.end - Boundary(r) >= Duration
  /\ Cardinality(post_of(r)) * TicksPerFrame >= r.end - Boundary(r)
  /\ MostWithin(GapsOf(r), MaxGap, 95) /\ DoneOf(r) # {}
  /\ MostWithin(LatenciesOf(r), MaxLatency95, 95) /\ MostWithin(LatenciesOf(r), MaxLatency99, 99)
  /\ LagOf(r) <= MaxBacklog
  /\ 100 * Cardinality(DoneOf(r)) >= (100 - MaxLostPercent) * Cardinality(post_of(r))
  /\ 100 * (Cardinality(post_of(r)) - Cardinality(DoneOf(r))) <= MaxLostPercent * Cardinality(post_of(r))
  /\ r.disk.free >= required_bytes(r)
  /\ \A i \in DOMAIN r.disk.samples : r.disk.samples[i] >= 2 * r.disk.rate

LEMMA RequiredBytes ==
  ASSUME NEW r \in RecordedRun
  PROVE  required_bytes(r) \in Nat /\ r.disk.free \in Nat /\ r.disk.rate \in Nat /\ r.disk.count \in Nat
<1>1. r.disk.rate \in Nat /\ r.disk.free \in Nat /\ r.disk.count \in Nat /\ MinFree \in Nat /\ Duration \in Nat
  BY DiskShape, ContractAssumption DEF RecordedRun
<1>2. \A a, b \in Nat : 2 * a * b \in Nat
  OBVIOUS
<1>3. 2 * r.disk.rate * Duration \in Nat
  BY <1>1, <1>2
<1> QED
  BY <1>1, <1>3 DEF required_bytes, Larger

LEMMA Thresholds ==
  ASSUME NEW r \in RecordedRun, InTime(r), post_of(r) # {}
  PROVE  threshold_failure(r, accounting(r, post_of(r)), metrics_of(r)) = "OK" <=> WithinThresholds(r)
<1> DEFINE m == metrics_of(r)
           acc == accounting(r, post_of(r))
           lag == LagOf(r)
           L == Cardinality(post_of(r))
           P == Cardinality(DoneOf(r))
           total == r.end - r.frames[1].at
           post == r.end - Boundary(r)
<1>1. /\ m.total = total /\ m.post = post /\ m.rate = L /\ m.gap95 = nearest_rank(GapsOf(r), 95)
      /\ m.latency95 = nearest_rank(LatenciesOf(r), 95) /\ m.latency99 = nearest_rank(LatenciesOf(r), 99)
      /\ m.p10 = nearest_rank(r.disk.samples, 10) /\ m.backlog = IF DoneOf(r) = {} THEN NoValue ELSE lag
      /\ total \in Nat /\ post \in Int /\ L \in Nat
      /\ DoneOf(r) # {} => lag \in Nat
  BY MetricsOf
<1>2. /\ acc.delivered = L /\ acc.processed = P /\ P \in Nat /\ acc.dropped \in Nat /\ acc.failed \in Nat
      /\ acc.dropped + acc.failed = L - P
  <2>1. /\ accounting_is_semantic(acc) /\ acc.delivered = L /\ acc.processed = P /\ P \in Nat
        /\ acc.dropped \in Nat /\ acc.failed \in Nat
    BY PartsAccounted, PostParts DEF DoneOf
  <2>2. P + acc.dropped + acc.failed = L
    BY <2>1 DEF accounting_is_semantic
  <2>3. \A p, d, f, l \in Nat : p + d + f = l => d + f = l - p
    OBVIOUS
  <2> HIDE DEF P, L, acc
  <2> QED
    BY <1>1, <2>1, <2>2, <2>3
<1>3. Lost(acc) = L - P
  BY <1>2 DEF Lost
<1>4. /\ MaxLatency95 \in Nat /\ MaxLatency99 \in Nat /\ MaxGap \in Nat /\ MaxBacklog \in Nat
      /\ Duration \in Nat /\ TicksPerFrame \in Nat /\ MaxLostPercent \in 0 .. 100 /\ 95 \in 1 .. 100 /\ 99 \in 1 .. 100
  BY ContractAssumption
<1>5. /\ m.gap95 \in Int /\ (~ (m.gap95 > MaxGap) <=> MostWithin(GapsOf(r), MaxGap, 95))
  <2>1. m.gap95 \in Int /\ (m.gap95 <= MaxGap <=> MostWithin(GapsOf(r), MaxGap, 95))
    <3>1. nearest_rank(GapsOf(r), 95) \in Int
      BY GapsMeasured
    <3> QED
      BY <1>1, <3>1, GapsMeasured
  <2> HIDE DEF m
  <2> QED
    BY <1>4, <2>1
<1>6. DoneOf(r) = {} => m.latency95 = NoValue
  BY <1>1, <1>4, LatenciesMeasured
<1>7. DoneOf(r) # {} => /\ m.latency95 # NoValue /\ m.latency95 \in Nat /\ m.latency99 \in Nat
                        /\ ~ (m.latency95 > MaxLatency95) <=> MostWithin(LatenciesOf(r), MaxLatency95, 95)
                        /\ ~ (m.latency99 > MaxLatency99) <=> MostWithin(LatenciesOf(r), MaxLatency99, 99)
  <2> SUFFICES ASSUME DoneOf(r) # {}
               PROVE  /\ m.latency95 # NoValue /\ m.latency95 \in Nat /\ m.latency99 \in Nat
                      /\ ~ (m.latency95 > MaxLatency95) <=> MostWithin(LatenciesOf(r), MaxLatency95, 95)
                      /\ ~ (m.latency99 > MaxLatency99) <=> MostWithin(LatenciesOf(r), MaxLatency99, 99)
    OBVIOUS
  <2>1. /\ m.latency95 \in Nat /\ (m.latency95 <= MaxLatency95 <=> MostWithin(LatenciesOf(r), MaxLatency95, 95))
        /\ m.latency99 \in Nat /\ (m.latency99 <= MaxLatency99 <=> MostWithin(LatenciesOf(r), MaxLatency99, 99))
    BY <1>1, <1>4, LatenciesMeasured
  <2> HIDE DEF m
  <2> QED
    BY <1>4, <2>1 DEF NoValue
<1>8. ~ (m.p10 < 2 * r.disk.rate) <=> \A i \in DOMAIN r.disk.samples : r.disk.samples[i] >= 2 * r.disk.rate
  <2>1. r.disk \in Disks /\ r.disk.rate \in Nat
    BY RequiredBytes DEF RecordedRun
  <2>2. 2 * r.disk.rate \in Nat
    BY <2>1
  <2>3. /\ nearest_rank(r.disk.samples, 10) \in Nat
        /\ nearest_rank(r.disk.samples, 10) >= 2 * r.disk.rate
             <=> \A i \in DOMAIN r.disk.samples : r.disk.samples[i] >= 2 * r.disk.rate
    BY <2>1, <2>2, SamplesMeasured
  <2>4. \A x, y \in Nat : ~ (x < y) <=> x >= y
    OBVIOUS
  <2> QED
    BY <1>1, <2>2, <2>3, <2>4
<1>9. r.disk.free \in Nat /\ required_bytes(r) \in Nat
  BY RequiredBytes
<1>10. L * TicksPerFrame \in Int /\ MaxLostPercent * L \in Int /\ (100 - MaxLostPercent) * L \in Int
  <2>1. \A x, y \in Int : x * y \in Int
    OBVIOUS
  <2>2. 100 - MaxLostPercent \in Int /\ MaxLostPercent \in Int /\ L \in Int /\ TicksPerFrame \in Int
    BY <1>1, <1>4
  <2> HIDE DEF L
  <2> QED
    BY <2>1, <2>2
<1>11. DoneOf(r) # {} => (~ (m.backlog > MaxBacklog) <=> lag <= MaxBacklog)
  BY <1>1, <1>4
<1> HIDE DEF m, acc, L, P, total, post, lag
<1>12. threshold_failure(r, acc, m) = "OK" <=>
         /\ ~ (m.total < Duration) /\ ~ (m.post < Duration) /\ ~ (m.rate * TicksPerFrame < m.post) /\ ~ (m.gap95 > MaxGap)
         /\ m.latency95 # NoValue /\ ~ (m.latency95 > MaxLatency95) /\ ~ (m.latency99 > MaxLatency99)
         /\ ~ (m.backlog > MaxBacklog)
         /\ ~ (100 * acc.processed < (100 - MaxLostPercent) * acc.delivered)
         /\ ~ (100 * Lost(acc) > MaxLostPercent * acc.delivered)
         /\ ~ (r.disk.free < required_bytes(r)) /\ ~ (m.p10 < 2 * r.disk.rate)
  BY DEF threshold_failure
<1>13. /\ ~ (m.total < Duration) <=> total >= Duration
       /\ ~ (m.post < Duration) <=> post >= Duration
       /\ ~ (m.rate * TicksPerFrame < m.post) <=> L * TicksPerFrame >= post
       /\ ~ (100 * acc.processed < (100 - MaxLostPercent) * acc.delivered) <=> 100 * P >= (100 - MaxLostPercent) * L
       /\ ~ (100 * Lost(acc) > MaxLostPercent * acc.delivered) <=> 100 * (L - P) <= MaxLostPercent * L
       /\ ~ (r.disk.free < required_bytes(r)) <=> r.disk.free >= required_bytes(r)
  <2>1. \A x, y \in Int : (~ (x < y) <=> x >= y) /\ (~ (x > y) <=> x <= y)
    OBVIOUS
  <2>2. /\ m.total \in Int /\ m.post \in Int /\ Duration \in Int /\ L * TicksPerFrame \in Int /\ 100 * P \in Int
        /\ (100 - MaxLostPercent) * L \in Int /\ MaxLostPercent * L \in Int /\ 100 * (L - P) \in Int
        /\ r.disk.free \in Int /\ required_bytes(r) \in Int
    BY <1>1, <1>2, <1>4, <1>9, <1>10
  <2>3. m.total = total /\ m.post = post /\ m.rate = L /\ acc.processed = P /\ acc.delivered = L /\ Lost(acc) = L - P
    BY <1>1, <1>2, <1>3
  <2> QED
    BY <2>1, <2>2, <2>3
<1>14. WithinThresholds(r) <=>
         /\ total >= Duration /\ post >= Duration /\ L * TicksPerFrame >= post
         /\ MostWithin(GapsOf(r), MaxGap, 95) /\ DoneOf(r) # {}
         /\ MostWithin(LatenciesOf(r), MaxLatency95, 95) /\ MostWithin(LatenciesOf(r), MaxLatency99, 99)
         /\ lag <= MaxBacklog /\ 100 * P >= (100 - MaxLostPercent) * L /\ 100 * (L - P) <= MaxLostPercent * L
         /\ r.disk.free >= required_bytes(r)
         /\ \A i \in DOMAIN r.disk.samples : r.disk.samples[i] >= 2 * r.disk.rate
  BY DEF WithinThresholds, total, post, L, P, lag
<1>15. threshold_failure(r, acc, m) = "OK" <=> WithinThresholds(r)
  BY <1>5, <1>6, <1>7, <1>8, <1>11, <1>12, <1>13, <1>14
<1> QED
  BY <1>15 DEF acc, m

\* Of a run in time, Acceptable says the same as the thresholds and the counts.
LEMMA AcceptableInTime ==
  ASSUME NEW r \in RecordedRun
  PROVE  Acceptable(r) <=>
           /\ InTime(r) /\ failure_counts(r) = {} /\ post_of(r) # {}
           /\ \A s \in Stages : r.disk.stages[s] # "FAILED"
           /\ r.disk.rate > 0 /\ r.disk.count = r.disk.rate * (r.end - r.frames[1].at)
           /\ WithinThresholds(r)
<1> DEFINE n == Len(r.frames)
           Late == {i \in 1 .. n : r.frames[i].at >= Boundary(r)}
           Done == {i \in Late : r.frames[i].kind = "PROCESSED"}
           L == Cardinality(Late)
           P == Cardinality(Done)
<1>1. Late = post_of(r) /\ Done = DoneOf(r)
  BY RecordedFacts DEF post_of, DoneOf, Of
<1>2. /\ [i \in {j \in Late : j - 1 \in Late} |-> r.frames[i].at - r.frames[i - 1].at] = GapsOf(r)
      /\ [i \in Done |-> r.frames[i].done - r.frames[i].at] = LatenciesOf(r)
  BY <1>1 DEF GapsOf, LatenciesOf
<1> DEFINE Clear == \A i \in 1 .. n : /\ r.frames[i].kind \in {"PROCESSED", "DROPPED_EXPLICIT"} /\ ~ r.frames[i].poor
                                      /\ r.frames[i].at <= r.end /\ r.frames[i].done <= r.end
           Steady == \A i \in 1 .. n - 1 : r.frames[i + 1].at - r.frames[i].at \in 1 .. Stall - 1
           Ordered == \A i, j \in 1 .. n : i < j /\ {r.frames[i].kind, r.frames[j].kind} = {"PROCESSED"}
                                             => r.frames[i].done < r.frames[j].done
<1>3. Clear /\ Steady /\ Ordered /\ r.injected = <<>> <=> InTime(r) /\ failure_counts(r) = {}
  <2>1. \A x, y : {x, y} = {"PROCESSED"} <=> x = "PROCESSED" /\ y = "PROCESSED"
    OBVIOUS
  <2>2. Ordered <=> \A i, j \in 1 .. n : i < j /\ r.frames[i].kind = "PROCESSED" /\ r.frames[j].kind = "PROCESSED"
                                            => r.frames[i].done < r.frames[j].done
    BY <2>1
  <2>3. \A i \in 1 .. n : r.frames[i].kind # "PROCESSED" => r.frames[i].done <= r.end
    BY RecordedFacts DEF NoValue
  <2>4. \A i \in 1 .. n : r.frames[i].kind \in {"PROCESSED", "DROPPED_EXPLICIT"}
                            <=> r.frames[i].kind # "MALFORMED" /\ r.frames[i].kind # "FAILED"
    BY RecordedFacts
  <2>5. Clear <=> /\ \A i \in 1 .. n : /\ r.frames[i].kind # "MALFORMED" /\ r.frames[i].at <= r.end
                                       /\ r.frames[i].kind = "PROCESSED" => r.frames[i].done <= r.end
                  /\ \A i \in 1 .. n : r.frames[i].kind # "FAILED" /\ ~ r.frames[i].poor
    BY <2>3, <2>4
  <2>6. InTime(r) <=> /\ \A i \in 1 .. n : /\ r.frames[i].kind # "MALFORMED" /\ r.frames[i].at <= r.end
                                           /\ r.frames[i].kind = "PROCESSED" => r.frames[i].done <= r.end
                      /\ Steady
                      /\ \A i, j \in 1 .. n : i < j /\ r.frames[i].kind = "PROCESSED" /\ r.frames[j].kind = "PROCESSED"
                                                 => r.frames[i].done < r.frames[j].done
    BY DEF InTime
  <2> HIDE DEF Clear, Steady, Ordered
  <2> QED
    BY <2>2, <2>5, <2>6, NothingCounted
<1>4. Acceptable(r) <=>
        /\ n > 0 /\ Done # {} /\ Clear /\ Steady /\ Ordered /\ r.injected = <<>>
        /\ r.end - Boundary(r) >= Duration /\ L * TicksPerFrame >= r.end - Boundary(r)
        /\ MostWithin(GapsOf(r), MaxGap, 95)
        /\ MostWithin(LatenciesOf(r), MaxLatency95, 95) /\ MostWithin(LatenciesOf(r), MaxLatency99, 99)
        /\ LagOf(r) <= MaxBacklog
        /\ 100 * (L - P) <= MaxLostPercent * L
        /\ \A s \in Stages : r.disk.stages[s] # "FAILED"
        /\ r.disk.rate > 0 /\ r.disk.count = r.disk.rate * (r.end - r.frames[1].at)
        /\ r.disk.free >= required_bytes(r)
        /\ \A i \in DOMAIN r.disk.samples : r.disk.samples[i] >= 2 * r.disk.rate
  BY <1>1, <1>2 DEF Acceptable, LagOf
<1>5. Done # {} => Late # {} /\ n > 0
  BY RecordedFacts
<1>6. /\ L = Cardinality(post_of(r)) /\ P = Cardinality(DoneOf(r)) /\ L \in Nat /\ P \in Nat
  BY <1>1, PartsFinite, PostParts
<1>7. 100 * (L - P) <= MaxLostPercent * L <=> 100 * P >= (100 - MaxLostPercent) * L
  <2>1. MaxLostPercent \in Int
    BY ContractAssumption
  <2>2. \A x, y, z \in Int : 100 * (x - y) <= z * x <=> 100 * y >= (100 - z) * x
    BY SMT
  <2>3. L \in Int /\ P \in Int
    BY <1>6
  <2> HIDE DEF L, P
  <2> QED
    BY <2>1, <2>2, <2>3
<1>8. ASSUME InTime(r), post_of(r) # {}, r.end - Boundary(r) >= Duration
      PROVE  r.end - r.frames[1].at >= Duration
  <2>1. /\ r.end - r.frames[1].at \in Nat /\ r.end - Boundary(r) \in Int
        /\ (r.end - r.frames[1].at) - (r.end - Boundary(r)) = Warmup
    BY <1>8, MetricsOf
  <2>2. Warmup \in Nat /\ Duration \in Nat
    BY ContractAssumption
  <2>3. \A x \in Nat, y \in Int, w, d \in Nat : x - y = w /\ y >= d => x >= d
    OBVIOUS
  <2> QED
    BY <1>8, <2>1, <2>2, <2>3
<1>9. WithinThresholds(r) <=>
        /\ r.end - r.frames[1].at >= Duration /\ r.end - Boundary(r) >= Duration
        /\ L * TicksPerFrame >= r.end - Boundary(r)
        /\ MostWithin(GapsOf(r), MaxGap, 95) /\ Done # {}
        /\ MostWithin(LatenciesOf(r), MaxLatency95, 95) /\ MostWithin(LatenciesOf(r), MaxLatency99, 99)
        /\ LagOf(r) <= MaxBacklog
        /\ 100 * P >= (100 - MaxLostPercent) * L /\ 100 * (L - P) <= MaxLostPercent * L
        /\ r.disk.free >= required_bytes(r)
        /\ \A i \in DOMAIN r.disk.samples : r.disk.samples[i] >= 2 * r.disk.rate
  BY <1>1 DEF WithinThresholds
<1> HIDE DEF Late, Done, L, P, Clear, Steady, Ordered, n
<1> QED
  BY <1>1, <1>3, <1>4, <1>5, <1>7, <1>8, <1>9

LEMMA PassingIffAcceptable ==
  ASSUME NEW r \in RecordedRun
  PROVE  Passing(r) <=> Acceptable(r)
<1> DEFINE total == r.end - r.frames[1].at
           post == r.end - Boundary(r)
           Earned == InTime(r) /\ failure_counts(r) = {} /\ post_of(r) # {}
<1>1. ASSUME Earned
      PROVE  /\ metrics_of(r).total = total /\ metrics_of(r).post = post /\ total \in Nat /\ post \in Int
             /\ threshold_failure(r, accounting(r, post_of(r)), metrics_of(r)) = "OK" <=> WithinThresholds(r)
  BY <1>1, MetricsOf, Thresholds
<1>2. WithinThresholds(r) => total >= Duration /\ post >= Duration
  BY DEF WithinThresholds
<1>3. r.disk.rate \in Nat /\ r.disk.count \in Nat /\ Duration \in Nat \ {0}
  BY RequiredBytes, ContractAssumption
<1>4. \A a \in Nat, t \in Nat, d \in Nat \ {0} : a > 0 /\ t >= d => a * t > 0 /\ t > 0
  BY SMT
<1>5. \A x \in Int, d \in Nat \ {0} : x >= d => x > 0
  OBVIOUS
<1>6. ASSUME Passing(r) PROVE Acceptable(r)
  <2>1. Earned
    BY <1>6, ValidatedIffInTime DEF Passing
  <2>2. WithinThresholds(r) /\ r.disk.rate > 0 /\ r.disk.count = r.disk.rate * total
    BY <1>1, <1>6, <2>1 DEF Passing
  <2>3. \A s \in Stages : r.disk.stages[s] # "FAILED"
    BY <1>6, StagesFailed DEF Passing
  <2> QED
    BY <2>1, <2>2, <2>3, AcceptableInTime
<1>7. ASSUME Acceptable(r) PROVE Passing(r)
  <2>1. Earned /\ WithinThresholds(r) /\ r.disk.rate > 0 /\ r.disk.count = r.disk.rate * total
        /\ stage_failure(r.disk.stages) = "OK"
    BY <1>7, AcceptableInTime, StagesFailed
  <2>2. metrics_of(r).total > 0 /\ metrics_of(r).post > 0 /\ r.disk.count > 0
    <3>1. total >= Duration /\ post >= Duration /\ total \in Nat /\ post \in Int
      BY <1>1, <1>2, <2>1
    <3>2. total > 0 /\ post > 0 /\ r.disk.rate * total > 0
      <4> HIDE DEF total, post
      <4> QED
        BY <1>3, <1>4, <1>5, <2>1, <3>1
    <3> QED
      BY <1>1, <2>1, <3>2
  <2> QED
    BY <1>1, <2>1, <2>2, ValidatedIffInTime DEF Passing
<1> QED
  BY <1>6, <1>7

\* A run in time and fast enough has a gap between two frames after the warm-up.
LEMMA GapAfterWarmup ==
  ASSUME NEW r \in RecordedRun, InTime(r), post_of(r) # {}, WithinThresholds(r)
  PROVE  DOMAIN GapsOf(r) # {}
<1> DEFINE n == Len(r.frames)
           L == Cardinality(post_of(r))
<1>1. L \in Nat /\ L * TicksPerFrame >= r.end - Boundary(r) /\ r.end - Boundary(r) >= Duration
      /\ r.end - Boundary(r) \in Int
  BY MetricsOf DEF WithinThresholds
<1>2. L >= 2
  <2>1. \A l \in Nat, t, d \in Nat, x \in Int : l * t >= x /\ x >= d /\ t < d => l >= 2
    <3> SUFFICES ASSUME NEW l \in Nat, NEW t \in Nat, NEW d \in Nat, l * t >= d, t < d PROVE l >= 2
      BY SMT
    <3>1. l # 0 /\ l # 1
      BY SMT
    <3> QED
      BY <3>1
  <2>2. TicksPerFrame \in Nat /\ Duration \in Nat /\ TicksPerFrame < Duration
    BY ContractAssumption
  <2> HIDE DEF L
  <2> QED
    BY <1>1, <2>1, <2>2
<1>3. n \in post_of(r) /\ n \in Nat /\ Boundary(r) \in Nat /\ IsFiniteSet(post_of(r)) /\ post_of(r) \in SUBSET (1 .. n)
  BY LastOfPost, RecordedFacts, PartsFinite, PostParts
<1>4. PICK i \in post_of(r) : i # n
  <2>1. post_of(r) # {n}
    <3> SUFFICES ASSUME post_of(r) = {n} PROVE FALSE
      OBVIOUS
    <3>1. L = 1
      BY FS_Singleton
    <3> QED
      BY <1>2, <3>1
  <2> QED
    BY <1>3, <2>1
<1>5. i \in 1 .. n /\ n - 1 \in 1 .. n /\ i <= n - 1
  BY <1>3, <1>4
<1>6. r.frames[i].at \in Nat /\ r.frames[n - 1].at \in Nat /\ r.frames[i].at >= Boundary(r)
  BY <1>4, <1>5, RecordedFacts DEF post_of
<1>7. i < n - 1 => r.frames[i].at < r.frames[n - 1].at
  BY <1>5, CapturedInOrder
<1>8. r.frames[n - 1].at >= Boundary(r)
  <2>1. i = n - 1 \/ i < n - 1
    BY <1>3, <1>5
  <2> QED
    BY <2>1, <1>3, <1>6, <1>7
<1>9. n - 1 \in post_of(r)
  BY <1>5, <1>8, RecordedFacts DEF post_of
<1> QED
  BY <1>3, <1>9 DEF GapsOf

\* What a pass states of its run is what the verifier asks for, but for the stages.
LEMMA PassMetrics ==
  ASSUME NEW r \in RecordedRun, Passing(r)
  PROVE  metrics_are_semantic(metrics_of(r), PassReceipt(r))
<1> DEFINE m == metrics_of(r)
           rc == PassReceipt(r)
           acc == accounting(r, post_of(r))
           L == Cardinality(post_of(r))
           P == Cardinality(DoneOf(r))
<1>1. InTime(r) /\ post_of(r) # {} /\ WithinThresholds(r)
  BY PassingIffAcceptable, AcceptableInTime
<1>2. /\ acc.delivered = L /\ acc.processed = P /\ Lost(acc) = L - P /\ L \in Nat /\ L # 0
  <2>1. /\ accounting_is_semantic(acc) /\ acc.delivered = L /\ acc.processed = P /\ P \in Nat
        /\ acc.dropped \in Nat /\ acc.failed \in Nat /\ L \in Nat
    BY <1>1, PartsAccounted, PostParts DEF DoneOf
  <2>2. P + acc.dropped + acc.failed = L
    BY <2>1 DEF accounting_is_semantic
  <2>3. \A p, d, f, l \in Nat : p + d + f = l => d + f = l - p
    OBVIOUS
  <2>4. L # 0
    BY <1>1, PartsFinite, PostParts
  <2> HIDE DEF P, L, acc
  <2> QED
    BY <2>1, <2>2, <2>3, <2>4 DEF Lost
<1>3. /\ m.total = r.end - r.frames[1].at /\ m.post = r.end - Boundary(r)
      /\ m.rate = L /\ m.gap95 = nearest_rank(GapsOf(r), 95)
      /\ m.latency95 = nearest_rank(LatenciesOf(r), 95) /\ m.latency99 = nearest_rank(LatenciesOf(r), 99)
      /\ m.p10 = nearest_rank(r.disk.samples, 10)
      /\ m.backlog = IF DoneOf(r) = {} THEN NoValue ELSE LagOf(r)
      /\ DOMAIN m = {"total", "post", "rate", "gap95", "latency95", "latency99", "p10", "backlog"}
      /\ m.total \in Nat /\ m.post \in Int /\ m.total - m.post = Warmup
      /\ DoneOf(r) # {} => LagOf(r) \in Nat
  BY <1>1, MetricsOf
<1>4. /\ m.total >= Duration /\ m.post >= Duration /\ m.rate * TicksPerFrame >= m.post
      /\ DoneOf(r) # {} /\ LagOf(r) <= MaxBacklog
      /\ 100 * P >= (100 - MaxLostPercent) * L /\ 100 * (L - P) <= MaxLostPercent * L
  BY <1>1, <1>3 DEF WithinThresholds
<1>5. Duration \in Nat /\ MaxLatency95 \in Nat /\ MaxLatency99 \in Nat /\ 95 \in 1 .. 100 /\ 99 \in 1 .. 100
  BY ContractAssumption
<1>6. m.gap95 \in Nat /\ m.gap95 <= MaxGap
  BY <1>1, <1>3, GapsMeasured, GapAfterWarmup DEF WithinThresholds
<1>7. m.latency95 \in Nat /\ m.latency95 <= MaxLatency95 /\ m.latency99 \in Nat /\ m.latency99 <= MaxLatency99
  BY <1>1, <1>3, <1>4, <1>5, LatenciesMeasured DEF WithinThresholds
<1>8. m.p10 \in Nat /\ m.p10 >= 2 * r.disk.rate
  <2>1. r.disk \in Disks /\ r.disk.rate \in Nat
    BY RequiredBytes DEF RecordedRun
  <2>2. 2 * r.disk.rate \in Nat
    BY <2>1
  <2> QED
    BY <1>1, <1>3, <2>1, <2>2, SamplesMeasured DEF WithinThresholds
<1>9. m.backlog \in Nat /\ m.backlog <= MaxBacklog
  BY <1>3, <1>4
<1>10. \A x \in DOMAIN m : m[x] >= 0
  <2>1. \A x, d \in Int : d >= 0 /\ x >= d => x >= 0
    OBVIOUS
  <2>2. m.post >= 0
    BY <1>3, <1>4, <1>5, <2>1
  <2>3. \A x \in Nat : x >= 0
    OBVIOUS
  <2>4. m.total >= 0 /\ m.rate >= 0 /\ m.gap95 >= 0 /\ m.latency95 >= 0 /\ m.latency99 >= 0 /\ m.p10 >= 0 /\ m.backlog >= 0
    BY <2>3, <1>2, <1>3, <1>6, <1>7, <1>8, <1>9
  <2> HIDE DEF m
  <2> QED
    BY <1>3, <2>2, <2>4
<1>11. rc.acc = acc /\ rc.rate = r.disk.rate
  BY DEF PassReceipt, receipt
<1> HIDE DEF m, rc, acc, L, P
<1>12. metrics_are_semantic(m, rc)
  <2>1. m.rate = rc.acc.delivered /\ rc.acc.delivered # 0 /\ m.p10 >= 2 * rc.rate
    BY <1>2, <1>3, <1>8, <1>11
  <2>2. /\ 100 * rc.acc.processed >= (100 - MaxLostPercent) * rc.acc.delivered
        /\ 100 * Lost(rc.acc) <= MaxLostPercent * rc.acc.delivered
    BY <1>2, <1>4, <1>11
  <2>3. m.total - m.post = Warmup
    BY <1>3
  <2> QED
    BY <1>4, <1>6, <1>7, <1>9, <1>10, <2>1, <2>2, <2>3 DEF metrics_are_semantic
<1> QED
  BY <1>12 DEF m, rc

LEMMA PassVerified ==
  ASSUME NEW r \in RecordedRun, Passing(r)
  PROVE  /\ PassReceipt(r).outcome = "PASS" /\ PassReceipt(r).code = "NONE" /\ PassReceipt(r).checked = Len(r.frames)
         /\ r.disk.free >= required_bytes(r)
         /\ verify_receipt_semantics(PassReceipt(r)) <=> r.disk.stages = Succeeded
<1> DEFINE rc == PassReceipt(r)
           n == Len(r.frames)
           warm == warmup_of(r)
           post == post_of(r)
<1>1. InTime(r) /\ failure_counts(r) = {} /\ post # {} /\ WithinThresholds(r)
  BY PassingIffAcceptable, AcceptableInTime
<1>2. /\ rc.outcome = "PASS" /\ rc.code = "NONE" /\ rc.checked = n /\ rc.stops = 0 /\ rc.counts = {}
      /\ rc.warm = accounting(r, warm) /\ rc.acc = accounting(r, post) /\ rc.metrics = metrics_of(r)
      /\ rc.required = required_bytes(r) /\ rc.free = r.disk.free /\ rc.count = r.disk.count
      /\ rc.rate = r.disk.rate /\ rc.stages = r.disk.stages
  BY DEF PassReceipt, receipt
<1>3. /\ accounting_is_semantic(rc.warm) /\ accounting_is_semantic(rc.acc)
      /\ rc.warm.delivered = Cardinality(warm) /\ rc.acc.delivered = Cardinality(post)
      /\ rc.acc.poor = Cardinality({i \in post : r.frames[i].poor})
  <2>1. \A part \in SUBSET (1 .. n) : /\ accounting_is_semantic(accounting(r, part))
                                     /\ accounting(r, part).delivered = Cardinality(part)
                                     /\ accounting(r, part).poor = Cardinality({i \in part : r.frames[i].poor})
    BY <1>1, PartsAccounted
  <2>2. warm \in SUBSET (1 .. n) /\ post \in SUBSET (1 .. n)
    BY PostParts
  <2> HIDE DEF rc, n, warm, post
  <2> QED
    BY <1>2, <2>1, <2>2
<1>4. rc.acc.poor = 0
  <2>1. {i \in post : r.frames[i].poor} = {}
    BY <1>1, NothingCounted, PostParts
  <2> QED
    BY <1>3, <2>1, FS_EmptySet
<1>5. rc.checked = rc.warm.delivered + rc.acc.delivered
  <2>1. n \in Nat /\ Boundary(r) \in Nat /\ \A i \in 1 .. n : r.frames[i].at \in Nat
    BY <1>1, LastOfPost, RecordedFacts
  <2>2. warm \cup post = 1 .. n /\ warm \cap post = {}
    BY <2>1, RecordedFacts DEF warmup_of, post_of
  <2>3. IsFiniteSet(warm) /\ IsFiniteSet(post) /\ Cardinality(warm) \in Nat /\ Cardinality(post) \in Nat
    BY PartsFinite, PostParts
  <2>4. Cardinality(warm \cup post) = Cardinality(warm) + Cardinality(post) - Cardinality({})
    BY <2>2, <2>3, FS_Union
  <2>5. Cardinality({}) = 0 /\ Cardinality(1 .. n) = n
    <3>1. 1 \in Int /\ n \in Int
      BY <2>1
    <3>2. Cardinality(1 .. n) = IF 1 > n THEN 0 ELSE n - 1 + 1
      BY <3>1, FS_Interval
    <3> QED
      BY <2>1, <3>2, FS_EmptySet
  <2>6. \A a, b \in Nat : a + b - 0 = a + b
    OBVIOUS
  <2>7. n = Cardinality(warm) + Cardinality(post)
    BY <2>2, <2>3, <2>4, <2>5, <2>6
  <2> HIDE DEF warm, post, n, rc
  <2> QED
    BY <1>2, <1>3, <2>7
<1>6. rc.required = Larger(MinFree, 2 * rc.rate * Duration) /\ rc.free >= rc.required /\ rc.checked >= rc.stops
  <2>1. n \in Nat
    BY RecordedFacts
  <2> QED
    BY <1>1, <1>2, <2>1 DEF required_bytes, WithinThresholds
<1>7. rc.count > 0 /\ rc.rate > 0 /\ rc.count = rc.rate * rc.metrics.total
  BY <1>2 DEF Passing
<1>8. metrics_are_semantic(rc.metrics, rc)
  BY <1>2, PassMetrics
<1>9. (\A s \in Stages : rc.stages[s] = "SUCCEEDED") <=> r.disk.stages = Succeeded
  <2>1. r.disk.stages \in [Stages -> {"SUCCEEDED", "FAILED", "NOT_ATTEMPTED"}]
    BY DiskShape DEF RecordedRun
  <2> QED
    BY <1>2, <2>1 DEF Succeeded
<1> HIDE DEF rc
<1>10. verify_receipt_semantics(rc) <=> \A s \in Stages : rc.stages[s] = "SUCCEEDED"
  BY <1>2, <1>3, <1>4, <1>5, <1>6, <1>7, <1>8 DEF verify_receipt_semantics
<1> QED
  BY <1>2, <1>6, <1>9, <1>10 DEF rc

LEMMA GuardVerified ==
  ASSUME NEW i \in Nat, i >= 1
  PROVE  LET rc == scrubbed_receipt({"PRIVACY_STOP"}, i, 1)
         IN rc.outcome = "NO_GO" /\ rc.code = "PRIVACY_STOP" /\ rc.stops = 1 /\ verify_receipt_semantics(rc)
<1> DEFINE rc == scrubbed_receipt({"PRIVACY_STOP"}, i, 1)
<1>1. /\ rc.outcome = "NO_GO" /\ rc.code = "PRIVACY_STOP" /\ rc.counts = {"PRIVACY_STOP"} /\ rc.checked = i /\ rc.stops = 1
      /\ rc.warm = NoFrames /\ rc.acc = NoFrames /\ rc.required = 0 /\ rc.free = 0 /\ rc.count = 0 /\ rc.rate = 0
      /\ rc.stages = [s \in Stages |-> "NOT_ATTEMPTED"]
  BY DEF scrubbed_receipt
<1>2. accounting_is_semantic(NoFrames)
  BY DEF NoFrames, accounting_is_semantic
<1> HIDE DEF rc
<1>3. verify_privacy_stop(rc)
  BY <1>1 DEF verify_privacy_stop
<1>4. verify_receipt_semantics(rc)
  BY <1>1, <1>2, <1>3 DEF verify_receipt_semantics
<1> QED
  BY <1>1, <1>4 DEF rc

------------------------------------------------------------------------------
(* The evaluator: its runs. *)

\* The receipts an evaluation of a run can return.
Returned(r, rc) ==
  \/ rc = judge(r)
  \/ \E i \in 1 .. Len(r.frames) : rc = scrubbed_receipt({"PRIVACY_STOP"}, i, 1)
  \/ \E code : rc = BareRefusal(r, code, 0)

\* While frames arrive the request is a recorded run; afterwards it stays, and the receipt is one of its own.
EvaluationInv ==
  /\ cReq \in RecordedRun
  /\ cPc \in {"capture", "inspect", "release", "done"}
  /\ cPc \in {"release", "done"} => Returned(cReq, cReceipt)

LEMMA EvaluationInit == ContractInit => EvaluationInv
<1> SUFFICES ASSUME ContractInit PROVE EvaluationInv
  OBVIOUS
<1>1. MaxTime \in Nat /\ MaxTime - 1 \in Nat
  BY ContractAssumption
<1>2. <<>> \in Seq(RecordedFrames) /\ <<>> \in Injected /\ GoodDisk \in Disks
  BY DEF Injected, Disks
<1>3. cReq \in RecordedRun
  <2>1. \/ cReq \in [frames : {<<>>}, end : {MaxTime}, disk : Disks, injected : {<<>>}]
        \/ cReq \in [frames : {<<>>}, end : {MaxTime}, disk : {GoodDisk}, injected : Injected]
        \/ cReq \in [frames : {<<>>}, end : {MaxTime - 1}, disk : {GoodDisk}, injected : {<<>>}]
    BY DEF ContractInit
  <2>2. [frames : {<<>>}, end : {MaxTime}, disk : Disks, injected : {<<>>}] \subseteq RecordedRun
    BY <1>1, <1>2 DEF RecordedRun
  <2>3. [frames : {<<>>}, end : {MaxTime}, disk : {GoodDisk}, injected : Injected] \subseteq RecordedRun
    BY <1>1, <1>2 DEF RecordedRun
  <2>4. [frames : {<<>>}, end : {MaxTime - 1}, disk : {GoodDisk}, injected : {<<>>}] \subseteq RecordedRun
    BY <1>1, <1>2 DEF RecordedRun
  <2> QED
    BY <2>1, <2>2, <2>3, <2>4
<1> QED
  BY <1>3 DEF ContractInit, EvaluationInv

LEMMA EvaluationStep == EvaluationInv /\ [ContractNext]_contractVars => EvaluationInv'
<1> SUFFICES ASSUME EvaluationInv, [ContractNext]_contractVars PROVE EvaluationInv'
  OBVIOUS
<1> USE DEF EvaluationInv
<1>1. CASE capture_frame
  <2>1. PICK f \in Frames : cReq' = [cReq EXCEPT !.frames = Append(@, f)]
    BY <1>1 DEF capture_frame
  <2>2. cReq.frames \in Seq(RecordedFrames) /\ f \in RecordedFrames
    BY FramesRecorded DEF RecordedRun
  <2>3. Append(cReq.frames, f) \in Seq(RecordedFrames)
    BY <2>2
  <2>4. cReq' \in RecordedRun
    BY <2>1, <2>3 DEF RecordedRun
  <2> QED
    BY <1>1, <2>4 DEF capture_frame
<1>2. CASE acquire_owner
  BY <1>2 DEF acquire_owner, Returned, BareRefusal
<1>3. CASE guard_stops
  BY <1>3 DEF guard_stops, Returned
<1>4. CASE evaluate_under_lease
  BY <1>4 DEF evaluate_under_lease, Returned, BareRefusal
<1>5. CASE release_owner
  <2>1. cReq' = cReq /\ cPc' = "done" /\ cPc = "release"
    BY <1>5 DEF release_owner
  <2>2. cReceipt' = cReceipt \/ cReceipt' = BareRefusal(cReq, "SCHEMA_INCOMPATIBLE", 0)
    BY <1>5 DEF release_owner, BareRefusal
  <2>3. Returned(cReq, cReceipt')
    BY <2>1, <2>2 DEF Returned
  <2> QED
    BY <2>1, <2>3
<1>6. CASE UNCHANGED contractVars
  BY <1>6 DEF contractVars
<1> QED
  BY <1>1, <1>2, <1>3, <1>4, <1>5, <1>6 DEF ContractNext

LEMMA EvaluationIsExact == EvaluationInv => EvaluationExact
<1> SUFFICES ASSUME EvaluationInv, cPc \in {"release", "done"}
             PROVE  /\ cReceipt.outcome = "PASS" => Acceptable(cReq) /\ cReceipt.checked = Len(cReq.frames)
                    /\ Acceptable(cReq) => judge(cReq).outcome = "PASS"
                    /\ verify_receipt_semantics(cReceipt) <=>
                         IF cReceipt.code = "PRIVACY_STOP" THEN cReceipt.stops = 1
                         ELSE /\ cReq.disk.free >= required_bytes(cReq)
                              /\ cReceipt.outcome = "PASS" => cReq.disk.stages = Succeeded
  BY DEF EvaluationExact
<1>1. cReq \in RecordedRun /\ Returned(cReq, cReceipt)
  BY DEF EvaluationInv
<1> DEFINE Declined(rc) == /\ rc.outcome = "NO_GO" /\ rc.stops = 0
                           /\ verify_receipt_semantics(rc) <=> rc.code # "PRIVACY_STOP" /\ cReq.disk.free >= required_bytes(cReq)
<1>2. \A code, c : c \in Nat => Declined(BareRefusal(cReq, code, c))
  BY <1>1, NothingAccounted, RefusalVerified DEF BareRefusal
<1>3. Len(cReq.frames) \in Nat
  BY <1>1, RecordedFacts
<1>4. ASSUME InTime(cReq) PROVE \A code, m : Declined(Refusal(cReq, code, m))
  <2>1. accounting_is_semantic(accounting(cReq, warmup_of(cReq))) /\ accounting_is_semantic(accounting(cReq, post_of(cReq)))
    BY <1>1, <1>4, PartsAccounted, PostParts
  <2> QED
    BY <1>1, <1>3, <2>1, RefusalVerified DEF Refusal
<1>5. IF Passing(cReq) THEN judge(cReq) = PassReceipt(cReq) ELSE Declined(judge(cReq))
  BY <1>1, <1>2, <1>3, <1>4, JudgeCases
<1>6. Acceptable(cReq) => judge(cReq).outcome = "PASS"
  BY <1>1, <1>5, PassVerified, PassingIffAcceptable
<1>7. ASSUME Declined(cReceipt)
      PROVE  /\ cReceipt.outcome = "PASS" => Acceptable(cReq) /\ cReceipt.checked = Len(cReq.frames)
             /\ verify_receipt_semantics(cReceipt) <=>
                  IF cReceipt.code = "PRIVACY_STOP" THEN cReceipt.stops = 1
                  ELSE /\ cReq.disk.free >= required_bytes(cReq)
                       /\ cReceipt.outcome = "PASS" => cReq.disk.stages = Succeeded
  BY <1>7
<1>8. CASE cReceipt = judge(cReq) /\ Passing(cReq)
  <2>1. cReceipt = PassReceipt(cReq)
    BY <1>5, <1>8
  <2> QED
    BY <1>1, <1>6, <1>8, <2>1, PassVerified, PassingIffAcceptable
<1>9. CASE cReceipt = judge(cReq) /\ ~ Passing(cReq)
  <2>1. Declined(cReceipt)
    BY <1>5, <1>9
  <2> HIDE DEF Declined
  <2> QED
    BY <1>6, <1>7, <2>1
<1>10. CASE \E code : cReceipt = BareRefusal(cReq, code, 0)
  <2>1. Declined(cReceipt)
    BY <1>2, <1>10
  <2> HIDE DEF Declined
  <2> QED
    BY <1>6, <1>7, <2>1
<1>11. CASE \E i \in 1 .. Len(cReq.frames) : cReceipt = scrubbed_receipt({"PRIVACY_STOP"}, i, 1)
  <2>1. cReceipt.outcome = "NO_GO" /\ cReceipt.code = "PRIVACY_STOP" /\ cReceipt.stops = 1 /\ verify_receipt_semantics(cReceipt)
    BY <1>3, <1>11, GuardVerified
  <2> QED
    BY <1>6, <2>1
<1> QED
  BY <1>1, <1>8, <1>9, <1>10, <1>11 DEF Returned

\* A pass is of an acceptable run that was inspected to its last frame, an acceptable run
\* passes, and the verifier decides as the text of EvaluationExact says (evaluate,
\* verify_receipt_semantics).
THEOREM EvaluationExactHolds == ContractSpec => []EvaluationExact
<1>1. ContractSpec => []EvaluationInv
  BY EvaluationInit, EvaluationStep, PTL DEF ContractSpec
<1> QED
  BY <1>1, EvaluationIsExact, PTL

------------------------------------------------------------------------------
(* Lists of measurements. *)

\* Counting does not depend on where the counted places begin.
LEMMA ShiftedCount ==
  ASSUME NEW k \in Nat, NEW m \in Nat, NEW B \in SUBSET (1 .. m)
  PROVE  IsFiniteSet(B) /\ Cardinality(B) \in Nat /\ Cardinality({k + j : j \in B}) = Cardinality(B)
<1> DEFINE C == {k + j : j \in B}
           shift == [j \in B |-> k + j]
<1>1. IsFiniteSet(B) /\ Cardinality(B) \in Nat
  <2>1. 1 \in Int /\ m \in Int
    OBVIOUS
  <2>2. IsFiniteSet(1 .. m)
    BY <2>1, FS_Interval
  <2> QED
    BY <2>2, FS_Subset, FS_CardinalityType
<1>2. \A i, j \in B : k + i = k + j => i = j
  OBVIOUS
<1>3. shift \in [B -> C]
  OBVIOUS
<1>4. shift \in Injection(B, C)
  BY <1>2, <1>3 DEF Injection, IsInjective
<1>5. shift \in Surjection(B, C)
  BY <1>3 DEF Surjection
<1>6. shift \in Bijection(B, C)
  BY <1>4, <1>5 DEF Bijection
<1>7. ExistsBijection(B, C)
  BY <1>6 DEF ExistsBijection
<1> HIDE DEF C
<1>8. Cardinality(C) = Cardinality(B)
  BY <1>1, <1>7, FS_Bijection
<1> QED
  BY <1>1, <1>8 DEF C

\* The rank of a list is within a limit exactly when the share above the limit is small enough.
LEMMA RankOfList ==
  ASSUME NEW b \in Nat, NEW q \in Seq(0 .. b), q # <<>>, NEW p \in 1 .. 100, NEW limit \in Nat
  PROVE  /\ nearest_rank(q, p) \in Nat
         /\ nearest_rank(q, p) <= limit
              <=> Cardinality({j \in 1 .. Len(q) : q[j] > limit}) * 100 <= (100 - p) * Len(q)
<1> DEFINE D == 1 .. Len(q)
           Within == {j \in D : q[j] <= limit}
           Above == {j \in D : q[j] > limit}
<1>1. Len(q) \in Nat /\ Len(q) # 0 /\ DOMAIN q = D /\ q \in [D -> 0 .. b]
  OBVIOUS
<1>2. IsFiniteSet(D) /\ Cardinality(D) = Len(q) /\ D # {}
  <2>1. 1 \in Int /\ Len(q) \in Int /\ ~ (1 > Len(q)) /\ Len(q) - 1 + 1 = Len(q) /\ 1 \in D
    BY <1>1
  <2> QED
    BY <2>1, FS_Interval
<1>3. nearest_rank(q, p) \in 0 .. b /\ (nearest_rank(q, p) <= limit <=> MostWithin(q, limit, p))
  <2> HIDE DEF D
  <2> QED
    BY <1>1, <1>2, RankWithin
<1>4. Within \cup Above = D /\ Within \cap Above = {} /\ Within \in SUBSET D /\ Above \in SUBSET D
  BY <1>1
<1> HIDE DEF Within, Above, D
<1>5. /\ IsFiniteSet(Within) /\ IsFiniteSet(Above) /\ Cardinality(Within) \in Nat /\ Cardinality(Above) \in Nat
      /\ Cardinality(D) = Cardinality(Within) + Cardinality(Above) - Cardinality({})
  BY <1>2, <1>4, FS_Subset, FS_Union, FS_CardinalityType
<1>6. Cardinality(Within) + Cardinality(Above) = Len(q)
  <2>1. \A x, y \in Nat : x + y - 0 = x + y
    OBVIOUS
  <2> QED
    BY <1>2, <1>5, <2>1, FS_EmptySet
<1>7. MostWithin(q, limit, p) <=> 100 * Cardinality(Within) >= p * Len(q)
  BY <1>1, <1>2 DEF MostWithin, Within
<1>8. \A w, a, n \in Nat : w + a = n => (100 * w >= p * n <=> a * 100 <= (100 - p) * n)
  BY SMT
<1>9. 100 * Cardinality(Within) >= p * Len(q) <=> Cardinality(Above) * 100 <= (100 - p) * Len(q)
  BY <1>1, <1>5, <1>6, <1>8
<1>10. nearest_rank(q, p) \in Nat
  BY <1>3
<1> QED
  BY <1>3, <1>7, <1>9, <1>10 DEF Above, D

------------------------------------------------------------------------------
(* The preflight: what the run state holds of the measured frames. *)

RunFailures == {"NONE", "CAPTURE_RUNTIME_EXCEPTION", "CLOCK_REGRESSION", "FRAME_STALLED", "PRIVACY_STOP",
                "POSE_ENGINE_EXCEPTION", "FRAME_READER_EXCEPTION", "INPUT_MALFORMED", "INPUT_UNAVAILABLE"}
RunStates == [first : Int, previous : Int, stamp : Int, delivered : Nat, post : Nat, checked : Nat, stops : 0 .. 1,
              seen : 0 .. 1, backlog : Nat, gaps : Seq(0 .. StallGap), latencies : Seq(0 .. LatencyLimit95 + 1),
              failure : RunFailures \cup {"CLEANUP_INCOMPLETE"}]
TakenFrames == {f \in RunFrames : f.wait >= 0 /\ f.took >= 0}

LEMMA TakenFrame ==
  ASSUME NEW f \in RunFrames
  PROVE  /\ f.at \in Nat /\ f.wait \in Int /\ f.took \in Int /\ f.took <= LatencyLimit95 + 1
         /\ f \in TakenFrames => f.wait \in Nat /\ f.took \in 0 .. LatencyLimit95 + 1
<1>1. /\ MaxRunTime \in Nat /\ MaxRunTime - 1 \in Nat /\ LatencyLimit95 + 1 \in Nat /\ BacklogLimit \in Nat
      /\ -1 <= LatencyLimit95 + 1 /\ 0 <= LatencyLimit95 + 1
  BY RunAssumption
<1>2. /\ f.at \in Nat /\ f.wait \in Int /\ f.took \in {-1, 0, LatencyLimit95 + 1}
  <2>1. CASE f \in [at : 0 .. MaxRunTime, wait : {0}, took : {-1, 0, LatencyLimit95 + 1}, content : {"empty"}]
    BY <1>1, <2>1
  <2>2. CASE f \in [at : {0, MaxRunTime - 1}, wait : {-1, BacklogLimit, BacklogLimit + 1}, took : {0}, content : {"empty"}]
    BY <1>1, <2>2
  <2>3. CASE f \in [at : {0, MaxRunTime - 1}, wait : {0}, took : {0},
                    content : {"face", "face raises", "pose", "pose raises"}]
    <3>1. f.at \in {0, MaxRunTime - 1} /\ f.wait \in {0} /\ f.took \in {0}
      BY <2>3
    <3> QED
      BY <1>1, <3>1
  <2> QED
    BY <2>1, <2>2, <2>3 DEF RunFrames
<1>3. f.took \in Int /\ f.took <= LatencyLimit95 + 1
  BY <1>1, <1>2
<1> QED
  BY <1>1, <1>2, <1>3 DEF TakenFrames

\* The frames of the warm-up, and the first frame that has a gap after it.
Warmed(s, fs) == Len(fs) - s.post
GapBase(s, fs) == IF Warmed(s, fs) = 0 THEN 1 ELSE Warmed(s, fs)

MeasuredFrom(s, fs) ==
  /\ s.delivered = Len(fs) /\ s.post \in 0 .. Len(fs)
  /\ fs = <<>> => s.previous = NoTick /\ s.gaps = <<>> /\ s.latencies = <<>>
  /\ fs # <<>> =>
       /\ s.first = fs[1].at /\ s.previous = fs[Len(fs)].at
       /\ \A i \in 1 .. Len(fs) : fs[i].at - fs[1].at >= RunWarmup <=> i > Warmed(s, fs)
       /\ \A i \in 1 .. Len(fs) - 1 : fs[i + 1].at - fs[i].at \in 1 .. StallGap - 1
       /\ Len(s.latencies) = s.post
       /\ \A j \in 1 .. s.post : s.latencies[j] = fs[Warmed(s, fs) + j].took
       /\ Len(s.gaps) = Len(fs) - GapBase(s, fs)
       /\ \A j \in 1 .. Len(fs) - GapBase(s, fs) :
            s.gaps[j] = fs[GapBase(s, fs) + j].at - fs[GapBase(s, fs) + j - 1].at

\* The backlog is the longest wait.
LongestWait(s, fs) ==
  /\ \A i \in 1 .. Len(fs) : fs[i].wait <= s.backlog
  /\ s.backlog = 0 \/ \E i \in 1 .. Len(fs) : fs[i].wait = s.backlog

LEMMA FrameFailure ==
  ASSUME NEW s, NEW f \in RunFrames
  PROVE  /\ frame_failure(s, f) \in RunFailures
         /\ frame_failure(s, f) = "NONE" =>
              /\ f \in TakenFrames
              /\ s.previous = NoTick => ~ nPc.inWorker
              /\ s.previous # NoTick => ~ (f.at <= s.previous) /\ ~ (f.at - s.previous >= StallGap)
<1>1. f.wait \in Int /\ f.took \in Int
  BY TakenFrame
<1>2. frame_failure(s, f) \in RunFailures
  BY DEF frame_failure, RunFailures
<1>3. frame_failure(s, f) = "NONE" =>
        /\ ~ (f.wait < 0) /\ ~ (f.took < 0)
        /\ s.previous = NoTick => ~ nPc.inWorker
        /\ s.previous # NoTick => ~ (f.at <= s.previous) /\ ~ (f.at - s.previous >= StallGap)
  BY DEF frame_failure
<1> QED
  BY <1>1, <1>2, <1>3 DEF TakenFrames

LEMMA OneMore ==
  ASSUME NEW b \in Nat, NEW q \in Seq(0 .. b), NEW x \in 0 .. b
  PROVE  /\ q \o <<x>> \in Seq(0 .. b) /\ Len(q \o <<x>>) = Len(q) + 1 /\ (q \o <<x>>)[Len(q) + 1] = x
         /\ \A j \in 1 .. Len(q) : (q \o <<x>>)[j] = q[j]
OBVIOUS

\* A measured frame extends what is held of the frames before it.
LEMMA RecordMeasured ==
  ASSUME NEW s \in RunStates, NEW fs \in Seq(TakenFrames), NEW f \in TakenFrames,
         MeasuredFrom(s, fs),
         fs = <<>> => s.first = f.at,
         fs # <<>> => ~ (f.at <= s.previous) /\ ~ (f.at - s.previous >= StallGap)
  PROVE  /\ record(s, f) \in RunStates /\ MeasuredFrom(record(s, f), Append(fs, f))
         /\ record(s, f).backlog = s.backlog /\ record(s, f).failure = s.failure
<1> DEFINE n == Len(fs)
           gs == Append(fs, f)
           t == record(s, f)
           late == f.at - s.first >= RunWarmup
           gap == IF s.previous = NoTick THEN <<>> ELSE <<f.at - s.previous>>
<1>0. /\ RunWarmup \in Nat /\ StallGap \in Nat \ {0} /\ LatencyLimit95 \in Nat /\ TicksPerMs \in Nat \ {0}
  BY RunAssumption
<1>1. /\ f.at \in Nat /\ f.took \in 0 .. LatencyLimit95 + 1 /\ n \in Nat
      /\ \A i \in 1 .. n : fs[i].at \in Nat /\ fs[i].took \in 0 .. LatencyLimit95 + 1
  <2>1. \A i \in 1 .. n : fs[i] \in TakenFrames /\ fs[i] \in RunFrames
    BY DEF TakenFrames
  <2>2. f \in RunFrames
    BY DEF TakenFrames
  <2> QED
    BY <2>1, <2>2, TakenFrame
<1>2. /\ s.first \in Int /\ s.previous \in Int /\ s.delivered \in Nat /\ s.post \in Nat /\ s.checked \in Nat
      /\ s.gaps \in Seq(0 .. StallGap) /\ s.latencies \in Seq(0 .. LatencyLimit95 + 1)
  BY DEF RunStates
<1>3. /\ t.first = s.first /\ t.previous = f.at /\ t.stamp = video_timestamp(s, f) /\ t.delivered = s.delivered + 1
      /\ t.post = (IF late THEN s.post + 1 ELSE s.post) /\ t.checked = s.checked + 1 /\ t.stops = s.stops
      /\ t.seen = s.seen /\ t.backlog = s.backlog /\ t.gaps = (IF late THEN s.gaps \o gap ELSE s.gaps)
      /\ t.latencies = (IF late THEN Append(s.latencies, f.took) ELSE s.latencies) /\ t.failure = s.failure
      /\ t.previous \in Int /\ t.stamp \in Int /\ t.delivered \in Nat /\ t.post \in Nat /\ t.checked \in Nat
           /\ t.gaps \in Seq(0 .. StallGap) /\ t.latencies \in Seq(0 .. LatencyLimit95 + 1) => t \in RunStates
  <2>1. t = [s EXCEPT !.gaps = IF late THEN s.gaps \o gap ELSE s.gaps,
                      !.latencies = IF late THEN Append(s.latencies, f.took) ELSE s.latencies,
                      !.post = IF late THEN s.post + 1 ELSE s.post,
                      !.delivered = s.delivered + 1, !.previous = f.at, !.checked = s.checked + 1,
                      !.stamp = video_timestamp(s, f)]
    BY DEF record
  <2> DEFINE g == IF late THEN s.gaps \o gap ELSE s.gaps
             l == IF late THEN Append(s.latencies, f.took) ELSE s.latencies
             p == IF late THEN s.post + 1 ELSE s.post
             d == s.delivered + 1
             c == s.checked + 1
             m == video_timestamp(s, f)
  <2>2. t = [s EXCEPT !.gaps = g, !.latencies = l, !.post = p, !.delivered = d, !.previous = f.at, !.checked = c, !.stamp = m]
    BY <2>1
  <2> HIDE DEF t, g, l, p, d, c, m
  <2>3. /\ t.first = s.first /\ t.previous = f.at /\ t.stamp = m /\ t.delivered = d /\ t.post = p /\ t.checked = c
        /\ t.stops = s.stops /\ t.seen = s.seen /\ t.backlog = s.backlog /\ t.gaps = g /\ t.latencies = l
        /\ t.failure = s.failure
        /\ f.at \in Int /\ m \in Int /\ d \in Nat /\ p \in Nat /\ c \in Nat /\ g \in Seq(0 .. StallGap)
             /\ l \in Seq(0 .. LatencyLimit95 + 1) => t \in RunStates
    <3>1. /\ t.first = s.first /\ t.previous = f.at /\ t.stamp = m /\ t.delivered = d /\ t.post = p /\ t.checked = c
          /\ t.stops = s.stops /\ t.seen = s.seen /\ t.backlog = s.backlog /\ t.gaps = g /\ t.latencies = l
          /\ t.failure = s.failure
      BY <2>2 DEF RunStates
    <3>2. ASSUME f.at \in Int, m \in Int, d \in Nat, p \in Nat, c \in Nat, g \in Seq(0 .. StallGap),
                 l \in Seq(0 .. LatencyLimit95 + 1)
          PROVE  t \in RunStates
      BY <2>2, <3>2 DEF RunStates
    <3> QED
      BY <3>1, <3>2
  <2>4. g = (IF late THEN s.gaps \o gap ELSE s.gaps) /\ l = (IF late THEN Append(s.latencies, f.took) ELSE s.latencies)
        /\ p = (IF late THEN s.post + 1 ELSE s.post) /\ d = s.delivered + 1 /\ c = s.checked + 1 /\ m = video_timestamp(s, f)
    BY DEF g, l, p, d, c, m
  <2> HIDE DEF late, gap
  <2> QED
    BY <2>3, <2>4
<1>4. gs \in Seq(TakenFrames) /\ Len(gs) = n + 1 /\ gs[n + 1] = f /\ \A i \in 1 .. n : gs[i] = fs[i]
  OBVIOUS
<1> HIDE DEF t, gs
<1>5. n = 0 <=> fs = <<>>
  OBVIOUS
<1>6. s.delivered = n /\ s.post \in 0 .. n
  BY <1>1, <1>5 DEF MeasuredFrom
<1>7. /\ gs[1].at = s.first /\ gs[1].at \in Nat
      /\ fs # <<>> => /\ s.previous = fs[n].at /\ s.previous \in Nat /\ n >= 1
                      /\ f.at - s.previous \in 1 .. StallGap - 1
  <2>1. CASE fs = <<>>
    BY <2>1, <1>1, <1>4, <1>5
  <2>2. CASE fs # <<>>
    <3>1. s.first = fs[1].at /\ s.previous = fs[n].at /\ n >= 1
      BY <2>2, <1>1, <1>5 DEF MeasuredFrom
    <3>2. s.previous \in Nat /\ gs[1] = fs[1] /\ fs[1].at \in Nat
      BY <1>1, <1>4, <3>1
    <3>3. f.at - s.previous \in 1 .. StallGap - 1
      BY <1>0, <1>1, <2>2, <3>2
    <3> QED
      BY <3>1, <3>2, <3>3
  <2> QED
    BY <2>1, <2>2
<1>8. \A i \in 1 .. n : fs[i].at - s.first >= RunWarmup <=> i > n - s.post
  <2>1. CASE fs = <<>>
    BY <2>1, <1>5
  <2>2. CASE fs # <<>>
    BY <2>2, <1>1 DEF MeasuredFrom, Warmed
  <2> QED
    BY <2>1, <2>2
<1>9. ~ late => s.post = 0
  <2> SUFFICES ASSUME s.post # 0 PROVE late
    OBVIOUS
  <2>1. n >= 1 /\ n \in 1 .. n /\ n > n - s.post /\ fs # <<>>
    BY <1>1, <1>5, <1>6
  <2>2. s.previous - s.first >= RunWarmup
    BY <1>7, <1>8, <2>1
  <2>3. \A x, y, z, w, g \in Int : y - z >= w /\ x - y \in 1 .. g - 1 => x - z >= w
    OBVIOUS
  <2>4. f.at - s.previous \in 1 .. StallGap - 1 /\ f.at \in Int /\ s.previous \in Int /\ s.first \in Int
        /\ StallGap \in Int /\ RunWarmup \in Int
    BY <1>0, <1>1, <1>2, <1>7, <2>1
  <2> QED
    BY <2>2, <2>3, <2>4
<1>10. t.post = (IF late THEN s.post + 1 ELSE 0) /\ t.post \in 0 .. n + 1 /\ t.post \in Nat
  BY <1>1, <1>3, <1>6, <1>9
<1>11. Warmed(t, gs) = IF late THEN n - s.post ELSE n + 1
  BY <1>1, <1>4, <1>6, <1>10 DEF Warmed
<1>12. \A i \in 1 .. n + 1 : gs[i].at - gs[1].at >= RunWarmup <=> i > Warmed(t, gs)
  <2> SUFFICES ASSUME NEW i \in 1 .. n + 1 PROVE gs[i].at - gs[1].at >= RunWarmup <=> i > Warmed(t, gs)
    OBVIOUS
  <2>1. CASE i = n + 1
    BY <2>1, <1>1, <1>4, <1>6, <1>7, <1>11
  <2>2. CASE i # n + 1
    <3>1. i \in 1 .. n /\ gs[i] = fs[i]
      BY <2>2, <1>1, <1>4
    <3>2. fs[i].at - s.first >= RunWarmup <=> i > n - s.post
      BY <1>8, <3>1
    <3>3. ~ late => ~ (i > n - s.post)
      BY <1>1, <1>9, <3>1
    <3> QED
      BY <1>1, <1>6, <1>7, <1>11, <3>1, <3>2, <3>3
  <2> QED
    BY <2>1, <2>2
<1>13. \A i \in 1 .. n : gs[i + 1].at - gs[i].at \in 1 .. StallGap - 1
  <2> SUFFICES ASSUME NEW i \in 1 .. n PROVE gs[i + 1].at - gs[i].at \in 1 .. StallGap - 1
    OBVIOUS
  <2>1. CASE i = n
    BY <2>1, <1>1, <1>4, <1>5, <1>7
  <2>2. CASE i # n
    <3>1. i \in 1 .. n - 1 /\ i + 1 \in 1 .. n /\ fs # <<>>
      BY <2>2, <1>1, <1>5
    <3>2. fs[i + 1].at - fs[i].at \in 1 .. StallGap - 1
      BY <3>1 DEF MeasuredFrom
    <3> QED
      BY <1>4, <3>1, <3>2
  <2> QED
    BY <2>1, <2>2
<1>14. Len(s.latencies) = s.post /\ \A j \in 1 .. s.post : s.latencies[j] = fs[n - s.post + j].took
  <2>1. CASE fs = <<>>
    BY <2>1, <1>5, <1>6 DEF MeasuredFrom
  <2>2. CASE fs # <<>>
    BY <2>2 DEF MeasuredFrom, Warmed
  <2> QED
    BY <2>1, <2>2
<1>15. /\ t.latencies \in Seq(0 .. LatencyLimit95 + 1) /\ Len(t.latencies) = t.post
       /\ \A j \in 1 .. t.post : t.latencies[j] = gs[Warmed(t, gs) + j].took
  <2>1. CASE ~ late
    BY <2>1, <1>2, <1>3, <1>9, <1>10, <1>14
  <2>2. CASE late
    <3>1. t.latencies = Append(s.latencies, f.took) /\ t.post = s.post + 1 /\ Warmed(t, gs) = n - s.post
      BY <2>2, <1>3, <1>10, <1>11
    <3>2. t.latencies \in Seq(0 .. LatencyLimit95 + 1) /\ Len(t.latencies) = t.post
      BY <3>1, <1>1, <1>2, <1>14
    <3>3. \A j \in 1 .. s.post : t.latencies[j] = s.latencies[j]
      BY <3>1, <1>2, <1>14
    <3>4. t.latencies[s.post + 1] = f.took
      BY <3>1, <1>2, <1>14
    <3>5. ASSUME NEW j \in 1 .. t.post PROVE t.latencies[j] = gs[Warmed(t, gs) + j].took
      <4>1. CASE j = s.post + 1
        <5>1. Warmed(t, gs) + j = n + 1
          BY <4>1, <3>1, <1>1, <1>6
        <5> QED
          BY <4>1, <5>1, <3>4, <1>4
      <4>2. CASE j # s.post + 1
        <5>1. j \in 1 .. s.post /\ n - s.post + j \in 1 .. n
          <6>1. \A m \in Nat : \A p \in 0 .. m : \A i \in 1 .. p + 1 : i # p + 1 => i \in 1 .. p /\ m - p + i \in 1 .. m
            OBVIOUS
          <6> QED
            BY <4>2, <3>1, <1>1, <1>6, <6>1
        <5>2. gs[n - s.post + j] = fs[n - s.post + j]
          BY <5>1, <1>4
        <5> QED
          BY <5>1, <5>2, <3>1, <3>3, <1>14
      <4> QED
        BY <4>1, <4>2
    <3> QED
      BY <3>2, <3>5
  <2> QED
    BY <2>1, <2>2
<1>16. /\ fs = <<>> => s.gaps = <<>>
       /\ fs # <<>> => /\ Len(s.gaps) = n - GapBase(s, fs)
                       /\ \A j \in 1 .. n - GapBase(s, fs) : s.gaps[j] = fs[GapBase(s, fs) + j].at - fs[GapBase(s, fs) + j - 1].at
                       /\ GapBase(s, fs) \in 1 .. n
  <2>1. fs # <<>> => GapBase(s, fs) \in 1 .. n
    BY <1>1, <1>5, <1>6 DEF GapBase, Warmed
  <2> QED
    BY <2>1 DEF MeasuredFrom
<1>17. /\ t.gaps \in Seq(0 .. StallGap) /\ Len(t.gaps) = n + 1 - GapBase(t, gs)
       /\ \A j \in 1 .. n + 1 - GapBase(t, gs) : t.gaps[j] = gs[GapBase(t, gs) + j].at - gs[GapBase(t, gs) + j - 1].at
  <2>1. CASE ~ late
    <3>1. GapBase(t, gs) = n + 1
      BY <2>1, <1>1, <1>11 DEF GapBase
    <3>2. t.gaps = <<>>
      <4>1. t.gaps = s.gaps
        BY <2>1, <1>3
      <4>2. CASE fs = <<>>
        BY <4>1, <4>2, <1>16
      <4>3. CASE fs # <<>>
        <5>1. GapBase(s, fs) = n
          BY <2>1, <4>3, <1>1, <1>5, <1>9 DEF GapBase, Warmed
        <5>2. Len(s.gaps) = 0
          BY <4>3, <5>1, <1>1, <1>16
        <5> QED
          BY <4>1, <5>2, <1>2
      <4> QED
        BY <4>2, <4>3
    <3> QED
      BY <3>1, <3>2, <1>1
  <2>2. CASE late /\ fs = <<>>
    <3>1. n = 0 /\ s.post = 0 /\ GapBase(t, gs) = 1
      BY <2>2, <1>5, <1>6, <1>11 DEF GapBase
    <3>2. t.gaps = <<>>
      BY <2>2, <1>3, <1>16 DEF MeasuredFrom
    <3> QED
      BY <3>1, <3>2
  <2>3. CASE late /\ fs # <<>>
    <3> DEFINE b == GapBase(s, fs)
               x == f.at - s.previous
    <3>1. GapBase(t, gs) = b /\ b \in 1 .. n /\ Len(s.gaps) = n - b
      BY <2>3, <1>11, <1>16 DEF GapBase, Warmed
    <3>2. s.previous # NoTick /\ x \in 0 .. StallGap
      BY <2>3, <1>0, <1>7 DEF NoTick
    <3>3. t.gaps = s.gaps \o <<x>>
      BY <2>3, <3>2, <1>3
    <3>4. t.gaps \in Seq(0 .. StallGap) /\ Len(t.gaps) = n - b + 1 /\ t.gaps[n - b + 1] = x
          /\ \A j \in 1 .. n - b : t.gaps[j] = s.gaps[j]
      <4> HIDE DEF x, b
      <4>1. n - b \in Nat
        BY <1>1, <3>1
      <4>2. n - b = Len(s.gaps) /\ StallGap \in Nat /\ s.gaps \in Seq(0 .. StallGap)
        BY <1>0, <1>2, <3>1
      <4> QED
        BY <3>2, <3>3, <4>2, OneMore
    <3>5. ASSUME NEW j \in 1 .. n + 1 - b PROVE t.gaps[j] = gs[b + j].at - gs[b + j - 1].at
      <4>1. CASE j = n - b + 1
        <5>1. b + j = n + 1 /\ b + j - 1 = n /\ n \in 1 .. n
          <6> HIDE DEF b, x
          <6> QED
            BY <4>1, <3>1, <1>1
        <5> QED
          BY <2>3, <4>1, <5>1, <3>4, <1>4, <1>7
      <4>2. CASE j # n - b + 1
        <5>1. j \in 1 .. n - b /\ b + j \in 1 .. n /\ b + j - 1 \in 1 .. n
          BY <4>2, <3>1, <1>1
        <5>2. gs[b + j] = fs[b + j] /\ gs[b + j - 1] = fs[b + j - 1]
          BY <5>1, <1>4
        <5> QED
          BY <2>3, <5>1, <5>2, <3>4, <1>16
      <4> QED
        BY <4>1, <4>2
    <3>6. n + 1 - b = n - b + 1
      BY <1>1, <3>1
    <3> HIDE DEF b, x
    <3> QED
      BY <3>1, <3>4, <3>5, <3>6
  <2> QED
    BY <2>1, <2>2, <2>3
<1>18. t.stamp \in Int
  <2>1. \A a \in Int, d \in Nat \ {0} : a \div d \in Int
    OBVIOUS
  <2>2. f.at - s.first \in Int
    BY <1>1, <1>2
  <2>3. (f.at - s.first) \div TicksPerMs \in Int
    BY <1>0, <2>1, <2>2
  <2> QED
    BY <1>3, <2>3 DEF video_timestamp
<1>19. t \in RunStates
  <2>1. t.previous = f.at /\ t.delivered = s.delivered + 1 /\ t.checked = s.checked + 1
    BY <1>3
  <2>3. f.at \in Int /\ s.delivered + 1 \in Nat /\ s.checked + 1 \in Nat
    BY <1>1, <1>2
  <2>2. t.previous \in Int /\ t.delivered \in Nat /\ t.checked \in Nat
    BY <2>1, <2>3
  <2> QED
    BY <1>3, <1>10, <1>15, <1>17, <1>18, <2>2
<1>20. MeasuredFrom(t, gs)
  <2>1. gs # <<>> /\ t.delivered = n + 1 /\ t.first = gs[1].at /\ t.previous = gs[n + 1].at
    BY <1>3, <1>4, <1>6, <1>7
  <2>2. n + 1 - 1 = n
    BY <1>1
  <2>8. GapBase(t, gs) \in Int /\ n \in Int
    BY <1>1, <1>6, <1>11 DEF GapBase
  <2> HIDE DEF n, late, gap
  <2>4. Len(gs) = n + 1 /\ Len(gs) - 1 = n
    BY <1>1, <1>4, <2>2
  <2>5. \A i \in 1 .. Len(gs) - 1 : gs[i + 1].at - gs[i].at \in 1 .. StallGap - 1
    BY <1>13, <2>4
  <2>3. /\ t.delivered = Len(gs) /\ t.post \in 0 .. Len(gs) /\ t.previous = gs[Len(gs)].at
        /\ \A i \in 1 .. Len(gs) : gs[i].at - gs[1].at >= RunWarmup <=> i > Warmed(t, gs)
    BY <1>10, <1>12, <2>1, <2>4
  <2>6. n + 1 = Len(gs)
    BY <2>4
  <2>7. /\ Len(t.gaps) = Len(gs) - GapBase(t, gs)
        /\ \A j \in 1 .. Len(gs) - GapBase(t, gs) : t.gaps[j] = gs[GapBase(t, gs) + j].at - gs[GapBase(t, gs) + j - 1].at
    <3>1. Len(t.gaps) = Len(gs) - GapBase(t, gs)
      BY <1>17, <2>6, <2>8
    <3>2. ASSUME NEW j \in 1 .. Len(gs) - GapBase(t, gs)
          PROVE  t.gaps[j] = gs[GapBase(t, gs) + j].at - gs[GapBase(t, gs) + j - 1].at
      <4>1. j \in 1 .. n + 1 - GapBase(t, gs)
        BY <2>6, <2>8
      <4> QED
        BY <1>17, <4>1
    <3> QED
      BY <3>1, <3>2
  <2> QED
    BY <1>15, <2>1, <2>3, <2>5, <2>7 DEF MeasuredFrom
<1> QED
  BY <1>3, <1>19, <1>20 DEF t, gs

LateFrames(fs) == {i \in 1 .. Len(fs) : fs[i].at - fs[1].at >= RunWarmup}

\* What a recorded frame is.
LEMMA TakenFacts ==
  ASSUME NEW fs \in Seq(TakenFrames)
  PROVE  /\ Len(fs) \in Nat /\ (fs # <<>> => Len(fs) >= 1)
         /\ \A i \in 1 .. Len(fs) : fs[i].at \in Nat /\ fs[i].wait \in Nat /\ fs[i].took \in 0 .. LatencyLimit95 + 1
<1>1. \A i \in 1 .. Len(fs) : fs[i] \in TakenFrames /\ fs[i] \in RunFrames
  BY DEF TakenFrames
<1> QED
  BY <1>1, TakenFrame

\* The late frames are the last ones, as many as were counted.
LEMMA LateMeasured ==
  ASSUME NEW s \in RunStates, NEW fs \in Seq(TakenFrames), fs # <<>>, MeasuredFrom(s, fs)
  PROVE  /\ LateFrames(fs) = {Warmed(s, fs) + j : j \in 1 .. s.post} /\ Cardinality(LateFrames(fs)) = s.post
         /\ LateFrames(fs) \ {1} = {GapBase(s, fs) + j : j \in 1 .. Len(s.gaps)}
         /\ Cardinality(LateFrames(fs) \ {1}) = Len(s.gaps)
         /\ Warmed(s, fs) \in Nat /\ GapBase(s, fs) \in 1 .. Len(fs) /\ s.post \in Nat /\ Len(s.gaps) \in Nat
<1> DEFINE n == Len(fs)
           w == Warmed(s, fs)
           b == GapBase(s, fs)
<1>1. n \in Nat /\ n >= 1 /\ s.post \in 0 .. n /\ w = n - s.post /\ Len(s.gaps) = n - b
  BY TakenFacts DEF MeasuredFrom, Warmed
<1>2. w \in 0 .. n /\ b = (IF w = 0 THEN 1 ELSE w) /\ b \in 1 .. n
  BY <1>1 DEF GapBase
<1>3. LateFrames(fs) = {i \in 1 .. n : i > w}
  BY DEF LateFrames, MeasuredFrom
<1> HIDE DEF n, w, b
<1>4. {i \in 1 .. n : i > w} = {w + j : j \in 1 .. s.post}
  <2>3. \A k \in Nat : \A y \in 0 .. k : \A i \in 1 .. k : i > k - y => i - (k - y) \in 1 .. y /\ (k - y) + (i - (k - y)) = i
    OBVIOUS
  <2>1. \A i \in 1 .. n : i > w => i - w \in 1 .. s.post /\ w + (i - w) = i
    BY <1>1, <2>3
  <2>2. \A j \in 1 .. s.post : w + j \in 1 .. n /\ w + j > w
    BY <1>1, <1>2
  <2> QED
    BY <2>1, <2>2
<1>5. {i \in 1 .. n : i > w} \ {1} = {b + j : j \in 1 .. n - b}
  <2>3. \A k \in Nat : \A y \in 0 .. k : \A c \in 1 .. k : c = (IF y = 0 THEN 1 ELSE y) =>
          /\ \A i \in 1 .. k : i > y /\ i # 1 => i - c \in 1 .. k - c /\ c + (i - c) = i
          /\ \A j \in 1 .. k - c : c + j \in 1 .. k /\ c + j > y /\ c + j # 1
    OBVIOUS
  <2>1. \A i \in 1 .. n : i > w /\ i # 1 => i - b \in 1 .. n - b /\ b + (i - b) = i
    BY <1>1, <1>2, <2>3
  <2>2. \A j \in 1 .. n - b : b + j \in 1 .. n /\ b + j > w /\ b + j # 1
    BY <1>1, <1>2, <2>3
  <2> QED
    BY <2>1, <2>2
<1>6. \A m \in Nat : Cardinality(1 .. m) = m
  <2> SUFFICES ASSUME NEW m \in Nat PROVE Cardinality(1 .. m) = m
    OBVIOUS
  <2>1. 1 \in Int /\ m \in Int
    OBVIOUS
  <2>2. Cardinality(1 .. m) = IF 1 > m THEN 0 ELSE m - 1 + 1
    BY <2>1, FS_Interval
  <2> QED
    BY <2>2
<1>7. \A k, m \in Nat : Cardinality({k + j : j \in 1 .. m}) = m
  <2> SUFFICES ASSUME NEW k \in Nat, NEW m \in Nat PROVE Cardinality({k + j : j \in 1 .. m}) = m
    OBVIOUS
  <2>1. Cardinality({k + j : j \in 1 .. m}) = Cardinality(1 .. m)
    BY ShiftedCount
  <2> QED
    BY <1>6, <2>1
<1>8. w \in Nat /\ b \in Nat /\ s.post \in Nat /\ n - b \in Nat /\ Len(s.gaps) = n - b
  BY <1>1, <1>2
<1>9. Cardinality({w + j : j \in 1 .. s.post}) = s.post /\ Cardinality({b + j : j \in 1 .. n - b}) = n - b
  BY <1>7, <1>8
<1> QED
  BY <1>2, <1>3, <1>4, <1>5, <1>8, <1>9 DEF n, w, b

LEMMA LatencyShare ==
  ASSUME NEW s \in RunStates, NEW fs \in Seq(TakenFrames), fs # <<>>, MeasuredFrom(s, fs), s.latencies # <<>>,
         NEW p \in 1 .. 100, NEW limit \in Nat
  PROVE  /\ nearest_rank(s.latencies, p) \in Nat
         /\ nearest_rank(s.latencies, p) <= limit
              <=> Cardinality({i \in LateFrames(fs) : fs[i].took > limit}) * 100 <= (100 - p) * Cardinality(LateFrames(fs))
<1> DEFINE w == Warmed(s, fs)
           B == {j \in 1 .. s.post : s.latencies[j] > limit}
<1>1. /\ LateFrames(fs) = {w + j : j \in 1 .. s.post} /\ Cardinality(LateFrames(fs)) = s.post
      /\ w \in Nat /\ s.post \in Nat
  BY LateMeasured
<1>2. Len(s.latencies) = s.post /\ \A j \in 1 .. s.post : s.latencies[j] = fs[w + j].took
  BY DEF MeasuredFrom
<1>3. {i \in LateFrames(fs) : fs[i].took > limit} = {w + j : j \in B}
  BY <1>1, <1>2
<1>4. Cardinality({w + j : j \in B}) = Cardinality(B)
  <2> HIDE DEF w
  <2>1. B \in SUBSET (1 .. s.post)
    OBVIOUS
  <2> HIDE DEF B
  <2> QED
    BY <1>1, <2>1, ShiftedCount
<1>5. LatencyLimit95 + 1 \in Nat /\ s.latencies \in Seq(0 .. LatencyLimit95 + 1)
  BY RunAssumption DEF RunStates
<1>6. /\ nearest_rank(s.latencies, p) \in Nat
      /\ nearest_rank(s.latencies, p) <= limit
           <=> Cardinality({j \in 1 .. Len(s.latencies) : s.latencies[j] > limit}) * 100 <= (100 - p) * Len(s.latencies)
  BY <1>5, RankOfList
<1> QED
  BY <1>1, <1>2, <1>3, <1>4, <1>6

LEMMA GapShare ==
  ASSUME NEW s \in RunStates, NEW fs \in Seq(TakenFrames), fs # <<>>, MeasuredFrom(s, fs), s.gaps # <<>>,
         NEW p \in 1 .. 100, NEW limit \in Nat
  PROVE  /\ nearest_rank(s.gaps, p) \in Nat
         /\ nearest_rank(s.gaps, p) <= limit
              <=> Cardinality({i \in LateFrames(fs) \ {1} : fs[i].at - fs[i - 1].at > limit}) * 100
                    <= (100 - p) * Cardinality(LateFrames(fs) \ {1})
<1> DEFINE b == GapBase(s, fs)
           m == Len(s.gaps)
           B == {j \in 1 .. m : s.gaps[j] > limit}
<1>1. /\ LateFrames(fs) \ {1} = {b + j : j \in 1 .. m} /\ Cardinality(LateFrames(fs) \ {1}) = m
      /\ b \in Nat /\ m \in Nat
  <2>1. b \in 1 .. Len(fs) /\ Len(fs) \in Nat
    BY LateMeasured, TakenFacts
  <2>2. b \in Nat
    BY <2>1
  <2> QED
    BY <2>2, LateMeasured
<1>2. \A j \in 1 .. m : s.gaps[j] = fs[b + j].at - fs[b + j - 1].at
  <2>1. m = Len(fs) - b
    BY DEF MeasuredFrom
  <2>2. \A j \in 1 .. Len(fs) - b : s.gaps[j] = fs[b + j].at - fs[b + j - 1].at
    BY DEF MeasuredFrom
  <2> HIDE DEF b, m
  <2> QED
    BY <2>1, <2>2
<1> HIDE DEF b
<1>3. {i \in LateFrames(fs) \ {1} : fs[i].at - fs[i - 1].at > limit} = {b + j : j \in B}
  <2> HIDE DEF m
  <2>1. \A j \in 1 .. m : j \in B <=> s.gaps[j] > limit
    OBVIOUS
  <2>2. B \in SUBSET (1 .. m)
    OBVIOUS
  <2> HIDE DEF B
  <2>3. ASSUME NEW j \in 1 .. m
        PROVE  (fs[b + j].at - fs[b + j - 1].at > limit) <=> j \in B
    <3>1. s.gaps[j] = fs[b + j].at - fs[b + j - 1].at
      BY <1>2
    <3>2. j \in B <=> s.gaps[j] > limit
      BY <2>1
    <3> QED
      BY <3>1, <3>2
  <2>4. ASSUME NEW i \in LateFrames(fs) \ {1}, fs[i].at - fs[i - 1].at > limit PROVE i \in {b + j : j \in B}
    <3>1. PICK j \in 1 .. m : i = b + j
      BY <1>1
    <3>2. j \in B
      <4>1. b + j - 1 = i - 1
        BY <1>1, <3>1
      <4> QED
        BY <2>3, <2>4, <3>1, <4>1
    <3> QED
      BY <3>1, <3>2
  <2>5. ASSUME NEW j \in B PROVE b + j \in LateFrames(fs) \ {1} /\ fs[b + j].at - fs[(b + j) - 1].at > limit
    <3>1. b + j - 1 = (b + j) - 1 /\ j \in 1 .. m
      BY <1>1, <2>2
    <3> QED
      BY <1>1, <2>3, <3>1
  <2> DEFINE W == {i \in LateFrames(fs) \ {1} : fs[i].at - fs[i - 1].at > limit}
  <2>6. \A i \in W : i \in {b + j : j \in B}
    BY <2>4
  <2>7. \A j \in B : b + j \in W
    BY <2>5
  <2> HIDE DEF W
  <2>8. W = {b + j : j \in B}
    BY <2>6, <2>7
  <2> QED
    BY <2>8 DEF W
<1>4. Cardinality({b + j : j \in B}) = Cardinality(B)
  <2>1. B \in SUBSET (1 .. m)
    OBVIOUS
  <2> HIDE DEF B, m
  <2> QED
    BY <1>1, <2>1, ShiftedCount
<1>5. StallGap \in Nat /\ s.gaps \in Seq(0 .. StallGap)
  BY RunAssumption DEF RunStates
<1>6. /\ nearest_rank(s.gaps, p) \in Nat
      /\ nearest_rank(s.gaps, p) <= limit
           <=> Cardinality({j \in 1 .. Len(s.gaps) : s.gaps[j] > limit}) * 100 <= (100 - p) * Len(s.gaps)
  BY <1>5, RankOfList
<1> QED
  BY <1>1, <1>3, <1>4, <1>6

\* No gap is a stall.
LEMMA NoStall ==
  ASSUME NEW s \in RunStates, NEW fs \in Seq(TakenFrames), fs # <<>>, MeasuredFrom(s, fs), s.gaps # <<>>
  PROVE  Max(ToSet(s.gaps)) < StallGap
<1> DEFINE b == GapBase(s, fs)
           m == Len(s.gaps)
<1>1. StallGap \in Nat /\ m \in Nat /\ m # 0 /\ DOMAIN s.gaps = 1 .. m
  BY RunAssumption DEF RunStates
<1>2. \A j \in 1 .. m : s.gaps[j] \in 1 .. StallGap - 1
  <2> SUFFICES ASSUME NEW j \in 1 .. m PROVE s.gaps[j] \in 1 .. StallGap - 1
    OBVIOUS
  <2>1. m = Len(fs) - b /\ s.gaps[j] = fs[b + j].at - fs[b + j - 1].at
    BY DEF MeasuredFrom
  <2>2. b \in 1 .. Len(fs) /\ Len(fs) \in Nat
    BY LateMeasured, TakenFacts
  <2> HIDE DEF b, m
  <2>3. b + j - 1 \in 1 .. Len(fs) - 1 /\ (b + j - 1) + 1 = b + j
    BY <1>1, <2>1, <2>2
  <2>4. fs[(b + j - 1) + 1].at - fs[b + j - 1].at \in 1 .. StallGap - 1
    BY <2>3 DEF MeasuredFrom
  <2> QED
    BY <2>1, <2>3, <2>4
<1>3. ToSet(s.gaps) = {s.gaps[j] : j \in 1 .. m}
  BY <1>1 DEF ToSet
<1> HIDE DEF m
<1>4. ToSet(s.gaps) \in SUBSET (0 .. StallGap - 1) /\ ToSet(s.gaps) # {} /\ StallGap - 1 \in Nat
  <2>1. 1 \in 1 .. m /\ s.gaps[1] \in 1 .. StallGap - 1
    BY <1>1, <1>2
  <2>2. StallGap - 1 \in Nat
    BY <1>1, <2>1
  <2>3. \A x \in 1 .. StallGap - 1 : x \in 0 .. StallGap - 1
    BY <1>1
  <2> QED
    BY <1>2, <1>3, <2>1, <2>2, <2>3
<1>5. Max(ToSet(s.gaps)) \in ToSet(s.gaps)
  BY <1>4, GreatestNatural DEF Max
<1> QED
  BY <1>1, <1>4, <1>5

LEMMA WaitShare ==
  ASSUME NEW s \in RunStates, NEW fs \in Seq(TakenFrames), LongestWait(s, fs)
  PROVE  s.backlog \in Nat /\ (s.backlog <= BacklogLimit <=> \A i \in 1 .. Len(fs) : fs[i].wait <= BacklogLimit)
<1>1. s.backlog \in Nat /\ BacklogLimit \in Nat /\ \A i \in 1 .. Len(fs) : fs[i].wait \in Nat
  BY RunAssumption, TakenFacts DEF RunStates
<1>2. \A x, y, z \in Nat : x <= y /\ y <= z => x <= z
  OBVIOUS
<1> QED
  BY <1>1, <1>2 DEF LongestWait

LEMMA RunThresholds ==
  ASSUME NEW s \in RunStates, NEW fs \in Seq(TakenFrames), fs # <<>>, MeasuredFrom(s, fs), LongestWait(s, fs)
  PROVE  /\ receipt_threshold_failure(s, measured(s).total, measured(s).post) \in {"NONE", "INPUT_MALFORMED", "QUALITY_INSUFFICIENT"}
         /\ receipt_threshold_failure(s, measured(s).total, measured(s).post) = "NONE" <=> AcceptableRun(fs)
         /\ AcceptableRun(fs) =>
              /\ measured(s).total >= RunLength /\ measured(s).post >= RunLength - RunWarmup /\ measured(s).post > 0
              /\ measured(s).rate * TicksPerRunFrame >= measured(s).post
              /\ measured(s).gap95 \in 0 .. GapLimit /\ measured(s).latency95 \in 0 .. LatencyLimit95
              /\ measured(s).latency99 \in 0 .. LatencyLimit99 /\ measured(s).backlog \in 0 .. BacklogLimit
              /\ measured(s).stall < StallGap
<1> DEFINE m == measured(s)
           n == Len(fs)
           late == LateFrames(fs)
           spans == late \ {1}
           total == fs[n].at - fs[1].at
           wide == {i \in spans : fs[i].at - fs[i - 1].at > GapLimit}
           slow95 == {i \in late : fs[i].took > LatencyLimit95}
           slow99 == {i \in late : fs[i].took > LatencyLimit99}
           Gapped == spans # {} /\ Cardinality(wide) * 100 <= 5 * Cardinality(spans)
           Swift == /\ Cardinality(slow95) * 100 <= (100 - 95) * Cardinality(late)
                    /\ Cardinality(slow99) * 100 <= (100 - 99) * Cardinality(late)
           Waited == \A i \in 1 .. n : fs[i].wait <= BacklogLimit
           Fast == Cardinality(late) * TicksPerRunFrame >= total - RunWarmup
<1>1. AcceptableRun(fs) <=> total >= RunLength /\ Fast /\ Waited /\ Gapped /\ Swift
  BY DEF AcceptableRun, LateFrames
<1>2. /\ m.total = total /\ m.post = (IF total > RunWarmup THEN total - RunWarmup ELSE 0) /\ m.rate = s.post
      /\ m.gap95 = nearest_rank(s.gaps, 95) /\ m.latency95 = nearest_rank(s.latencies, 95)
      /\ m.latency99 = nearest_rank(s.latencies, 99) /\ m.backlog = s.backlog
      /\ m.stall = IF s.gaps = <<>> THEN 0 ELSE Max(ToSet(s.gaps))
  BY DEF measured, MeasuredFrom
<1>3. /\ RunLength \in Nat /\ RunWarmup \in Nat /\ RunWarmup < RunLength /\ TicksPerRunFrame \in Nat
      /\ GapLimit \in Nat /\ LatencyLimit95 \in Nat /\ LatencyLimit99 \in Nat /\ BacklogLimit \in Nat
      /\ 95 \in 1 .. 100 /\ 99 \in 1 .. 100 /\ 100 - 95 = 5
  BY RunAssumption
<1>4. total \in Int
  BY TakenFacts
<1>5. /\ Cardinality(late) = s.post /\ s.post \in Nat /\ Cardinality(spans) = Len(s.gaps) /\ Len(s.gaps) \in Nat
      /\ late = {Warmed(s, fs) + j : j \in 1 .. s.post}
      /\ spans = {GapBase(s, fs) + j : j \in 1 .. Len(s.gaps)}
      /\ s.gaps \in Seq(0 .. StallGap) /\ s.latencies \in Seq(0 .. LatencyLimit95 + 1) /\ Len(s.latencies) = s.post
  BY LateMeasured DEF MeasuredFrom, RunStates
<1>6. (s.gaps = <<>> <=> spans = {}) /\ (s.latencies = <<>> <=> late = {})
  <2>1. \A x \in Nat : x # 0 => 1 \in 1 .. x
    OBVIOUS
  <2>2. (Len(s.gaps) = 0 <=> s.gaps = <<>>) /\ (Len(s.latencies) = 0 <=> s.latencies = <<>>)
    BY <1>5
  <2>3. Len(s.gaps) = 0 => 1 .. Len(s.gaps) = {}
    OBVIOUS
  <2>4. s.post = 0 => 1 .. s.post = {}
    OBVIOUS
  <2> HIDE DEF spans, late
  <2> QED
    BY <1>5, <2>1, <2>2, <2>3, <2>4
<1>7. s.gaps # <<>> => s.latencies # <<>>
  BY <1>6
<1>8. s.gaps # <<>> => m.gap95 \in Nat /\ (m.gap95 <= GapLimit <=> Gapped)
  <2> SUFFICES ASSUME s.gaps # <<>> PROVE m.gap95 \in Nat /\ (m.gap95 <= GapLimit <=> Gapped)
    OBVIOUS
  <2>1. /\ nearest_rank(s.gaps, 95) \in Nat
        /\ nearest_rank(s.gaps, 95) <= GapLimit <=> Cardinality(wide) * 100 <= (100 - 95) * Cardinality(spans)
    <3>1. \A p \in 1 .. 100, limit \in Nat :
            /\ nearest_rank(s.gaps, p) \in Nat
            /\ nearest_rank(s.gaps, p) <= limit
                 <=> Cardinality({i \in LateFrames(fs) \ {1} : fs[i].at - fs[i - 1].at > limit}) * 100
                       <= (100 - p) * Cardinality(LateFrames(fs) \ {1})
      BY GapShare
    <3>2. /\ nearest_rank(s.gaps, 95) \in Nat
          /\ nearest_rank(s.gaps, 95) <= GapLimit
               <=> Cardinality({i \in LateFrames(fs) \ {1} : fs[i].at - fs[i - 1].at > GapLimit}) * 100
                     <= (100 - 95) * Cardinality(LateFrames(fs) \ {1})
      BY <1>3, <3>1
    <3> QED
      BY <3>2
  <2>2. spans # {}
    BY <1>6
  <2> HIDE DEF m, spans, wide
  <2> QED
    BY <1>2, <1>3, <2>1, <2>2
<1>9. s.latencies # <<>> => /\ m.latency95 \in Nat /\ m.latency99 \in Nat
                            /\ (m.latency95 <= LatencyLimit95 /\ m.latency99 <= LatencyLimit99 <=> Swift)
  <2> SUFFICES ASSUME s.latencies # <<>>
               PROVE  /\ m.latency95 \in Nat /\ m.latency99 \in Nat
                      /\ (m.latency95 <= LatencyLimit95 /\ m.latency99 <= LatencyLimit99 <=> Swift)
    OBVIOUS
  <2>1. /\ nearest_rank(s.latencies, 95) \in Nat
        /\ nearest_rank(s.latencies, 95) <= LatencyLimit95 <=> Cardinality(slow95) * 100 <= (100 - 95) * Cardinality(late)
    BY <1>3, LatencyShare
  <2>2. /\ nearest_rank(s.latencies, 99) \in Nat
        /\ nearest_rank(s.latencies, 99) <= LatencyLimit99 <=> Cardinality(slow99) * 100 <= (100 - 99) * Cardinality(late)
    BY <1>3, LatencyShare
  <2> HIDE DEF m, late, slow95, slow99
  <2> QED
    BY <1>2, <2>1, <2>2
<1>10. m.backlog \in Nat /\ (m.backlog <= BacklogLimit <=> Waited)
  BY <1>2, WaitShare
<1>11. s.gaps # <<>> => m.stall < StallGap
  BY <1>2, NoStall
<1>12. s.post * TicksPerRunFrame \in Int
  <2>1. \A x, y \in Nat : x * y \in Int
    OBVIOUS
  <2> QED
    BY <1>3, <1>5, <2>1
<1>13. total >= RunLength => m.post = total - RunWarmup /\ m.post > 0 /\ m.post >= RunLength - RunWarmup
                             /\ (Fast <=> m.rate * TicksPerRunFrame >= m.post)
                             /\ (Fast <=> ~ (m.rate * TicksPerRunFrame < m.post))
  <2> HIDE DEF m, total, late
  <2>1. total >= RunLength => m.post = total - RunWarmup /\ m.post > 0 /\ m.post >= RunLength - RunWarmup /\ m.post \in Int
    BY <1>2, <1>3, <1>4
  <2>2. m.rate * TicksPerRunFrame = s.post * TicksPerRunFrame
    BY <1>2
  <2>3. \A x, y \in Int : x >= y <=> ~ (x < y)
    OBVIOUS
  <2> QED
    BY <1>5, <1>12, <2>1, <2>2, <2>3
<1> HIDE DEF m, n, late, spans, total, wide, slow95, slow99, Gapped, Swift, Waited, Fast
<1>14. receipt_threshold_failure(s, m.total, m.post) =
         IF m.total < RunLength \/ m.post < RunLength - RunWarmup THEN "INPUT_MALFORMED"
         ELSE IF \/ s.gaps = <<>> \/ s.latencies = <<>> \/ m.backlog > BacklogLimit
                 \/ m.rate * TicksPerRunFrame < m.post \/ m.gap95 > GapLimit \/ m.latency95 > LatencyLimit95
                 \/ m.latency99 > LatencyLimit99
              THEN "QUALITY_INSUFFICIENT" ELSE "NONE"
  BY <1>2 DEF receipt_threshold_failure
<1>15. \A x, y \in Int : (x < y <=> ~ (x >= y)) /\ (x > y <=> ~ (x <= y))
  OBVIOUS
<1>16. ASSUME AcceptableRun(fs)
       PROVE  /\ m.total >= RunLength /\ m.post >= RunLength - RunWarmup /\ m.post > 0
              /\ m.rate * TicksPerRunFrame >= m.post
              /\ m.gap95 \in 0 .. GapLimit /\ m.latency95 \in 0 .. LatencyLimit95
              /\ m.latency99 \in 0 .. LatencyLimit99 /\ m.backlog \in 0 .. BacklogLimit
              /\ m.stall < StallGap /\ s.gaps # <<>> /\ s.latencies # <<>>
  <2>1. total >= RunLength /\ Fast /\ Waited /\ Gapped /\ Swift /\ s.gaps # <<>> /\ s.latencies # <<>>
    BY <1>1, <1>6, <1>7, <1>16 DEF Gapped
  <2>2. /\ m.gap95 \in Nat /\ m.gap95 <= GapLimit /\ m.latency95 \in Nat /\ m.latency95 <= LatencyLimit95
        /\ m.latency99 \in Nat /\ m.latency99 <= LatencyLimit99 /\ m.backlog \in Nat /\ m.backlog <= BacklogLimit
    BY <2>1, <1>3, <1>8, <1>9, <1>10
  <2> QED
    BY <2>1, <2>2, <1>2, <1>3, <1>11, <1>13
<1>17. AcceptableRun(fs) => receipt_threshold_failure(s, m.total, m.post) = "NONE"
  <2> SUFFICES ASSUME AcceptableRun(fs) PROVE receipt_threshold_failure(s, m.total, m.post) = "NONE"
    OBVIOUS
  <2>1. /\ ~ (m.total < RunLength) /\ ~ (m.post < RunLength - RunWarmup) /\ ~ (m.backlog > BacklogLimit)
        /\ ~ (m.gap95 > GapLimit) /\ ~ (m.latency95 > LatencyLimit95) /\ ~ (m.latency99 > LatencyLimit99)
        /\ s.gaps # <<>> /\ s.latencies # <<>> /\ ~ (m.rate * TicksPerRunFrame < m.post)
    <3>1. m.total \in Int /\ m.post \in Int
      BY <1>2, <1>3, <1>4
    <3>2. ~ (m.rate * TicksPerRunFrame < m.post)
      BY <1>1, <1>13
    <3>3. ~ (m.total < RunLength) /\ ~ (m.post < RunLength - RunWarmup)
      BY <1>3, <1>16, <3>1
    <3>4. /\ ~ (m.backlog > BacklogLimit) /\ ~ (m.gap95 > GapLimit) /\ ~ (m.latency95 > LatencyLimit95)
          /\ ~ (m.latency99 > LatencyLimit99)
      <4>1. /\ m.backlog \in 0 .. BacklogLimit /\ m.gap95 \in 0 .. GapLimit /\ m.latency95 \in 0 .. LatencyLimit95
            /\ m.latency99 \in 0 .. LatencyLimit99
        BY <1>16, Zenon
      <4>2. {BacklogLimit, GapLimit, LatencyLimit95, LatencyLimit99} \subseteq Nat
        BY <1>3
      <4>3. \A x, y : y \in Nat /\ x \in 0 .. y => ~ (x > y)
        OBVIOUS
      <4> QED
        BY <4>1, <4>2, <4>3
    <3> QED
      BY <1>16, <3>2, <3>3, <3>4
  <2> QED
    BY <1>14, <2>1
<1>18. receipt_threshold_failure(s, m.total, m.post) = "NONE" => AcceptableRun(fs)
  <2> SUFFICES ASSUME receipt_threshold_failure(s, m.total, m.post) = "NONE" PROVE AcceptableRun(fs)
    OBVIOUS
  <2>1. /\ ~ (m.total < RunLength) /\ ~ (m.post < RunLength - RunWarmup) /\ ~ (m.backlog > BacklogLimit)
        /\ ~ (m.gap95 > GapLimit) /\ ~ (m.latency95 > LatencyLimit95) /\ ~ (m.latency99 > LatencyLimit99)
        /\ s.gaps # <<>> /\ s.latencies # <<>> /\ ~ (m.rate * TicksPerRunFrame < m.post)
    BY <1>14
  <2>2. total >= RunLength
    BY <1>2, <1>3, <1>4, <2>1
  <2>3. Fast
    BY <1>13, <2>1, <2>2
  <2>4. Waited /\ Gapped /\ Swift
    BY <1>3, <1>8, <1>9, <1>10, <1>15, <2>1
  <2> QED
    BY <1>1, <2>2, <2>3, <2>4
<1>19. receipt_threshold_failure(s, m.total, m.post) \in {"NONE", "INPUT_MALFORMED", "QUALITY_INSUFFICIENT"}
  BY <1>14
<1> QED
  BY <1>16, <1>17, <1>18, <1>19 DEF m

------------------------------------------------------------------------------
(* The preflight: its receipts. *)

Shaped(r) ==
  r \in [outcome : {r.outcome}, failure : {r.failure}, raw : {r.raw}, held : {r.held}, cleaned : {r.cleaned},
         verified : {r.verified}, supervised : {r.supervised}, sealed : {r.sealed}, metrics : {r.metrics},
         warmup : {r.warmup}, post : {r.post}, delivered : {r.delivered}, checked : {r.checked},
         stops : {r.stops}, seen : {r.seen}]

\* What the verifier asks for besides the seal.
CandidateSound(r) ==
  /\ r.raw => r.failure \in {"PRIVACY_STOP", "CLEANUP_INCOMPLETE"}
  /\ IF r.outcome = "PASS" THEN verify_pass(r) ELSE verify_no_go(r)

Unfinal(r) == Shaped(r) /\ r.sealed = FALSE /\ r.failure # "AUTHORITY_FINALIZATION_FAILED"

LEMMA Sealing ==
  ASSUME NEW r, Shaped(r)
  PROVE  /\ candidate_semantics_are_valid(r) <=> CandidateSound(r)
         /\ run_receipt_verifies([r EXCEPT !.sealed = TRUE]) <=> CandidateSound(r)
         /\ [r EXCEPT !.sealed = TRUE].outcome = r.outcome /\ [r EXCEPT !.sealed = TRUE].failure = r.failure
         /\ [r EXCEPT !.sealed = TRUE].checked = r.checked /\ [r EXCEPT !.sealed = TRUE].sealed
<1> DEFINE t == [r EXCEPT !.sealed = TRUE]
<1>1. /\ t.outcome = r.outcome /\ t.failure = r.failure /\ t.raw = r.raw /\ t.held = r.held /\ t.cleaned = r.cleaned
      /\ t.verified = r.verified /\ t.supervised = r.supervised /\ t.metrics = r.metrics /\ t.warmup = r.warmup
      /\ t.post = r.post /\ t.delivered = r.delivered /\ t.checked = r.checked /\ t.stops = r.stops /\ t.seen = r.seen
      /\ t.sealed
  BY DEF Shaped
<1> HIDE DEF t
<1>2. verify_pass(t) <=> verify_pass(r)
  BY <1>1 DEF verify_pass
<1>3. verify_no_go(t) <=> verify_no_go(r)
  BY <1>1 DEF verify_no_go
<1>4. run_receipt_verifies(t) <=> CandidateSound(r)
  BY <1>1, <1>2, <1>3 DEF run_receipt_verifies, verify_common, CandidateSound
<1> QED
  BY <1>1, <1>4 DEF t, candidate_semantics_are_valid

LEMMA Unstored ==
  ASSUME NEW r, Unfinal(r)
  PROVE  LET t == [r EXCEPT !.outcome = "NO_GO", !.failure = "AUTHORITY_FINALIZATION_FAILED"]
         IN t.outcome = "NO_GO" /\ t.failure = "AUTHORITY_FINALIZATION_FAILED" /\ t.sealed = FALSE /\ ~ run_receipt_verifies(t)
<1> DEFINE t == [r EXCEPT !.outcome = "NO_GO", !.failure = "AUTHORITY_FINALIZATION_FAILED"]
<1>1. t.outcome = "NO_GO" /\ t.failure = "AUTHORITY_FINALIZATION_FAILED" /\ t.sealed = FALSE
  BY DEF Unfinal, Shaped
<1> HIDE DEF t
<1>2. ~ run_receipt_verifies(t)
  BY <1>1 DEF run_receipt_verifies, verify_common
<1> QED
  BY <1>1, <1>2 DEF t

\* A refusal from before the capture, or of the parent.
LEMMA BareSound ==
  ASSUME NEW failure \in {"POSE_ENGINE_UNAVAILABLE", "CAPTURE_RUNTIME_EXCEPTION", "SCHEMA_INCOMPATIBLE",
                          "UNKNOWN_TECHNICAL_FAILURE", "WORKER_PROTOCOL_FAILURE"}, NEW released
  PROVE  LET r == bare_receipt(failure, released)
         IN Unfinal(r) /\ CandidateSound(r) /\ r.outcome = "NO_GO"
<1> DEFINE r == bare_receipt(failure, released)
<1>1. r = receipt_of(failure, Unclaimed \ released, FALSE, Metrics, 0, 0, 0, 0, 0)
  BY DEF bare_receipt
<1>2. Shaped(r) /\ r.outcome = "NO_GO" /\ r.failure = failure /\ r.raw = FALSE /\ r.stops = 0 /\ r.seen = 0 /\ r.sealed = FALSE
  BY <1>1 DEF receipt_of, Shaped
<1> HIDE DEF r
<1>3. Unfinal(r) /\ CandidateSound(r)
  BY <1>2 DEF Unfinal, CandidateSound, verify_no_go
<1> QED
  BY <1>2, <1>3 DEF r

LEMMA PrivacySound ==
  ASSUME NEW s, NEW held
  PROVE  LET r == privacy_receipt(s, held)
         IN Unfinal(r) /\ CandidateSound(r) /\ r.outcome = "NO_GO"
<1> DEFINE q == receipt_of("PRIVACY_STOP", held \cup {"job", "worker lease"}, "buffers" \in held, Metrics,
                           0, 0, s.checked, 1, s.seen)
           r == privacy_receipt(s, held)
<1>1. r = [q EXCEPT !.verified = TRUE]
  BY DEF privacy_receipt
<1>2. Shaped(q) /\ q.outcome = "NO_GO" /\ q.failure = "PRIVACY_STOP" /\ q.delivered = 0 /\ q.stops = 1 /\ q.sealed = FALSE
  BY DEF receipt_of, Shaped
<1> HIDE DEF q, r
<1>3. Shaped(r) /\ r.outcome = "NO_GO" /\ r.failure = "PRIVACY_STOP" /\ r.delivered = 0 /\ r.stops = 1 /\ r.sealed = FALSE
  BY <1>1, <1>2 DEF Shaped
<1>4. Unfinal(r) /\ CandidateSound(r)
  BY <1>3 DEF Unfinal, CandidateSound, verify_no_go
<1> QED
  BY <1>3, <1>4 DEF r

\* A receipt of measured frames is sound, and passes exactly when the frames are acceptable.
LEMMA ResultSound ==
  ASSUME NEW s \in RunStates, NEW fs \in Seq(TakenFrames), MeasuredFrom(s, fs),
         s.failure = "NONE" => LongestWait(s, fs),
         s.failure # "PRIVACY_STOP",
         NEW held \in SUBSET Resources,
         held # {} <=> s.failure = "CLEANUP_INCOMPLETE",
         NEW r, r = result_receipt(s, held)
  PROVE  /\ Unfinal(r) /\ CandidateSound(r)
         /\ r.outcome = "PASS" => held = {} /\ r.checked = Len(fs) /\ AcceptableRun(fs)
         /\ s.failure = "NONE" /\ fs # <<>> /\ AcceptableRun(fs) => r.outcome = "PASS"
<1> DEFINE m == measured(s)
           code == IF s.failure # "NONE" THEN s.failure ELSE receipt_threshold_failure(s, m.total, m.post)
           raw == "buffers" \in held
<1>1. s.failure \in RunFailures \cup {"CLEANUP_INCOMPLETE"} /\ s.delivered \in Nat /\ s.post \in Nat
  BY DEF RunStates
<1>2. s.failure # "AUTHORITY_FINALIZATION_FAILED" /\ s.failure # "PRIVACY_STOP"
  BY <1>1 DEF RunFailures
<1>3. s.previous = NoTick <=> fs = <<>>
  BY TakenFacts DEF MeasuredFrom, NoTick
<1>4. CASE fs = <<>>
  <2> DEFINE bare == IF s.failure = "NONE" THEN "INPUT_UNAVAILABLE" ELSE s.failure
             kept == (held \ {"lease"}) \cup {"job", "worker lease"}
  <2>1. r = receipt_of(bare, kept, raw, Metrics, 0, 0, 0, 0, 0)
    BY <1>3, <1>4 DEF result_receipt
  <2>2. bare # "NONE" /\ bare # "AUTHORITY_FINALIZATION_FAILED" /\ bare # "PRIVACY_STOP"
        /\ (raw => bare = "CLEANUP_INCOMPLETE")
    BY <1>2
  <2>3. kept \ {"buffers"} # {}
    <3>1. "job" \in kept \ {"buffers"}
      OBVIOUS
    <3> QED
      BY <3>1
  <2> HIDE DEF bare, kept, raw
  <2>4. Shaped(r) /\ r.outcome = "NO_GO" /\ r.failure = bare /\ r.raw = raw /\ r.held = kept
        /\ r.stops = 0 /\ r.seen = 0 /\ r.sealed = FALSE
    BY <2>1, <2>2 DEF receipt_of, Shaped
  <2>5. Unfinal(r) /\ CandidateSound(r)
    BY <2>2, <2>3, <2>4 DEF Unfinal, CandidateSound, verify_no_go
  <2> QED
    BY <1>4, <2>4, <2>5
<1>5. CASE fs # <<>>
  <2> DEFINE q == receipt_of(code, held, raw, m, s.delivered - s.post, s.post, 0, 0, 0)
  <2>1. r = [q EXCEPT !.verified = TRUE, !.supervised = TRUE]
    BY <1>3, <1>5 DEF result_receipt
  <2>2. /\ code \in RunFailures \cup {"CLEANUP_INCOMPLETE", "QUALITY_INSUFFICIENT"} /\ code # "PRIVACY_STOP"
        /\ code = "CLEANUP_INCOMPLETE" <=> held # {}
        /\ code = "NONE" => s.failure = "NONE" /\ AcceptableRun(fs)
        /\ s.failure = "NONE" /\ AcceptableRun(fs) => code = "NONE"
    <3>1. CASE s.failure # "NONE"
      BY <1>1, <1>2, <3>1
    <3>2. CASE s.failure = "NONE"
      <4>1. /\ code \in {"NONE", "INPUT_MALFORMED", "QUALITY_INSUFFICIENT"}
            /\ code = "NONE" <=> AcceptableRun(fs)
        BY <1>5, <3>2, RunThresholds
      <4> HIDE DEF code
      <4> QED
        BY <3>2, <4>1 DEF RunFailures
    <3> QED
      BY <3>1, <3>2
  <2>3. code = "NONE" =>
          /\ m.total >= RunLength /\ m.post >= RunLength - RunWarmup /\ m.post > 0
          /\ m.rate * TicksPerRunFrame >= m.post
          /\ m.gap95 \in 0 .. GapLimit /\ m.latency95 \in 0 .. LatencyLimit95
          /\ m.latency99 \in 0 .. LatencyLimit99 /\ m.backlog \in 0 .. BacklogLimit
          /\ m.stall < StallGap
    BY <1>5, <2>2, RunThresholds
  <2>4. (s.delivered - s.post) + s.post = s.delivered /\ s.delivered = Len(fs)
    BY <1>1 DEF MeasuredFrom
  <2>5. /\ raw => code = "CLEANUP_INCOMPLETE"
        /\ (~ raw /\ held \cap Resources = {}) <=> held = {}
        /\ code # "AUTHORITY_FINALIZATION_FAILED"
    BY <2>2 DEF Resources, RunFailures
  <2> HIDE DEF code, raw, m
  <2>6. /\ Shaped(q) /\ q.outcome = (IF code = "NONE" THEN "PASS" ELSE "NO_GO") /\ q.failure = code /\ q.raw = raw
        /\ q.held = held /\ q.cleaned = (~ raw /\ held \cap Resources = {}) /\ q.sealed = FALSE
        /\ q.metrics = m /\ q.warmup = s.delivered - s.post /\ q.post = s.post
        /\ q.delivered = (s.delivered - s.post) + s.post
        /\ q.checked = (IF code = "NONE" THEN (s.delivered - s.post) + s.post ELSE 0)
        /\ q.stops = 0 /\ q.seen = 0
    BY DEF receipt_of, Shaped
  <2> HIDE DEF q
  <2>7. /\ Shaped(r) /\ r.outcome = q.outcome /\ r.failure = q.failure /\ r.raw = q.raw
        /\ r.held = q.held /\ r.cleaned = q.cleaned /\ r.sealed = q.sealed /\ r.verified = TRUE /\ r.supervised = TRUE
        /\ r.metrics = q.metrics /\ r.warmup = q.warmup /\ r.post = q.post /\ r.delivered = q.delivered
        /\ r.checked = q.checked /\ r.stops = q.stops /\ r.seen = q.seen
    BY <2>1, <2>6 DEF Shaped
  <2>8. Unfinal(r)
    BY <2>5, <2>6, <2>7 DEF Unfinal
  <2>9. (r.raw => r.failure \in {"PRIVACY_STOP", "CLEANUP_INCOMPLETE"})
        /\ (r.outcome = "PASS" <=> code = "NONE")
    BY <2>5, <2>6, <2>7
  <2>10. ASSUME code = "NONE" PROVE verify_pass(r)
    <3>1. r.held = {} /\ r.cleaned /\ r.supervised /\ r.verified /\ r.failure = "NONE" /\ r.stops = 0 /\ r.seen = 0
      BY <2>10, <2>2, <2>5, <2>6, <2>7
    <3>2. r.delivered = r.warmup + r.post /\ r.checked = r.delivered
      BY <2>10, <2>6, <2>7
    <3>3. r.metrics = m
      BY <2>6, <2>7
    <3> QED
      BY <2>3, <2>10, <3>1, <3>2, <3>3 DEF verify_pass
  <2>11. ASSUME code # "NONE" PROVE verify_no_go(r)
    BY <2>11, <2>2, <2>5, <2>6, <2>7 DEF verify_no_go
  <2>12. CandidateSound(r)
    BY <2>9, <2>10, <2>11 DEF CandidateSound
  <2>13. code = "NONE" => held = {} /\ r.checked = Len(fs)
    BY <2>2, <2>4, <2>6, <2>7
  <2> QED
    BY <1>5, <2>2, <2>8, <2>9, <2>12, <2>13
<1> QED
  BY <1>4, <1>5

\* The parent makes nothing of a worker's receipt but a refusal, since it drops the measures.
LEMMA ParentRefuses ==
  ASSUME NEW q, q.failure # "AUTHORITY_FINALIZATION_FAILED",
         NEW r, r = deserialize_worker_receipt(q), candidate_semantics_are_valid(r)
  PROVE  Unfinal(r) /\ CandidateSound(r) /\ r.outcome = "NO_GO"
<1> DEFINE n == IF q.failure = "PRIVACY_STOP" THEN 1 ELSE 0
           b == receipt_of(q.failure, {}, FALSE, Metrics, 0, 0, 0, n, 0)
           c == q.cleaned
<1>1. r = [b EXCEPT !.cleaned = c, !.supervised = TRUE]
  BY DEF deserialize_worker_receipt
<1>2. /\ Shaped(b) /\ b.outcome = (IF q.failure = "NONE" THEN "PASS" ELSE "NO_GO") /\ b.failure = q.failure
      /\ b.metrics = Metrics /\ b.sealed = FALSE
  BY DEF receipt_of, Shaped
<1> HIDE DEF b, c, n
<1>3. /\ Shaped(r) /\ r.outcome = b.outcome /\ r.failure = b.failure /\ r.metrics = b.metrics /\ r.sealed = b.sealed
  BY <1>1, <1>2 DEF Shaped
<1>4. Unfinal(r)
  BY <1>2, <1>3 DEF Unfinal
<1>5. CandidateSound(r)
  BY <1>3, Sealing
<1>6. ~ (Metrics.total >= RunLength)
  <2>1. Metrics.total = 0 /\ RunLength \in Nat /\ RunWarmup \in Nat /\ RunWarmup < RunLength
    BY RunAssumption DEF Metrics
  <2> QED
    BY <2>1
<1>7. r.outcome # "PASS"
  BY <1>2, <1>3, <1>5, <1>6 DEF CandidateSound, verify_pass
<1> QED
  BY <1>2, <1>3, <1>4, <1>5, <1>7

LEMMA SupervisorRefuses ==
  ASSUME NEW failure \in {"WORKER_PROTOCOL_FAILURE", "PRIVACY_GUARD_TIMEOUT", "CLEANUP_INCOMPLETE"},
         NEW drained \in BOOLEAN, NEW leased \in BOOLEAN,
         NEW r, r = supervisor_failure_receipt(failure, drained, leased)
  PROVE  /\ Unfinal(r) /\ r.outcome = "NO_GO"
         /\ candidate_semantics_are_valid(r) <=> CandidateSound(r)
<1> DEFINE kept == (IF drained THEN {} ELSE (Resources \ {"buffers"}) \cup {"job"})
                     \cup (IF leased THEN {"worker lease"} ELSE {})
           b == receipt_of(failure, kept, ~ drained, Metrics, 0, 0, 0, 0, 0)
<1>1. r = [b EXCEPT !.cleaned = FALSE, !.supervised = TRUE]
  BY DEF supervisor_failure_receipt
<1> HIDE DEF kept
<1>2. Shaped(b) /\ b.outcome = "NO_GO" /\ b.failure = failure /\ b.sealed = FALSE
  BY DEF receipt_of, Shaped
<1> HIDE DEF b
<1>3. Shaped(r) /\ r.outcome = "NO_GO" /\ r.failure = failure /\ r.sealed = FALSE
  BY <1>1, <1>2 DEF Shaped
<1> QED
  BY <1>3, Sealing DEF Unfinal

\* A receipt out of a worker without a measured frame.
LEMMA WorkerResult ==
  ASSUME NEW s \in RunStates, s.previous = NoTick, NEW held, NEW r, r = result_receipt(s, held)
  PROVE  r.failure # "AUTHORITY_FINALIZATION_FAILED"
<1> DEFINE bare == IF s.failure = "NONE" THEN "INPUT_UNAVAILABLE" ELSE s.failure
<1>1. r.failure = bare
  BY DEF result_receipt, receipt_of
<1>2. s.failure # "AUTHORITY_FINALIZATION_FAILED"
  BY DEF RunStates, RunFailures
<1> QED
  BY <1>1, <1>2

\* What is measured does not depend on the other fields of the run state.
LEMMA MeasuredSame ==
  ASSUME NEW s, NEW t, NEW fs, MeasuredFrom(s, fs),
         t.delivered = s.delivered, t.post = s.post, t.previous = s.previous, t.gaps = s.gaps,
         t.latencies = s.latencies, fs # <<>> => t.first = s.first
  PROVE  MeasuredFrom(t, fs)
<1>1. Warmed(t, fs) = Warmed(s, fs) /\ GapBase(t, fs) = GapBase(s, fs)
  BY DEF Warmed, GapBase
<1> QED
  BY <1>1 DEF MeasuredFrom

LEMMA Failing ==
  ASSUME NEW s \in RunStates, NEW code \in RunFailures \cup {"CLEANUP_INCOMPLETE"},
         NEW fs, MeasuredFrom(s, fs), NEW t, t = [s EXCEPT !.failure = code]
  PROVE  /\ t \in RunStates /\ MeasuredFrom(t, fs) /\ t.failure = code /\ t.first = s.first
         /\ t.backlog = s.backlog /\ (LongestWait(s, fs) => LongestWait(t, fs))
<1>1. t \in RunStates
  BY DEF RunStates
<1>2. /\ t.delivered = s.delivered /\ t.post = s.post /\ t.previous = s.previous /\ t.gaps = s.gaps
      /\ t.latencies = s.latencies /\ t.first = s.first /\ t.failure = code /\ t.backlog = s.backlog
  BY DEF RunStates
<1>3. MeasuredFrom(t, fs)
  BY <1>2, MeasuredSame
<1> QED
  BY <1>1, <1>2, <1>3 DEF LongestWait

------------------------------------------------------------------------------
(* The preflight: the inductive invariant. *)

RunPlaces == {"liveness", "capture", "cleanup", "result", "reported", "terminalize", "done"}

\* What RunReceiptExact says of the outcome, of a receipt that is not yet terminal.
RunJudged(r) ==
  /\ r.outcome = "PASS" => ~ nPc.inWorker /\ nHeld = {} /\ r.checked = Len(nTaken) /\ AcceptableRun(nTaken)
  /\ ~ nPc.inWorker /\ nLaunched /\ nHeld = {} /\ nState.failure = "NONE" /\ nTaken # <<>> /\ AcceptableRun(nTaken)
       => r.outcome = "PASS"

RunMeasures ==
  /\ nState \in RunStates /\ nTaken \in Seq(TakenFrames)
  /\ MeasuredFrom(nState, nTaken)
  /\ nState.failure = "NONE" => LongestWait(nState, nTaken)

RunInv ==
  /\ nPc \in [at : RunPlaces, inWorker : BOOLEAN]
  /\ RunMeasures
  /\ nPc.inWorker => nTaken = <<>>
  /\ nPc.at = "liveness" => nTaken = <<>>
  /\ nPc.at \in {"liveness", "capture"} => nState.failure = "NONE" /\ (nTaken = <<>> => nState.first = NoTick)
  /\ nPc.at = "cleanup" => nState.failure # "CLEANUP_INCOMPLETE"
  /\ nPc.at = "result" =>
       /\ nHeld \in SUBSET Resources
       /\ ~ nPc.inWorker /\ nState.failure # "PRIVACY_STOP" => (nHeld # {} <=> nState.failure = "CLEANUP_INCOMPLETE")
  /\ nPc.at = "reported" => nPc.inWorker /\ nReceipt.failure # "AUTHORITY_FINALIZATION_FAILED"
  /\ nPc.at = "terminalize" => Unfinal(nReceipt) /\ CandidateSound(nReceipt) /\ RunJudged(nReceipt)
  /\ RunReceiptExact

LEMMA RunStart == RunInit => RunInv
<1> SUFFICES ASSUME RunInit PROVE RunInv
  OBVIOUS
<1>1. /\ nPc \in [at : RunPlaces, inWorker : BOOLEAN] /\ nPc.at = "liveness" /\ nState = InitialState /\ nTaken = <<>>
  BY DEF RunInit, RunPlaces
<1>2. nState.failure = "NONE" /\ nState.first = NoTick
  BY <1>1 DEF InitialState
<1>3. RunMeasures
  <2>1. <<>> \in Seq(0 .. StallGap) /\ <<>> \in Seq(0 .. LatencyLimit95 + 1) /\ <<>> \in Seq(TakenFrames)
    OBVIOUS
  <2>2. NoTick \in Int /\ -1 \in Int /\ 0 \in Nat /\ 0 \in 0 .. 1 /\ "NONE" \in RunFailures \cup {"CLEANUP_INCOMPLETE"}
    BY DEF NoTick, RunFailures
  <2>3. nState \in RunStates
    BY <1>1, <2>1, <2>2 DEF InitialState, RunStates
  <2>4. MeasuredFrom(nState, nTaken) /\ LongestWait(nState, nTaken)
    BY <1>1 DEF InitialState, MeasuredFrom, LongestWait
  <2> QED
    BY <1>1, <2>1, <2>3, <2>4 DEF RunMeasures
<1> QED
  BY <1>1, <1>2, <1>3 DEF RunInv, RunReceiptExact

LEMMA RunReaches ==
  ASSUME nPc \in [at : RunPlaces, inWorker : BOOLEAN], NEW at \in RunPlaces, Reaches(at)
  PROVE  nPc' \in [at : RunPlaces, inWorker : BOOLEAN] /\ nPc'.at = at /\ nPc'.inWorker = nPc.inWorker
BY DEF Reaches

\* A receipt that is terminalized next is sound; one that is reported is judged by the parent.
LEMMA RunCandidate ==
  ASSUME RunInv, NEW r, candidate(r), UNCHANGED <<nState, nTaken, nLaunched, nHeld>>,
         nPc.inWorker => r.failure # "AUTHORITY_FINALIZATION_FAILED",
         ~ nPc.inWorker => Unfinal(r) /\ CandidateSound(r) /\ RunJudged(r)
  PROVE  RunInv'
<1>1. /\ nPc' \in [at : RunPlaces, inWorker : BOOLEAN] /\ nPc'.inWorker = nPc.inWorker
      /\ nPc'.at = (IF nPc.inWorker THEN "reported" ELSE "terminalize") /\ nReceipt' = r /\ nPc.inWorker \in BOOLEAN
  <2>1. (IF nPc.inWorker THEN "reported" ELSE "terminalize") \in RunPlaces
    BY DEF RunPlaces
  <2> QED
    BY <2>1, RunReaches DEF RunInv, candidate
<1>2. RunMeasures' /\ (nPc.inWorker => nTaken' = <<>>)
  BY DEF RunInv, RunMeasures
<1>3. ~ nPc.inWorker => RunJudged(nReceipt)'
  BY <1>1 DEF RunJudged
<1> QED
  BY <1>1, <1>2, <1>3 DEF RunInv, RunReceiptExact

LEMMA RunRefused == RunInv /\ refused => RunInv'
<1> SUFFICES ASSUME RunInv, refused PROVE RunInv'
  OBVIOUS
<1>1. PICK failure \in {"POSE_ENGINE_UNAVAILABLE", "CAPTURE_RUNTIME_EXCEPTION", "SCHEMA_INCOMPATIBLE"},
           released \in SUBSET {"media"} : candidate(bare_receipt(failure, released))
  BY DEF refused
<1>2. PICK r : r = bare_receipt(failure, released)
  OBVIOUS
<1>3. Unfinal(r) /\ CandidateSound(r) /\ r.outcome = "NO_GO"
  BY <1>2, BareSound
<1>4. nTaken = <<>> /\ UNCHANGED <<nState, nTaken, nLaunched, nHeld>>
  BY DEF refused, RunInv
<1>5. RunJudged(r)
  BY <1>3, <1>4 DEF RunJudged
<1> QED
  BY <1>1, <1>2, <1>3, <1>4, <1>5, RunCandidate DEF Unfinal

LEMMA RunCapture == RunInv /\ capture_starts => RunInv'
<1> SUFFICES ASSUME RunInv, capture_starts PROVE RunInv'
  OBVIOUS
<1>1. nPc' \in [at : RunPlaces, inWorker : BOOLEAN] /\ nPc'.at = "capture" /\ nPc'.inWorker = nPc.inWorker
  BY RunReaches DEF RunInv, capture_starts, RunPlaces
<1>2. RunMeasures' /\ nTaken' = <<>> /\ nState'.failure = "NONE" /\ nState'.first = NoTick
  BY DEF RunInv, capture_starts, RunMeasures
<1> QED
  BY <1>1, <1>2 DEF RunInv, RunReceiptExact

LEMMA RunFails ==
  ASSUME RunInv, nPc.at \in {"liveness", "capture"}, NEW code \in RunFailures, code # "NONE", fails_with(code)
  PROVE  RunInv'
<1>1. nPc' \in [at : RunPlaces, inWorker : BOOLEAN] /\ nPc'.at = "cleanup" /\ nPc'.inWorker = nPc.inWorker
  BY RunReaches DEF RunInv, fails_with, RunPlaces
<1>2. nState' \in RunStates /\ MeasuredFrom(nState', nTaken) /\ nState'.failure = code
  BY Failing DEF RunInv, RunMeasures, fails_with
<1>3. RunMeasures' /\ (nPc.inWorker => nTaken' = <<>>)
  BY <1>2 DEF RunInv, RunMeasures, fails_with
<1>4. code # "CLEANUP_INCOMPLETE"
  BY DEF RunFailures
<1> QED
  BY <1>1, <1>2, <1>3, <1>4 DEF RunInv, RunReceiptExact

LEMMA RunReaderFails == RunInv /\ (launch_raises \/ frame_reader_fails) => RunInv'
<1>1. ASSUME RunInv, launch_raises PROVE RunInv'
  BY <1>1, RunFails DEF launch_raises, RunFailures
<1>2. ASSUME RunInv, frame_reader_fails PROVE RunInv'
  <2>1. PICK code \in {"FRAME_STALLED", "FRAME_READER_EXCEPTION", "INPUT_MALFORMED"}
                      \cup {IF nState.delivered = 0 THEN "INPUT_UNAVAILABLE" ELSE "INPUT_MALFORMED"} : fails_with(code)
    BY <1>2 DEF frame_reader_fails
  <2>2. code \in RunFailures /\ code # "NONE"
    BY DEF RunFailures
  <2> QED
    BY <1>2, <2>1, <2>2, RunFails DEF frame_reader_fails
<1> QED
  BY <1>1, <1>2

\* A frame that is measured extends the measures, any other one ends the run.
LEMMA RunFrame == ASSUME RunInv, NEW f \in RunFrames, frame_arrives(f) PROVE RunInv'
<1> DEFINE b == IF f.wait > nState.backlog THEN f.wait ELSE nState.backlog
           h == IF nState.first = NoTick /\ f.wait >= 0 THEN f.at ELSE nState.first
           s == [nState EXCEPT !.backlog = b, !.first = h]
           failure == frame_failure(s, f)
           detected == failure = "PRIVACY_STOP" /\ f.content # "face raises"
           over == f.at - s.first >= RunLength
           stops == IF failure = "PRIVACY_STOP" THEN 1 ELSE 0
           seen == IF detected THEN 1 ELSE 0
           checked == IF failure = "CLOCK_REGRESSION" /\ f.took < 0 /\ f.wait >= 0 /\ video_timestamp(s, f) > s.stamp
                      THEN s.checked + 1 ELSE s.checked
<1>1. /\ nPc.at = "capture" /\ UNCHANGED <<nLaunched, nReceipt, nHeld>>
      /\ failure = "NONE" => /\ nState' = record(s, f) /\ nTaken' = Append(nTaken, f)
                             /\ Reaches(IF over THEN "cleanup" ELSE "capture")
      /\ failure # "NONE" => /\ nState' = [s EXCEPT !.failure = failure, !.stops = stops, !.seen = seen, !.checked = checked]
                             /\ nTaken' = nTaken /\ Reaches("cleanup")
  BY DEF frame_arrives
<1>2. /\ nState \in RunStates /\ nTaken \in Seq(TakenFrames) /\ MeasuredFrom(nState, nTaken)
      /\ LongestWait(nState, nTaken) /\ nState.failure = "NONE" /\ (nTaken = <<>> => nState.first = NoTick)
      /\ nPc \in [at : RunPlaces, inWorker : BOOLEAN] /\ (nPc.inWorker => nTaken = <<>>)
  BY <1>1 DEF RunInv, RunMeasures
<1>3. f.at \in Nat /\ f.wait \in Int /\ f.took \in Int
  BY TakenFrame
<1>4. /\ b \in Nat /\ nState.backlog \in Nat /\ b >= f.wait /\ b >= nState.backlog /\ b \in {f.wait, nState.backlog}
      /\ h \in Int
  BY <1>2, <1>3 DEF RunStates
<1> HIDE DEF b
<1>5. /\ s \in RunStates /\ s.backlog = b /\ s.delivered = nState.delivered /\ s.post = nState.post
      /\ s.previous = nState.previous /\ s.gaps = nState.gaps /\ s.latencies = nState.latencies /\ s.first = h
      /\ s.failure = "NONE" /\ s.checked \in Nat /\ s.checked + 1 \in Nat
  <2> HIDE DEF h
  <2>1. s \in RunStates
    BY <1>2, <1>4 DEF RunStates
  <2>2. /\ s.backlog = b /\ s.delivered = nState.delivered /\ s.post = nState.post
        /\ s.previous = nState.previous /\ s.gaps = nState.gaps /\ s.latencies = nState.latencies /\ s.first = h
        /\ s.failure = nState.failure
    BY <1>2 DEF RunStates
  <2> HIDE DEF s
  <2>3. s.checked \in Nat
    BY <2>1 DEF RunStates
  <2> QED
    BY <1>2, <2>1, <2>2, <2>3
<1>6. nTaken # <<>> => nState.first \in Nat
  BY <1>2, TakenFacts DEF MeasuredFrom
<1>7. nTaken # <<>> => h = nState.first
  BY <1>6 DEF NoTick
<1> HIDE DEF s
<1>8. MeasuredFrom(s, nTaken)
  <2> HIDE DEF h
  <2> QED
    BY <1>2, <1>5, <1>7, MeasuredSame
<1>9. failure \in RunFailures
  BY FrameFailure
<1>10. CASE failure = "NONE"
  <2>1. /\ f \in TakenFrames /\ (s.previous = NoTick => ~ nPc.inWorker)
        /\ s.previous # NoTick => ~ (f.at <= s.previous) /\ ~ (f.at - s.previous >= StallGap)
    BY <1>10, FrameFailure
  <2>2. f.wait \in Nat /\ f.wait >= 0
    BY <2>1, TakenFrame
  <2>3. nTaken = <<>> => s.first = f.at
    BY <1>2, <1>5, <2>2
  <2>4. nTaken # <<>> => s.previous # NoTick
    <3>1. nTaken # <<>> => nState.previous \in Nat
      BY <1>2, TakenFacts DEF MeasuredFrom
    <3> QED
      BY <1>5, <3>1 DEF NoTick
  <2>5. /\ record(s, f) \in RunStates /\ MeasuredFrom(record(s, f), Append(nTaken, f))
        /\ record(s, f).backlog = s.backlog /\ record(s, f).failure = s.failure
    BY <1>2, <1>5, <1>8, <2>1, <2>3, <2>4, RecordMeasured
  <2>6. ~ nPc.inWorker
    <3>1. nPc.inWorker => s.previous = NoTick
      BY <1>2, <1>5 DEF MeasuredFrom
    <3> QED
      BY <2>1, <3>1
  <2>7. nState' \in RunStates /\ MeasuredFrom(nState', nTaken') /\ nState'.backlog = b /\ nState'.failure = "NONE"
    BY <1>1, <1>5, <1>10, <2>5
  <2>8. nTaken' \in Seq(TakenFrames) /\ nTaken' # <<>>
    BY <1>1, <1>2, <1>10, <2>1
  <2>9. LongestWait(nState', nTaken')
    <3>1. /\ Len(nTaken') = Len(nTaken) + 1 /\ nTaken'[Len(nTaken) + 1] = f /\ Len(nTaken) \in Nat
          /\ \A i \in 1 .. Len(nTaken) : nTaken'[i] = nTaken[i]
      BY <1>1, <1>2, <1>10
    <3>2. \A i \in 1 .. Len(nTaken) : nTaken[i].wait \in Nat /\ nTaken[i].wait <= nState.backlog
      BY <1>2, TakenFacts DEF LongestWait
    <3>3. \A i \in 1 .. Len(nTaken') : nTaken'[i].wait <= b
      <4> SUFFICES ASSUME NEW i \in 1 .. Len(nTaken') PROVE nTaken'[i].wait <= b
        OBVIOUS
      <4>1. CASE i = Len(nTaken) + 1
        BY <1>4, <2>2, <3>1, <4>1
      <4>2. CASE i # Len(nTaken) + 1
        <5>1. i \in 1 .. Len(nTaken)
          BY <3>1, <4>2
        <5>2. nTaken'[i] = nTaken[i] /\ nTaken[i].wait \in Nat /\ nTaken[i].wait <= nState.backlog
          BY <3>1, <3>2, <5>1
        <5> QED
          BY <1>4, <5>2
      <4> QED
        BY <4>1, <4>2
    <3>4. b = 0 \/ \E i \in 1 .. Len(nTaken') : nTaken'[i].wait = b
      <4>1. CASE b = f.wait
        <5>1. Len(nTaken) + 1 \in 1 .. Len(nTaken')
          BY <3>1
        <5> QED
          BY <3>1, <4>1, <5>1
      <4>2. CASE b = nState.backlog
        <5>1. \A i \in 1 .. Len(nTaken) : i \in 1 .. Len(nTaken')
          BY <3>1
        <5> QED
          BY <1>2, <3>1, <4>2, <5>1 DEF LongestWait
      <4> QED
        BY <1>4, <4>1, <4>2
    <3> QED
      BY <2>7, <3>3, <3>4 DEF LongestWait
  <2>10. /\ nPc' \in [at : RunPlaces, inWorker : BOOLEAN] /\ nPc'.at \in {"cleanup", "capture"}
         /\ nPc'.inWorker = nPc.inWorker
    <3>1. CASE over
      BY <1>1, <1>2, <1>10, <3>1, RunReaches DEF RunPlaces
    <3>2. CASE ~ over
      BY <1>1, <1>2, <1>10, <3>2, RunReaches DEF RunPlaces
    <3> QED
      BY <3>1, <3>2
  <2>11. RunMeasures'
    BY <2>7, <2>8, <2>9 DEF RunMeasures
  <2> QED
    BY <2>6, <2>7, <2>8, <2>10, <2>11 DEF RunInv, RunReceiptExact
<1>11. CASE failure # "NONE"
  <2>1. stops \in 0 .. 1 /\ seen \in 0 .. 1 /\ checked \in Nat
    BY <1>5
  <2>2. nState' = [s EXCEPT !.failure = failure, !.stops = stops, !.seen = seen, !.checked = checked]
    BY <1>1, <1>11
  <2> HIDE DEF failure, stops, seen, checked, h
  <2>3. nState' \in RunStates
    BY <1>5, <1>9, <2>1, <2>2 DEF RunStates
  <2>4. /\ nState'.delivered = s.delivered /\ nState'.post = s.post /\ nState'.previous = s.previous
        /\ nState'.gaps = s.gaps /\ nState'.latencies = s.latencies /\ nState'.first = s.first /\ nState'.failure = failure
    BY <1>5, <2>2 DEF RunStates
  <2>5. MeasuredFrom(nState', nTaken)
    BY <1>8, <2>4, MeasuredSame
  <2>6. nTaken' = nTaken
    BY <1>1, <1>11
  <2>7. RunMeasures' /\ (nPc.inWorker => nTaken' = <<>>)
    BY <1>2, <1>11, <2>3, <2>4, <2>5, <2>6 DEF RunMeasures
  <2>8. nPc' \in [at : RunPlaces, inWorker : BOOLEAN] /\ nPc'.at = "cleanup" /\ nPc'.inWorker = nPc.inWorker
    BY <1>1, <1>2, <1>11, RunReaches DEF RunPlaces
  <2>9. failure # "CLEANUP_INCOMPLETE"
    BY <1>9 DEF RunFailures
  <2> QED
    BY <2>4, <2>7, <2>8, <2>9 DEF RunInv, RunReceiptExact
<1> QED
  BY <1>10, <1>11

LEMMA RunCleanup == RunInv /\ cleanup => RunInv'
<1> SUFFICES ASSUME RunInv, cleanup PROVE RunInv'
  OBVIOUS
<1>1. PICK held \in SUBSET Resources :
        nHeld' = held /\ nState' = [nState EXCEPT !.failure = after_cleanup(nState.failure, held)]
  BY DEF cleanup
<1>2. /\ nPc.at = "cleanup" /\ nState \in RunStates /\ MeasuredFrom(nState, nTaken) /\ nTaken' = nTaken
      /\ nState.failure # "CLEANUP_INCOMPLETE" /\ nState.failure \in RunFailures \cup {"CLEANUP_INCOMPLETE"}
      /\ nState.failure = "NONE" => LongestWait(nState, nTaken)
  BY DEF cleanup, RunInv, RunMeasures, RunStates
<1>3. /\ after_cleanup(nState.failure, held) \in RunFailures \cup {"CLEANUP_INCOMPLETE"}
      /\ after_cleanup(nState.failure, held) = "NONE" => nState.failure = "NONE"
      /\ ~ nPc.inWorker /\ after_cleanup(nState.failure, held) # "PRIVACY_STOP"
           => (held # {} <=> after_cleanup(nState.failure, held) = "CLEANUP_INCOMPLETE")
  BY <1>2 DEF after_cleanup, RunFailures
<1>4. PICK code : code = after_cleanup(nState.failure, held)
  OBVIOUS
<1>5. /\ nState' \in RunStates /\ MeasuredFrom(nState', nTaken) /\ nState'.failure = code
      /\ LongestWait(nState, nTaken) => LongestWait(nState', nTaken)
  BY <1>1, <1>2, <1>3, <1>4, Failing
<1>6. nPc' \in [at : RunPlaces, inWorker : BOOLEAN] /\ nPc'.at = "result" /\ nPc'.inWorker = nPc.inWorker
  BY RunReaches DEF RunInv, cleanup, RunPlaces
<1>7. RunMeasures' /\ (nPc.inWorker => nTaken' = <<>>)
  BY <1>2, <1>3, <1>4, <1>5 DEF RunInv, RunMeasures
<1> QED
  BY <1>1, <1>3, <1>4, <1>5, <1>6, <1>7 DEF RunInv, RunReceiptExact

LEMMA RunResult == RunInv /\ result => RunInv'
<1> SUFFICES ASSUME RunInv, result PROVE RunInv'
  OBVIOUS
<1>1. /\ nState \in RunStates /\ nTaken \in Seq(TakenFrames) /\ MeasuredFrom(nState, nTaken)
      /\ nState.failure = "NONE" => LongestWait(nState, nTaken)
      /\ nHeld \in SUBSET Resources /\ (nPc.inWorker => nTaken = <<>>)
      /\ ~ nPc.inWorker /\ nState.failure # "PRIVACY_STOP" => (nHeld # {} <=> nState.failure = "CLEANUP_INCOMPLETE")
      /\ UNCHANGED <<nState, nTaken, nLaunched, nHeld>>
  BY DEF result, RunInv, RunMeasures
<1>2. CASE nState.failure = "PRIVACY_STOP"
  <2>1. PICK r : r = privacy_receipt(nState, nHeld)
    OBVIOUS
  <2>2. Unfinal(r) /\ CandidateSound(r) /\ r.outcome = "NO_GO"
    BY <2>1, PrivacySound
  <2>3. RunJudged(r)
    BY <1>2, <2>2 DEF RunJudged
  <2>4. candidate(r)
    BY <1>2, <2>1 DEF result
  <2> QED
    BY <1>1, <2>2, <2>3, <2>4, RunCandidate DEF Unfinal
<1>3. CASE nState.failure # "PRIVACY_STOP"
  <2>1. PICK r : r = result_receipt(nState, nHeld)
    OBVIOUS
  <2>2. candidate(r)
    BY <1>3, <2>1 DEF result
  <2>3. ASSUME nPc.inWorker PROVE r.failure # "AUTHORITY_FINALIZATION_FAILED"
    BY <1>1, <2>1, <2>3, WorkerResult DEF MeasuredFrom
  <2>4. ASSUME ~ nPc.inWorker PROVE Unfinal(r) /\ CandidateSound(r) /\ RunJudged(r)
    <3>1. /\ Unfinal(r) /\ CandidateSound(r)
          /\ r.outcome = "PASS" => nHeld = {} /\ r.checked = Len(nTaken) /\ AcceptableRun(nTaken)
          /\ nState.failure = "NONE" /\ nTaken # <<>> /\ AcceptableRun(nTaken) => r.outcome = "PASS"
      BY <1>1, <1>3, <2>1, <2>4, ResultSound
    <3> QED
      BY <2>4, <3>1 DEF RunJudged
  <2> QED
    BY <1>1, <2>2, <2>3, <2>4, RunCandidate
<1> QED
  BY <1>2, <1>3

\* Whatever the parent takes over is a refusal that verifies.
LEMMA RunParent ==
  ASSUME RunInv, nPc.at = "reported", NEW r, NEW revoked \in BOOLEAN, parent_takes(r, revoked),
         candidate_semantics_are_valid(r) => Unfinal(r) /\ CandidateSound(r) /\ r.outcome = "NO_GO"
  PROVE  RunInv'
<1>1. /\ nPc' \in [at : RunPlaces, inWorker : BOOLEAN] /\ nPc'.at = "terminalize" /\ nPc'.inWorker = nPc.inWorker
      /\ nPc.inWorker
  BY RunReaches DEF RunInv, parent_takes, RunPlaces
<1>2. RunMeasures' /\ (nPc.inWorker => nTaken' = <<>>)
  BY DEF RunInv, RunMeasures, parent_takes
<1>3. Unfinal(nReceipt') /\ CandidateSound(nReceipt') /\ nReceipt'.outcome = "NO_GO"
  <2>1. CASE ~ revoked
    <3>1. nReceipt' = bare_receipt("UNKNOWN_TECHNICAL_FAILURE", {})
      BY <2>1 DEF parent_takes
    <3> QED
      BY <3>1, BareSound
  <2>2. CASE revoked /\ candidate_semantics_are_valid(r)
    BY <2>2 DEF parent_takes
  <2>3. CASE revoked /\ ~ candidate_semantics_are_valid(r)
    <3>1. nReceipt' = bare_receipt("WORKER_PROTOCOL_FAILURE", {})
      BY <2>3 DEF parent_takes
    <3> QED
      BY <3>1, BareSound
  <2> QED
    BY <2>1, <2>2, <2>3
<1>4. RunJudged(nReceipt)'
  BY <1>1, <1>3 DEF RunJudged
<1> QED
  BY <1>1, <1>2, <1>3, <1>4 DEF RunInv, RunReceiptExact

LEMMA RunMonitor == RunInv /\ (monitor_allows \/ monitor_refuses) => RunInv'
<1>1. ASSUME RunInv, monitor_allows PROVE RunInv'
  <2>1. nPc.at = "reported" /\ nReceipt.failure # "AUTHORITY_FINALIZATION_FAILED"
    BY <1>1 DEF monitor_allows, RunInv
  <2>2. PICK q : q = deserialize_worker_receipt(nReceipt)
    OBVIOUS
  <2>3. PICK t : t = supervisor_failure_receipt("WORKER_PROTOCOL_FAILURE", TRUE, FALSE)
    OBVIOUS
  <2>4. PICK taken : taken = IF candidate_semantics_are_valid(q) THEN q ELSE t
    OBVIOUS
  <2>5. PICK revoked \in BOOLEAN : parent_takes(taken, revoked)
    BY <1>1, <2>2, <2>3, <2>4 DEF monitor_allows
  <2>6. candidate_semantics_are_valid(q) => Unfinal(q) /\ CandidateSound(q) /\ q.outcome = "NO_GO"
    BY <2>1, <2>2, ParentRefuses
  <2>7. candidate_semantics_are_valid(t) => Unfinal(t) /\ CandidateSound(t) /\ t.outcome = "NO_GO"
    <3>1. TRUE \in BOOLEAN /\ FALSE \in BOOLEAN
      OBVIOUS
    <3> QED
      BY <2>3, <3>1, SupervisorRefuses
  <2>8. candidate_semantics_are_valid(taken) => Unfinal(taken) /\ CandidateSound(taken) /\ taken.outcome = "NO_GO"
    BY <2>4, <2>6, <2>7
  <2> QED
    BY <1>1, <2>1, <2>5, <2>8, RunParent
<1>2. ASSUME RunInv, monitor_refuses PROVE RunInv'
  <2>1. PICK drained \in BOOLEAN, leased \in BOOLEAN, late \in BOOLEAN, revoked \in BOOLEAN :
          parent_takes(supervisor_failure_receipt(IF late THEN "PRIVACY_GUARD_TIMEOUT"
                                                  ELSE IF leased \/ ~ drained THEN "CLEANUP_INCOMPLETE"
                                                  ELSE "WORKER_PROTOCOL_FAILURE", drained, leased), revoked)
    BY <1>2 DEF monitor_refuses
  <2>2. PICK code : code = IF late THEN "PRIVACY_GUARD_TIMEOUT"
                           ELSE IF leased \/ ~ drained THEN "CLEANUP_INCOMPLETE" ELSE "WORKER_PROTOCOL_FAILURE"
    OBVIOUS
  <2>3. code \in {"WORKER_PROTOCOL_FAILURE", "PRIVACY_GUARD_TIMEOUT", "CLEANUP_INCOMPLETE"}
    BY <2>2
  <2>4. PICK t : t = supervisor_failure_receipt(code, drained, leased)
    OBVIOUS
  <2>5. candidate_semantics_are_valid(t) => Unfinal(t) /\ CandidateSound(t) /\ t.outcome = "NO_GO"
    BY <2>3, <2>4, SupervisorRefuses
  <2>6. parent_takes(t, revoked)
    BY <2>1, <2>2, <2>4
  <2> QED
    BY <1>2, <2>5, <2>6, RunParent DEF monitor_refuses
<1> QED
  BY <1>1, <1>2

LEMMA RunTerminal == RunInv /\ terminalize => RunInv'
<1> SUFFICES ASSUME RunInv, terminalize PROVE RunInv'
  OBVIOUS
<1>1. /\ Unfinal(nReceipt) /\ CandidateSound(nReceipt) /\ RunJudged(nReceipt)
      /\ UNCHANGED <<nState, nTaken, nLaunched, nHeld>>
  BY DEF terminalize, RunInv
<1>2. nPc' \in [at : RunPlaces, inWorker : BOOLEAN] /\ nPc'.at = "done" /\ nPc'.inWorker = nPc.inWorker
  BY RunReaches DEF RunInv, terminalize, RunPlaces
<1>3. RunMeasures' /\ (nPc.inWorker => nTaken' = <<>>)
  BY <1>1 DEF RunInv, RunMeasures
<1>4. PICK sealed : sealed = [nReceipt EXCEPT !.sealed = TRUE]
  OBVIOUS
<1>5. PICK unstored : unstored = [nReceipt EXCEPT !.outcome = "NO_GO", !.failure = "AUTHORITY_FINALIZATION_FAILED"]
  OBVIOUS
<1>6. nReceipt' = sealed \/ nReceipt' = unstored
  BY <1>4, <1>5 DEF terminalize
<1>7. CASE nReceipt' = sealed
  <2>1. /\ run_receipt_verifies(sealed) /\ sealed.failure # "AUTHORITY_FINALIZATION_FAILED"
        /\ sealed.outcome = nReceipt.outcome /\ sealed.checked = nReceipt.checked
    BY <1>1, <1>4, Sealing DEF Unfinal
  <2>2. RunReceiptExact'
    BY <1>1, <1>2, <1>7, <2>1 DEF RunReceiptExact, RunJudged
  <2> QED
    BY <1>2, <1>3, <2>2 DEF RunInv
<1>8. CASE nReceipt' = unstored
  <2>1. /\ unstored.outcome = "NO_GO" /\ unstored.failure = "AUTHORITY_FINALIZATION_FAILED" /\ unstored.sealed = FALSE
        /\ ~ run_receipt_verifies(unstored)
    BY <1>1, <1>5, Unstored
  <2>2. RunReceiptExact'
    BY <1>1, <1>2, <1>8, <2>1 DEF RunReceiptExact
  <2> QED
    BY <1>2, <1>3, <2>2 DEF RunInv
<1> QED
  BY <1>6, <1>7, <1>8

LEMMA RunRest == RunInv /\ UNCHANGED runVars => RunInv'
<1> SUFFICES ASSUME RunInv, UNCHANGED runVars PROVE RunInv'
  OBVIOUS
<1>1. UNCHANGED <<nPc, nState, nTaken, nLaunched, nReceipt, nHeld>>
  BY DEF runVars
<1> QED
  BY <1>1 DEF RunInv, RunMeasures, RunReceiptExact, RunJudged

LEMMA RunStep == RunInv /\ [RunNext]_runVars => RunInv'
<1> SUFFICES ASSUME RunInv, [RunNext]_runVars PROVE RunInv'
  OBVIOUS
<1>1. CASE RunNext
  <2>1. CASE refused
    BY <2>1, RunRefused
  <2>2. CASE capture_starts
    BY <2>2, RunCapture
  <2>3. CASE launch_raises \/ frame_reader_fails
    BY <2>3, RunReaderFails
  <2>4. CASE \E f \in RunFrames : frame_arrives(f)
    BY <2>4, RunFrame
  <2>5. CASE cleanup
    BY <2>5, RunCleanup
  <2>6. CASE result
    BY <2>6, RunResult
  <2>7. CASE monitor_allows \/ monitor_refuses
    BY <2>7, RunMonitor
  <2>8. CASE terminalize
    BY <2>8, RunTerminal
  <2> QED
    BY <1>1, <2>1, <2>2, <2>3, <2>4, <2>5, <2>6, <2>7, <2>8 DEF RunNext
<1>2. CASE UNCHANGED runVars
  BY <1>2, RunRest
<1> QED
  BY <1>1, <1>2

\* Every receipt of a preflight passes its own verifier, unless its terminal record could not
\* be stored; it says PASS only, and in process always, when the measured frames, judged by
\* their definition and not by the running sums, are acceptable and every resource is back
\* (_run_consumed, _RunState.record, _receipt, verify_receipt_semantics).
THEOREM RunReceiptExactHolds == RunSpec => []RunReceiptExact
<1>1. RunInit => RunInv
  BY RunStart
<1>2. RunInv /\ [RunNext]_runVars => RunInv'
  BY RunStep
<1>3. RunInv => RunReceiptExact
  BY DEF RunInv
<1> QED
  BY <1>1, <1>2, <1>3, PTL DEF RunSpec

------------------------------------------------------------------------------
(* The components together: each of them, alone, is the whole model seen through its variables. *)

\* Every behaviour of the model is a behaviour of each component: in a step that is not its
\* own a component rests (OthersRest), whatever component the model looks at.
THEOREM EachComponentRuns ==
  Spec => /\ WorkSpec /\ AccessSpec /\ ChainSpec /\ NativeSpec /\ StagedSpec /\ BootSpec /\ PrepSpec
          /\ ContractSpec /\ RunSpec /\ SynSpec /\ RuleSpec /\ ReviewSpec /\ RegistrySpec
<1>1. Init => /\ WorkInit /\ AccessInit /\ ChainInit /\ NativeInit /\ StagedInit /\ BootInit /\ PrepInit
              /\ ContractInit /\ RunInit /\ SynInit /\ RuleInit /\ ReviewInit /\ RegistryInit
  BY DEF Init
<1>2. ASSUME [Next]_componentVars
      PROVE  /\ [WorkNext]_wsVars /\ [AccessNext]_accessVars /\ [ChainNext]_chainVars /\ [NativeNext]_nativeVars
             /\ [StagedNext]_stagedVars /\ [BootNext]_bootVars /\ [PrepNext]_prepVars
             /\ [ContractNext]_contractVars /\ [RunNext]_runVars /\ [SynNext]_synVars /\ [RuleNext]_ruleVars
             /\ [ReviewNext]_reviewVars /\ [RegistryNext]_registryVars
  <2>1. CASE Next
    BY <2>1 DEF Next, OthersRest
  <2>2. CASE UNCHANGED componentVars
    BY <2>2 DEF componentVars
  <2> QED
    BY <1>2, <2>1, <2>2
<1>3. Spec => WorkSpec
  BY <1>1, <1>2, PTL DEF Spec, WorkSpec
<1>4. Spec => AccessSpec
  BY <1>1, <1>2, PTL DEF Spec, AccessSpec
<1>5. Spec => ChainSpec
  BY <1>1, <1>2, PTL DEF Spec, ChainSpec
<1>6. Spec => NativeSpec
  BY <1>1, <1>2, PTL DEF Spec, NativeSpec
<1>7. Spec => StagedSpec
  BY <1>1, <1>2, PTL DEF Spec, StagedSpec
<1>8. Spec => BootSpec
  BY <1>1, <1>2, PTL DEF Spec, BootSpec
<1>9. Spec => PrepSpec
  BY <1>1, <1>2, PTL DEF Spec, PrepSpec
<1>10. Spec => ContractSpec
  BY <1>1, <1>2, PTL DEF Spec, ContractSpec
<1>11. Spec => RunSpec
  BY <1>1, <1>2, PTL DEF Spec, RunSpec
<1>12. Spec => SynSpec
  BY <1>1, <1>2, PTL DEF Spec, SynSpec
<1>13. Spec => RuleSpec
  BY <1>1, <1>2, PTL DEF Spec, RuleSpec
<1>14. Spec => ReviewSpec
  BY <1>1, <1>2, PTL DEF Spec, ReviewSpec
<1>15. Spec => RegistrySpec
  BY <1>1, <1>2, PTL DEF Spec, RegistrySpec
<1> QED
  BY <1>3, <1>4, <1>5, <1>6, <1>7, <1>8, <1>9, <1>10, <1>11, <1>12, <1>13, <1>14, <1>15

\* What the run Components checks of a small instance, for every value of the constants: the
\* invariants of all components.
THEOREM ComponentsSafe ==
  Spec => /\ []LedgerTruthful /\ []NoCaptureWithoutExam /\ []GuessesBounded /\ []LaunchBacked
          /\ []TerminalTruthful /\ []NativeSingleCapture /\ []StepsBacked /\ []ReceiptTruthful
          /\ []LeasesAccounted /\ []EvaluationExact /\ []RunReceiptExact /\ []SyntheticEvidenceSound
          /\ []EventsBacked /\ []ExportUnambiguous
<1>1. Spec => []LedgerTruthful /\ []NoCaptureWithoutExam
  BY EachComponentRuns, LedgerTruthfulInvariant, NoCaptureWithoutExamInvariant
<1>2. Spec => []GuessesBounded
  BY EachComponentRuns, GuessesBoundedInvariant
<1>3. Spec => []LaunchBacked /\ []TerminalTruthful
  BY EachComponentRuns, LaunchBackedInvariant, TerminalTruthfulInvariant
<1>4. Spec => []NativeSingleCapture
  BY EachComponentRuns, NativeSingleCaptureInvariant
<1>5. Spec => []StepsBacked
  BY EachComponentRuns, StepsBackedInvariant
<1>6. Spec => []ReceiptTruthful
  BY EachComponentRuns, ReceiptTruthfulInvariant
<1>7. Spec => []LeasesAccounted
  BY EachComponentRuns, LeasesAccountedInvariant
<1>8. Spec => []EvaluationExact
  BY EachComponentRuns, EvaluationExactHolds
<1>9. Spec => []RunReceiptExact
  BY EachComponentRuns, RunReceiptExactHolds
<1>10. Spec => []SyntheticEvidenceSound
  BY EachComponentRuns, SyntheticEvidenceSoundInvariant
<1>11. Spec => []EventsBacked
  BY EachComponentRuns, EventsBackedInvariant
<1>12. Spec => []ExportUnambiguous
  BY EachComponentRuns, ExportUnambiguousInvariant
<1> QED
  BY <1>1, <1>2, <1>3, <1>4, <1>5, <1>6, <1>7, <1>8, <1>9, <1>10, <1>11, <1>12

\* The action properties the run checks, likewise: no answer after the capture ended, the life
\* of a reviewer's token, no model but a verified one.  Beyond the run, the three authorities
\* implement SingleUse.
THEOREM ComponentsActions ==
  Spec => /\ NoAnswerAfterCapture /\ TokenLifetime /\ OnlyVerifiedServes
          /\ NativeUsedOnce /\ StagedUsedOnce /\ ChainUsedOnce
<1>1. Spec => NoAnswerAfterCapture
  BY EachComponentRuns, NoLateAnswers
<1>2. Spec => TokenLifetime
  BY EachComponentRuns, TokenLifetimeHolds
<1>3. Spec => OnlyVerifiedServes
  BY EachComponentRuns, OnlyVerifiedServesHolds
<1>4. Spec => NativeUsedOnce
  BY EachComponentRuns, NativeUsedOnceHolds
<1>5. Spec => StagedUsedOnce
  BY EachComponentRuns, StagedUsedOnceHolds
<1>6. Spec => ChainUsedOnce
  BY EachComponentRuns, ChainUsedOnceHolds
<1> QED
  BY <1>1, <1>2, <1>3, <1>4, <1>5, <1>6
=============================================================================
