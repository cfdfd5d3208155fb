---------------------- MODULE OptimizationSearchProofs ----------------------
(***************************************************************************)
(* The search for a faster kernel, for any size of the beam, any number of *)
(* workers, rounds and runs, and any range of times.                       *)
(*                                                                         *)
(* What a round has found is on its way through the queue into the list of *)
(* results (Arrived is both together), and in no other place: of every     *)
(* worker that has exited, once.  So nothing is missing when the strategy  *)
(* and the database are updated, after all workers were joined.  The best  *)
(* programs are the ones that sort before the others, and a program that   *)
(* once did not get among them has a whole beam of faster ones before it.  *)
(***************************************************************************)
EXTENDS OptimizationSearch, FiniteSetTheorems, SequenceTheorems, TLAPS

(* What is in the queue comes after what was collected from it. *)
Arrived == results \o pipe

TopSize == IF strategy = "greedy" THEN 1 ELSE NumTopKernels

(* Programs are of runs that have begun; a round that begins is not past a limit. *)
PlacesInv ==
    /\ run = 0 => manager = "off" /\ database = {}
    /\ \A p \in database \cup file.programs : p.run <= run
    /\ run > 0 => Len(top) = TopSize
    /\ manager = "choosing" => round < MaxRounds
    /\ strategy = "greedy" /\ manager \in {"choosing", "joining", "collecting"} =>
           no_improvement < MaxNoImprovement

(* Only the workers the manager has not come to yet are alive. *)
WorkersInv ==
    \A w \in Workers :
        /\ worker[w].state = "benchmarking" => worker[w].left > 0
        /\ Alive(w) => manager = "joining" /\ joined < w
        /\ worker[w].state # "absent" => w <= NumWorkers

(* Every worker that has exited has left one result, and it is its own. *)
ResultsInv ==
    manager \in {"joining", "collecting"} =>
        /\ \A i \in DOMAIN Arrived :
               LET r == Arrived[i] IN
               /\ worker[r.worker].state = "exited"
               /\ worker[r.worker].found = IF r.success THEN r.time ELSE 0
        /\ \A i, j \in DOMAIN Arrived : i # j => Arrived[i].worker # Arrived[j].worker
        /\ \A w \in Workers :
               worker[w].state = "exited" => \E i \in DOMAIN Arrived : Arrived[i].worker = w

RoundInv == TypeOK /\ PlacesInv /\ WorkersInv /\ ResultsInv

(* Until the next round the database has what the workers of this one have found. *)
KeptInv ==
    manager \in {"saving", "writing", "checking"} =>
        \A w \in Workers :
            worker[w].state = "exited" /\ worker[w].found # 0 =>
                [run |-> run, round |-> round, worker |-> w, time |-> worker[w].found] \in database

(* What was finished is of runs that have begun and of rounds that have ended. *)
FinishedIsPast ==
    \A p \in finished :
        /\ p.run <= run
        /\ p.run = run => p.round <= round
        /\ p.run = run /\ p.round = round => manager \in {"checking", "choosing", "done", "off"}

(* The database has what was finished, and besides that what is being saved. *)
DatabaseIsComplete ==
    manager # "off" =>
        /\ \A p \in finished : KeptIn(database, p)
        /\ manager \in {"saving", "writing"} =>
               /\ Range(Entries) \subseteq database
               /\ database \subseteq finished \cup Range(Entries)
        /\ manager \notin {"saving", "writing"} => database \subseteq finished

FileInv == FinishedIsPast /\ DatabaseIsComplete /\ FileHasFinishedRounds

(* At no time is a program forgotten for a slower one. *)
BestInv ==
    \A p \in Found : p \in Range(top) \/ \A i \in DOMAIN top : top[i].time <= p.time

-----------------------------------------------------------------------------
(* The limits of a search, and the indices of what the strategies sort, are finite. *)

(* The elements of a finite, linearly ordered set, given by the sets of those not after
   each one, are placed from 1 on without a gap. *)
LEMMA PlacesFill ==
    ASSUME NEW S, IsFiniteSet(S), NEW NotAfter \in [S -> SUBSET S],
           \A i \in S : i \in NotAfter[i],
           \A i, j \in S : i # j => (i \in NotAfter[j] <=> j \notin NotAfter[i]),
           \A i, j \in S : i \in NotAfter[j] => NotAfter[i] \subseteq NotAfter[j],
           NEW place, place = [i \in S |-> Cardinality(NotAfter[i])]
    PROVE  /\ place \in [S -> 1 .. Cardinality(S)]
           /\ \A i, j \in S : place[i] <= place[j] <=> i \in NotAfter[j]
           /\ \A i, j \in S : place[i] = place[j] => i = j
           /\ \A k \in 1 .. Cardinality(S) : \E i \in S : place[i] = k
<1> DEFINE n == Cardinality(S)
<1>1. \A i \in S : IsFiniteSet(NotAfter[i]) /\ place[i] \in Nat /\ place[i] <= n /\ n \in Nat
  BY FS_Subset, FS_CardinalityType
<1>2. \A i \in S : place[i] # 0
  <2> TAKE i \in S
  <2>1. NotAfter[i] # {}
    OBVIOUS
  <2> QED BY <2>1, <1>1, FS_EmptySet
<1>3. place \in [S -> 1 .. n]
  BY <1>1, <1>2
<1>4. \A i, j \in S : i \in NotAfter[j] /\ i # j => place[i] < place[j]
  <2> SUFFICES ASSUME NEW i \in S, NEW j \in S, i \in NotAfter[j], i # j
               PROVE  place[i] < place[j]
    OBVIOUS
  <2>1. NotAfter[i] \in SUBSET NotAfter[j] /\ NotAfter[i] # NotAfter[j]
    OBVIOUS
  <2>2. /\ Cardinality(NotAfter[i]) <= Cardinality(NotAfter[j])
        /\ Cardinality(NotAfter[j]) # Cardinality(NotAfter[i])
    BY <2>1, <1>1, FS_Subset
  <2> QED BY <2>2, <1>1
<1>5. \A i, j \in S : place[i] <= place[j] <=> i \in NotAfter[j]
  <2> TAKE i \in S, j \in S
  <2>1. CASE i = j
    BY <2>1, <1>1
  <2>2. CASE i # j /\ i \in NotAfter[j]
    BY <2>2, <1>1, <1>4
  <2>3. CASE i # j /\ j \in NotAfter[i]
    <3>1. place[j] < place[i]
      BY <2>3, <1>4
    <3> QED BY <3>1, <2>3, <1>1
  <2> QED BY <2>1, <2>2, <2>3
<1>6. \A i, j \in S : place[i] = place[j] => i = j
  <2> SUFFICES ASSUME NEW i \in S, NEW j \in S, place[i] = place[j], i # j
               PROVE  FALSE
    OBVIOUS
  <2>1. i \in NotAfter[j] \/ j \in NotAfter[i]
    OBVIOUS
  <2> QED BY <2>1, <1>1, <1>4
<1>7. IsFiniteSet(1 .. n) /\ Cardinality(1 .. n) = n
  <2>1. n \in Nat
    BY FS_CardinalityType
  <2> QED BY <2>1, FS_Interval
<1>8. place \in Injection(S, 1 .. n)
  BY <1>3, <1>6 DEF Injection, IsInjective
<1>9. place \in Surjection(S, 1 .. n)
  BY <1>7, <1>8, FS_Injection
<1>10. \A k \in 1 .. n : \E i \in S : place[i] = k
  BY <1>9 DEF Surjection
<1> QED BY <1>3, <1>5, <1>6, <1>10

(* Entries has what EntryOf makes of each successful result, and nothing else. *)
LEMMA EntriesAreSuccesses ==
    ASSUME results \in Seq(Result)
    PROVE  /\ Len(Entries) \in Nat /\ DOMAIN Entries = 1 .. Len(Entries)
           /\ Len(Entries) <= Len(results)
           /\ \A k \in DOMAIN Entries : \E i \in DOMAIN results :
                  results[i].success /\ Entries[k] = EntryOf(results[i])
           /\ \A i \in DOMAIN results : results[i].success =>
                  \E k \in DOMAIN Entries : Entries[k] = EntryOf(results[i])
<1> DEFINE S == {i \in DOMAIN results : results[i].success}
           NotAfter == [i \in S |-> {j \in S : j <= i}]
           Place(i) == Cardinality({j \in S : j <= i})
           place == [i \in S |-> Place(i)]
           n == Cardinality(S)
           At(k) == CHOOSE i \in S : Place(i) = k
<1>1. /\ IsFiniteSet(DOMAIN results) /\ Cardinality(DOMAIN results) = Len(results)
      /\ S \in SUBSET DOMAIN results /\ DOMAIN results = 1 .. Len(results) /\ Len(results) \in Nat
  <2>1. DOMAIN results = 1 .. Len(results) /\ Len(results) \in Nat
    OBVIOUS
  <2> QED BY <2>1, FS_Interval
<1>2. IsFiniteSet(S) /\ n <= Len(results) /\ n \in Nat
  BY <1>1, FS_Subset, FS_CardinalityType
<1>3. \A i \in S : i \in Nat
  BY <1>1
<1>4. /\ NotAfter \in [S -> SUBSET S]
      /\ \A i \in S : i \in NotAfter[i]
      /\ \A i, j \in S : i # j => (i \in NotAfter[j] <=> j \notin NotAfter[i])
      /\ \A i, j \in S : i \in NotAfter[j] => NotAfter[i] \subseteq NotAfter[j]
  BY <1>3
<1>5. place = [i \in S |-> Cardinality(NotAfter[i])]
  OBVIOUS
<1> HIDE DEF NotAfter, n, place, S
<1>6. /\ place \in [S -> 1 .. n]
      /\ \A i, j \in S : place[i] = place[j] => i = j
      /\ \A k \in 1 .. n : \E i \in S : place[i] = k
  BY <1>2, <1>4, <1>5, PlacesFill DEF n
<1>7. \A i \in S : place[i] = Place(i)
  BY DEF place
<1>8. \A k \in 1 .. n : At(k) \in S /\ Place(At(k)) = k
  BY <1>6, <1>7
<1>9. \A i \in S : Place(i) \in 1 .. n /\ At(Place(i)) = i
  <2> TAKE i \in S
  <2>1. Place(i) \in 1 .. n
    BY <1>6, <1>7
  <2>2. At(Place(i)) \in S /\ Place(At(Place(i))) = Place(i)
    BY <2>1, <1>8
  <2> QED BY <2>1, <2>2, <1>6, <1>7
<1>10. Entries = [k \in 1 .. n |-> EntryOf(results[At(k)])]
  BY DEF Entries, S, n
<1> HIDE DEF At, Place
<1>11. DOMAIN Entries = 1 .. n /\ Len(Entries) = n
  BY <1>10, <1>2
<1>12. \A i \in S : i \in DOMAIN results /\ results[i].success
  BY DEF S
<1>13. \A i \in DOMAIN results : results[i].success => i \in S
  BY DEF S
<1> QED BY <1>2, <1>8, <1>9, <1>10, <1>11, <1>12, <1>13

(* The first n of a list sorted by time: what is not among them is no faster than any of
   them, and none of them is slower than all of some n programs of the list. *)
LEMMA FirstByTime ==
    ASSUME NEW programs \in Seq(Program), NEW n \in Nat, n <= Len(programs),
           MaxTime \in Nat,
           NEW first, first = SubSeq(ByTime(programs), 1, n)
    PROVE  /\ first \in Seq(Program) /\ Len(first) = n
           /\ \A i \in DOMAIN programs :
                  \/ programs[i] \in Range(first)
                  \/ \A k \in DOMAIN first : first[k].time <= programs[i].time
           /\ \A t \in Nat :
                  (\A i \in 1 .. n : programs[i].time <= t) =>
                      \A k \in DOMAIN first : first[k].time <= t
<1> DEFINE S == DOMAIN programs
           Before(i, j) == \/ programs[i].time < programs[j].time
                           \/ programs[i].time = programs[j].time /\ i <= j
           NotAfter == [i \in S |-> {j \in S : Before(j, i)}]
           Place(i) == Cardinality({j \in S : Before(j, i)})
           place == [i \in S |-> Place(i)]
           At(k) == CHOOSE i \in S : Place(i) = k
           m == Len(programs)
<1>1. S = 1 .. m /\ m \in Nat /\ IsFiniteSet(S) /\ Cardinality(S) = m
  <2>1. S = 1 .. m /\ m \in Nat
    OBVIOUS
  <2> HIDE DEF S, m
  <2>2. IsFiniteSet(1 .. m) /\ Cardinality(1 .. m) = m
    BY <2>1, FS_Interval
  <2> QED BY <2>1, <2>2
<1>2. \A i \in S : i \in Nat /\ programs[i] \in Program /\ programs[i].time \in Nat
  <2> TAKE i \in S
  <2>1. programs[i] \in Program
    OBVIOUS
  <2>2. programs[i].time \in Nat
    BY <2>1 DEF Program, Infinite
  <2> QED BY <2>1, <2>2, <1>1
<1>3. /\ NotAfter \in [S -> SUBSET S]
      /\ \A i \in S : i \in NotAfter[i]
      /\ \A i, j \in S : i # j => (i \in NotAfter[j] <=> j \notin NotAfter[i])
      /\ \A i, j \in S : i \in NotAfter[j] => NotAfter[i] \subseteq NotAfter[j]
  BY <1>2
<1>4. place = [i \in S |-> Cardinality(NotAfter[i])]
  OBVIOUS
<1>5. \A i, j \in S : (i \in NotAfter[j] => programs[i].time <= programs[j].time)
  BY <1>2
<1>6. \A i, j \in S : programs[i].time < programs[j].time => i \in NotAfter[j]
  BY <1>2
<1>7. \A i \in S : place[i] = Place(i) /\ place[i] = Cardinality(NotAfter[i]) /\ NotAfter[i] \in SUBSET S
  OBVIOUS
<1>8. ByTime(programs) = [k \in S |-> programs[At(k)]]
  BY DEF ByTime
<1> HIDE DEF NotAfter, place, S, Place, At, m
<1>9. /\ place \in [S -> 1 .. m]
      /\ \A i, j \in S : place[i] <= place[j] <=> i \in NotAfter[j]
      /\ \A i, j \in S : place[i] = place[j] => i = j
      /\ \A k \in 1 .. m : \E i \in S : place[i] = k
  <2>1. /\ place \in [S -> 1 .. Cardinality(S)]
        /\ \A i, j \in S : place[i] <= place[j] <=> i \in NotAfter[j]
        /\ \A i, j \in S : place[i] = place[j] => i = j
        /\ \A k \in 1 .. Cardinality(S) : \E i \in S : place[i] = k
    <3>1. IsFiniteSet(S)
      BY <1>1
    <3> QED BY <3>1, <1>3, <1>4, PlacesFill, SMTT(60)
  <2> QED BY <2>1, <1>1
<1>10. \A k \in S : At(k) \in S /\ place[At(k)] = k
  BY <1>1, <1>9, <1>7 DEF At
<1>11. \A i \in S : place[i] \in S /\ At(place[i]) = i
  BY <1>1, <1>9, <1>10
<1>12. ByTime(programs) \in Seq(Program) /\ Len(ByTime(programs)) = m
  BY <1>1, <1>2, <1>8, <1>10
<1>13. /\ first \in Seq(Program) /\ Len(first) = n /\ DOMAIN first = 1 .. n
       /\ \A k \in 1 .. n : k \in S /\ first[k] = programs[At(k)]
  <2>1. n <= m
    BY DEF m
  <2>2. 1 .. n \subseteq S
    BY <2>1, <1>1
  <2>3. first = [k \in 1 .. n |-> ByTime(programs)[k]]
    BY <2>1, <1>1, <1>12 DEF SubSeq
  <2>4. \A k \in 1 .. n : k \in S /\ first[k] = programs[At(k)] /\ first[k] \in Program
    BY <2>2, <2>3, <1>8, <1>10, <1>2
  <2> QED BY <2>3, <2>4
<1>14. ASSUME NEW i \in S
       PROVE  \/ programs[i] \in Range(first)
              \/ \A k \in DOMAIN first : first[k].time <= programs[i].time
  <2>1. CASE place[i] <= n
    <3>1. place[i] \in 1 .. n
      BY <2>1, <1>1, <1>11
    <3>2. first[place[i]] = programs[i]
      BY <3>1, <1>11, <1>13
    <3> QED BY <3>1, <3>2, <1>13 DEF Range
  <2>2. CASE ~ (place[i] <= n)
    <3> SUFFICES ASSUME NEW k \in 1 .. n
                 PROVE  first[k].time <= programs[i].time
      BY <1>13
    <3>1. At(k) \in S /\ place[At(k)] = k /\ first[k] = programs[At(k)]
      BY <1>10, <1>13
    <3>2. place[At(k)] <= place[i]
      BY <3>1, <2>2, <1>1, <1>11
    <3> QED BY <3>1, <3>2, <1>5, <1>9
  <2> QED BY <2>1, <2>2
<1>15. ASSUME NEW t \in Nat, \A i \in 1 .. n : programs[i].time <= t,
              NEW k \in 1 .. n, ~ (first[k].time <= t)
       PROVE  FALSE
  <2> DEFINE i == At(k)
  <2>1. i \in S /\ place[i] = k /\ first[k] = programs[i] /\ programs[i].time \in Nat
    BY <1>2, <1>10, <1>13
  <2>2. \A j \in 1 .. n : j \in S /\ programs[j].time \in Nat
    BY <1>2, <1>13
  <2>3. i \notin 1 .. n
    BY <2>1, <1>15
  <2>4. \A j \in 1 .. n : j \in NotAfter[i]
    <3> TAKE j \in 1 .. n
    <3>1. programs[j].time <= t /\ j \in S /\ programs[j].time \in Nat
      BY <1>15, <2>2
    <3>2. programs[j].time < programs[i].time
      BY <3>1, <2>1, <1>15
    <3> QED BY <3>1, <3>2, <2>1, <1>6
  <2>5. (1 .. n) \cup {i} \in SUBSET NotAfter[i]
    BY <2>1, <2>4, <1>3
  <2>6. IsFiniteSet(1 .. n) /\ Cardinality(1 .. n) = n
    BY FS_Interval
  <2>7. Cardinality((1 .. n) \cup {i}) = n + 1
    BY <2>3, <2>6, FS_AddElement
  <2>8. IsFiniteSet(NotAfter[i])
    BY <2>1, <1>1, <1>7, FS_Subset
  <2>9. Cardinality((1 .. n) \cup {i}) <= Cardinality(NotAfter[i])
    BY <2>5, <2>8, FS_Subset
  <2> QED BY <2>1, <2>7, <2>9, <1>7
<1> QED BY <1>13, <1>14, <1>15 DEF S

-----------------------------------------------------------------------------
(* The limits are numbers, and there is a worker. *)
LEMMA Limits ==
    /\ NumTopKernels \in Nat \ {0} /\ NumBottlenecks \in Nat \ {0}
    /\ MaxNoImprovement \in Nat \ {0} /\ MaxRounds \in Nat \ {0} /\ MaxTime \in Nat \ {0}
    /\ MaxRuns \in Nat
    /\ Infinite \in Nat /\ 1 <= Infinite /\ MaxTime < Infinite
    /\ MaxWorkers \in Nat /\ 1 <= MaxWorkers /\ Workers = 1 .. MaxWorkers
    /\ NumWorkers \in Nat /\ 1 <= NumWorkers /\ NumWorkers <= MaxWorkers
<1>1. /\ NumTopKernels \in Nat \ {0} /\ NumBottlenecks \in Nat \ {0}
      /\ MaxNoImprovement \in Nat \ {0} /\ MaxRounds \in Nat \ {0} /\ MaxTime \in Nat \ {0}
      /\ MaxRuns \in Nat
  BY SearchAssumption DEF SearchAssumption
<1>2. Infinite \in Nat /\ 1 <= Infinite /\ MaxTime < Infinite
  BY <1>1 DEF Infinite
<1>3. NumTopKernels * NumBottlenecks \in Nat /\ 1 <= NumTopKernels * NumBottlenecks
  BY <1>1
<1>4. MaxWorkers \in Nat /\ 1 <= MaxWorkers /\ Workers = 1 .. MaxWorkers
  BY <1>3 DEF MaxWorkers, Workers
<1>5. NumWorkers \in Nat /\ 1 <= NumWorkers /\ NumWorkers <= MaxWorkers
  BY <1>4 DEF NumWorkers
<1> QED BY <1>1, <1>2, <1>4, <1>5

(* Every worker of a round has a program of the strategy's to start from. *)
LEMMA ParentIsThere ==
    ASSUME NEW w \in 1 .. NumWorkers, top \in Seq(Program), Len(top) = TopSize
    PROVE  Parent(w) \in Program /\ Parent(w).time \in 1 .. Infinite
<1> DEFINE i == (w - 1) \div NumBottlenecks
<1>1. w \in Nat /\ 1 <= w /\ w <= NumWorkers
  BY Limits
<1>2. i \in Nat /\ NumBottlenecks * i <= w - 1
  BY <1>1, Limits
<1>3. i < TopSize
  <2>1. CASE strategy = "greedy"
    <3>1. w = 1
      BY <1>1, <2>1 DEF NumWorkers
    <3>2. i = 0
      BY <3>1, Limits
    <3> QED BY <3>2, <2>1 DEF TopSize
  <2>2. CASE strategy # "greedy"
    <3>1. w - 1 < NumTopKernels * NumBottlenecks
      BY <1>1, <2>2, Limits DEF NumWorkers, MaxWorkers
    <3>2. NumBottlenecks * i < NumBottlenecks * NumTopKernels
      <4> HIDE DEF i
      <4> QED BY <3>1, <1>1, <1>2, Limits
    <3>3. ASSUME NumTopKernels <= i PROVE FALSE
      <4> HIDE DEF i
      <4> QED BY <3>2, <3>3, <1>2, Limits
    <3> QED BY <3>3, <1>2, <2>2, Limits DEF TopSize
  <2> QED BY <2>1, <2>2
<1>4. i + 1 \in 1 .. Len(top)
  BY <1>2, <1>3, Limits DEF TopSize
<1>5. top[i + 1] \in Program
  BY <1>4
<1>6. Parent(w) = top[i + 1]
  BY DEF Parent
<1> QED BY <1>5, <1>6 DEF Program

(* The types and what comes with them, where a search begins. *)
LEMMA RoundInvInit == Init => RoundInv
<1> SUFFICES ASSUME Init PROVE RoundInv
  OBVIOUS
<1> USE DEF Init, Whole, Absent
<1>1. strategy \in {"greedy", "beam"}
  BY SearchAssumption DEF SearchAssumption
<1>2. TypeOK
  <2>1. worker \in [Workers -> WorkerState]
    BY Limits DEF WorkerState
  <2>2. /\ run \in 0 .. MaxRuns /\ round \in 0 .. MaxRounds /\ no_improvement \in 0 .. MaxNoImprovement
        /\ lock \in 0 .. MaxWorkers /\ joined \in 0 .. MaxWorkers
    BY Limits
  <2>3. top \in Seq(Program) /\ Len(top) <= NumTopKernels /\ pipe \in Seq(Result) /\ results \in Seq(Result)
    BY Limits
  <2> QED BY <1>1, <2>1, <2>2, <2>3 DEF TypeOK
<1>3. PlacesInv
  BY DEF PlacesInv
<1>4. WorkersInv
  BY DEF WorkersInv, Alive
<1>5. ResultsInv
  BY DEF ResultsInv
<1> QED BY <1>2, <1>3, <1>4, <1>5 DEF RoundInv

(* What has arrived are results of workers of this round. *)
LEMMA ArrivedTyped ==
    ASSUME TypeOK
    PROVE  /\ Arrived \in Seq(Result) /\ DOMAIN Arrived = 1 .. Len(Arrived)
           /\ \A i \in DOMAIN Arrived : Arrived[i] \in Result /\ Arrived[i].worker \in Workers
<1>1. Arrived \in Seq(Result)
  BY DEF Arrived, TypeOK
<1>2. DOMAIN Arrived = 1 .. Len(Arrived) /\ \A i \in DOMAIN Arrived : Arrived[i] \in Result
  BY <1>1
<1> QED BY <1>1, <1>2 DEF Result

(* A new run starts with no workers and only programs of earlier runs. *)
LEMMA StartRunKeepsRound == ASSUME RoundInv, StartRun PROVE RoundInv'
<1> USE DEF StartRun, StartRunOn, Absent
<1>1. TypeOK'
  <2>1. worker' \in [Workers -> WorkerState]
    BY Limits DEF WorkerState
  <2>2. strategy' \in {"greedy", "beam"}
    BY SearchAssumption DEF SearchAssumption
  <2>3. run' \in 1 .. MaxRuns /\ run' \in 0 .. MaxRuns
    BY Limits DEF RoundInv, TypeOK
  <2>4. Initial' \in Program
    BY <2>3, Limits DEF Initial, Program
  <2>5. top' \in Seq(Program) /\ Len(top') <= NumTopKernels
    <3> DEFINE n == IF strategy' = "greedy" THEN 1 ELSE NumTopKernels
    <3>1. n \in Nat /\ n <= NumTopKernels
      BY Limits
    <3>2. top' = [i \in 1 .. n |-> Initial']
      OBVIOUS
    <3> HIDE DEF n, StartRun
    <3>3. Len(top') = n
      BY <3>1, <3>2
    <3>4. top' \in Seq(Program)
      BY <3>1, <3>2, <2>4
    <3> QED BY <3>1, <3>3, <3>4
  <2>6. /\ database' \subseteq Program /\ file'.whole \in BOOLEAN /\ file'.programs \subseteq Program
        /\ finished' \subseteq Program
    BY DEF RoundInv, TypeOK
  <2>7. /\ manager' \in {"choosing", "done"} /\ round' \in 0 .. MaxRounds
        /\ no_improvement' \in 0 .. MaxNoImprovement /\ lock' \in 0 .. MaxWorkers
        /\ joined' \in 0 .. MaxWorkers /\ torn' \in BOOLEAN
    <3>1. 0 \in 0 .. MaxRounds /\ 0 \in 0 .. MaxNoImprovement /\ 0 \in 0 .. MaxWorkers
      <4> HIDE DEF StartRun
      <4> QED BY Limits
    <3> QED BY <3>1
  <2>8. pipe' \in Seq(Result) /\ results' \in Seq(Result)
    OBVIOUS
  <2> HIDE DEF StartRun
  <2> QED BY <2>1, <2>2, <2>3, <2>5, <2>6, <2>7, <2>8 DEF TypeOK
<1>2. PlacesInv'
  <2>1. run \in Nat /\ run' = run + 1
    BY DEF RoundInv, TypeOK
  <2>2. ASSUME NEW p \in database' \cup file'.programs
        PROVE  p.run <= run'
    <3>1. p \in Program /\ p.run <= run
      BY <2>2 DEF RoundInv, TypeOK, PlacesInv
    <3> QED BY <2>1, <3>1 DEF Program
  <2>3. Len(top') = TopSize'
    BY Limits DEF TopSize
  <2> QED BY <2>1, <2>2, <2>3, Limits DEF PlacesInv
<1>3. WorkersInv'
  BY DEF WorkersInv, Alive
<1>4. ResultsInv'
  BY DEF ResultsInv
<1> QED BY <1>1, <1>2, <1>3, <1>4 DEF RoundInv

(* A round starts with no results and with workers up to the number of the strategy. *)
LEMMA SpawnWorkersKeepsRound == ASSUME RoundInv, SpawnWorkers PROVE RoundInv'
<1> USE DEF SpawnWorkers, Absent, searchVars
<1>1. TypeOK'
  <2>1. worker' \in [Workers -> WorkerState]
    BY Limits DEF WorkerState
  <2>2. round' \in 0 .. MaxRounds
    BY Limits DEF RoundInv, TypeOK, PlacesInv
  <2> QED BY <2>1, <2>2, Limits DEF RoundInv, TypeOK
<1>2. PlacesInv'
  BY DEF RoundInv, TypeOK, PlacesInv, TopSize
<1>3. WorkersInv'
  <2> SUFFICES ASSUME NEW w \in Workers
               PROVE  /\ worker'[w].state = "benchmarking" => worker'[w].left > 0
                      /\ Alive(w)' => joined' < w
                      /\ worker'[w].state # "absent" => w <= NumWorkers'
    BY DEF WorkersInv
  <2>1. worker'[w].state \in {"running", "absent"} /\ (worker'[w].state # "absent" => w <= NumWorkers)
    OBVIOUS
  <2>2. NumWorkers' = NumWorkers
    BY DEF NumWorkers
  <2>3. joined' < w
    BY Limits
  <2> QED BY <2>1, <2>2, <2>3
<1>4. ResultsInv'
  BY DEF ResultsInv, Arrived
<1> QED BY <1>1, <1>2, <1>3, <1>4 DEF RoundInv

(* A worker that is joined is not alive any more, and exited ones are left as they are. *)
LEMMA JoinWorkerKeepsRound == ASSUME RoundInv, JoinWorker PROVE RoundInv'
<1> USE DEF JoinWorker, searchVars
<1>1. joined + 1 \in Workers /\ joined \in Nat /\ worker \in [Workers -> WorkerState]
  BY Limits DEF RoundInv, TypeOK
<1>2. worker' \in [Workers -> WorkerState]
  BY <1>1 DEF WorkerState
<1>3. TypeOK'
  <2>1. joined' \in 0 .. MaxWorkers
    BY <1>1, Limits
  <2>2. torn' \in BOOLEAN
    BY DEF RoundInv, TypeOK
  <2> QED BY <1>2, <2>1, <2>2 DEF RoundInv, TypeOK
<1>4. PlacesInv'
  BY DEF RoundInv, TypeOK, PlacesInv, TopSize
<1>5. ASSUME NEW w \in Workers
      PROVE  /\ w # joined + 1 => worker'[w] = worker[w]
             /\ worker'[joined + 1].state \notin {"running", "benchmarking", "writing"}
             /\ worker'[w].state = "benchmarking" => worker'[w] = worker[w]
             /\ worker'[w].state = "exited" <=> worker[w].state = "exited"
             /\ worker'[w].state = "absent" <=> worker[w].state = "absent"
             /\ worker'[w].found = worker[w].found
  <2>1. CASE Alive(joined + 1)
    <3>1. worker' = [worker EXCEPT ![joined + 1].state = "killed"]
      BY <2>1
    <3>2. worker'[joined + 1].state = "killed"
      BY <3>1, <1>1 DEF WorkerState
    <3>3. w # joined + 1 => worker'[w] = worker[w]
      BY <3>1, <1>1
    <3>4. worker'[joined + 1].found = worker[joined + 1].found
      BY <3>1, <1>1 DEF WorkerState
    <3> QED BY <2>1, <3>2, <3>3, <3>4 DEF Alive
  <2>2. CASE ~ Alive(joined + 1)
    <3>1. worker' = worker
      BY <2>2
    <3> QED BY <2>2, <3>1 DEF Alive
  <2> QED BY <2>1, <2>2
<1>6. WorkersInv'
  <2> SUFFICES ASSUME NEW w \in Workers
               PROVE  /\ worker'[w].state = "benchmarking" => worker'[w].left > 0
                      /\ Alive(w)' => joined' < w
                      /\ worker'[w].state # "absent" => w <= NumWorkers'
    BY DEF WorkersInv
  <2>1. NumWorkers' = NumWorkers
    BY DEF NumWorkers
  <2>2. Alive(w)' => joined' < w
    <3>1. CASE w = joined + 1
      <4>1. ~ Alive(w)'
        BY <3>1, <1>5 DEF Alive
      <4> QED BY <4>1
    <3>2. CASE w # joined + 1
      <4>1. Alive(w)' => Alive(w)
        BY <3>2, <1>5 DEF Alive
      <4>2. Alive(w) => joined < w
        BY DEF RoundInv, WorkersInv
      <4>3. w \in Nat
        BY Limits
      <4> QED BY <4>1, <4>2, <4>3, <3>2, <1>1
    <3> QED BY <3>1, <3>2
  <2> QED BY <2>1, <2>2, <1>5 DEF RoundInv, WorkersInv
<1>7. ResultsInv'
  <2>1. Arrived' = Arrived
    BY DEF Arrived
  <2>2. \A i \in DOMAIN Arrived : Arrived[i].worker \in Workers
    BY ArrivedTyped DEF RoundInv
  <2> QED BY <2>1, <2>2, <1>5 DEF ResultsInv, RoundInv
<1> QED BY <1>3, <1>4, <1>6, <1>7 DEF RoundInv

(* The entries of a round are programs of this run and this round. *)
LEMMA EntriesTyped ==
    ASSUME RoundInv, manager # "off"
    PROVE  /\ Entries \in Seq(Program) /\ DOMAIN Entries = 1 .. Len(Entries) /\ Len(Entries) \in Nat
           /\ \A k \in DOMAIN Entries :
                  /\ Entries[k] \in Program
                  /\ Entries[k].run = run /\ Entries[k].round = round
<1>1. results \in Seq(Result) /\ run \in 1 .. MaxRuns /\ round \in 0 .. MaxRounds
  BY Limits DEF RoundInv, TypeOK, PlacesInv
<1>2. ASSUME NEW i \in DOMAIN results
      PROVE  /\ EntryOf(results[i]) \in Program
             /\ EntryOf(results[i]).run = run /\ EntryOf(results[i]).round = round
  <2>1. results[i] \in Result
    BY <1>1
  <2>2. results[i].worker \in 0 .. MaxWorkers /\ results[i].time \in 1 .. Infinite
    BY <2>1, Limits DEF Result
  <2> QED BY <1>1, <2>2 DEF EntryOf, Program
<1>3. /\ Len(Entries) \in Nat /\ DOMAIN Entries = 1 .. Len(Entries)
      /\ \A k \in DOMAIN Entries : \E i \in DOMAIN results :
             results[i].success /\ Entries[k] = EntryOf(results[i])
  BY <1>1, EntriesAreSuccesses
<1>4. \A k \in DOMAIN Entries :
          Entries[k] \in Program /\ Entries[k].run = run /\ Entries[k].round = round
  BY <1>2, <1>3
<1>5. Entries = [k \in 1 .. Len(Entries) |-> Entries[k]]
  <2>1. Entries = [k \in DOMAIN Entries |-> Entries[k]]
    BY DEF Entries
  <2> QED BY <2>1, <1>3
<1>6. Entries \in Seq(Program)
  <2> DEFINE n == Len(Entries)
             Entry(k) == Entries[k]
  <2>1. n \in Nat /\ \A k \in 1 .. n : Entry(k) \in Program
    BY <1>3, <1>4
  <2>2. Entries = [k \in 1 .. n |-> Entry(k)]
    BY <1>5
  <2> HIDE DEF n, Entry
  <2> QED BY <2>1, <2>2
<1> QED BY <1>3, <1>4, <1>6

(* Greedy search has one worker, so one result at most. *)
LEMMA GreedyHasOneEntry ==
    ASSUME RoundInv, manager = "collecting", strategy = "greedy"
    PROVE  Len(Entries) <= 1
<1>1. results \in Seq(Result) /\ pipe \in Seq(Result) /\ Len(results) \in Nat
  BY DEF RoundInv, TypeOK
<1>2. Len(Entries) <= Len(results) /\ Len(Entries) \in Nat
  BY <1>1, EntriesAreSuccesses
<1>3. ASSUME 2 <= Len(results) PROVE FALSE
  <2>1. 1 \in DOMAIN Arrived /\ 2 \in DOMAIN Arrived
    BY <1>1, <1>3 DEF Arrived
  <2>2. \A i \in {1, 2} : Arrived[i].worker \in Workers /\ worker[Arrived[i].worker].state = "exited"
    BY <2>1, ArrivedTyped DEF RoundInv, ResultsInv
  <2>3. \A i \in {1, 2} : Arrived[i].worker <= NumWorkers
    BY <2>2 DEF RoundInv, WorkersInv
  <2>4. \A i \in {1, 2} : Arrived[i].worker = 1
    <3>1. NumWorkers = 1
      BY DEF NumWorkers
    <3> QED BY <2>2, <2>3, <3>1, Limits
  <2>5. Arrived[1].worker # Arrived[2].worker
    BY <2>1 DEF RoundInv, ResultsInv
  <2> QED BY <2>4, <2>5
<1> QED BY <1>1, <1>2, <1>3

(* The strategy keeps as many programs as it has places for, and greedy search counts no
   further than it may. *)
LEMMA UpdateIsTyped ==
    ASSUME RoundInv, manager = "collecting",
           IF strategy = "greedy" THEN UpdateGreedy ELSE UpdateBeam
    PROVE  /\ top' \in Seq(Program) /\ Len(top') = TopSize
           /\ no_improvement' \in 0 .. MaxNoImprovement
<1>1. /\ top \in Seq(Program) /\ Len(top) = TopSize /\ no_improvement \in 0 .. MaxNoImprovement
      /\ no_improvement \in Nat
  BY Limits DEF RoundInv, TypeOK, PlacesInv
<1>2. CASE strategy = "greedy"
  <2>1. no_improvement < MaxNoImprovement
    BY <1>2 DEF RoundInv, PlacesInv
  <2>2. CASE Entries = <<>> \/ ~ (Entries[1].time < top[1].time)
    <3>1. top' = top /\ (no_improvement' = no_improvement \/ no_improvement' = no_improvement + 1)
      BY <1>2, <2>2 DEF UpdateGreedy
    <3> QED BY <3>1, <1>1, <2>1, Limits
  <2>3. CASE Entries # <<>> /\ Entries[1].time < top[1].time
    <3>1. top' = Entries /\ no_improvement' = 0
      BY <1>2, <2>3 DEF UpdateGreedy
    <3>2. Entries \in Seq(Program) /\ Len(Entries) = 1
      <4>1. Entries \in Seq(Program) /\ Len(Entries) \in Nat /\ Len(Entries) <= 1
        BY <1>2, EntriesTyped, GreedyHasOneEntry
      <4>2. Len(Entries) # 0
        BY <4>1, <2>3
      <4> QED BY <4>1, <4>2
    <3> QED BY <3>1, <3>2, <1>2, Limits DEF TopSize
  <2> QED BY <2>2, <2>3
<1>3. CASE strategy # "greedy"
  <2>1. top' = SubSeq(ByTime(top \o Entries), 1, NumTopKernels) /\ no_improvement' = no_improvement
    BY <1>3 DEF UpdateBeam
  <2>2. Len(top) = NumTopKernels /\ NumTopKernels \in Nat /\ MaxTime \in Nat
    BY <1>1, <1>3, Limits DEF TopSize
  <2>3. top \o Entries \in Seq(Program) /\ NumTopKernels <= Len(top \o Entries)
    BY <1>1, <2>2, EntriesTyped
  <2>4. top' \in Seq(Program) /\ Len(top') = NumTopKernels
    BY <2>1, <2>2, <2>3, FirstByTime
  <2> QED BY <2>1, <2>4, <1>1, <1>3 DEF TopSize
<1> QED BY <1>2, <1>3

(* The update of strategy and database. *)
LEMMA UpdateWithResultsKeepsRound == ASSUME RoundInv, UpdateWithResults PROVE RoundInv'
<1>1. /\ manager = "collecting" /\ manager' = "saving"
      /\ IF strategy = "greedy" THEN UpdateGreedy ELSE UpdateBeam
      /\ database' = {p \in database : \A i \in DOMAIN Entries : ~SameId(p, Entries[i])} \cup Range(Entries)
      /\ UNCHANGED <<run, round, file, finished, joined, results, lock, pipe, torn, worker, strategy>>
  BY DEF UpdateWithResults, workerVars
<1>2. /\ top' \in Seq(Program) /\ Len(top') = TopSize
      /\ no_improvement' \in 0 .. MaxNoImprovement
  BY <1>1, UpdateIsTyped
<1>3. TopSize' = TopSize /\ TopSize <= NumTopKernels /\ NumWorkers' = NumWorkers
  BY <1>1, Limits DEF TopSize, NumWorkers
<1>4. \A p \in Range(Entries) : p \in Program /\ p.run = run
  BY <1>1, EntriesTyped DEF Range
<1>5. database' \subseteq Program /\ \A p \in database' : p \in database \/ p \in Range(Entries)
  BY <1>1, <1>4 DEF RoundInv, TypeOK
<1>6. TypeOK'
  BY <1>1, <1>2, <1>3, <1>5 DEF RoundInv, TypeOK
<1>7. PlacesInv'
  <2>1. run' = run /\ run > 0 /\ run <= run
    BY <1>1 DEF RoundInv, TypeOK, PlacesInv
  <2>2. \A p \in database' \cup file'.programs : p.run <= run'
    BY <1>1, <1>4, <1>5, <2>1 DEF RoundInv, PlacesInv
  <2> QED BY <1>1, <1>2, <1>3, <2>1, <2>2 DEF PlacesInv
<1>8. WorkersInv'
  <2> SUFFICES ASSUME NEW w \in Workers
               PROVE  /\ worker'[w].state = "benchmarking" => worker'[w].left > 0
                      /\ ~ Alive(w)'
                      /\ worker'[w].state # "absent" => w <= NumWorkers'
    BY DEF WorkersInv
  <2>1. worker' = worker /\ ~ Alive(w)
    BY <1>1 DEF RoundInv, WorkersInv
  <2> QED BY <2>1, <1>3 DEF RoundInv, WorkersInv, Alive
<1>9. ResultsInv'
  BY <1>1 DEF ResultsInv
<1> QED BY <1>6, <1>7, <1>8, <1>9 DEF RoundInv

(* The other steps of the manager: workers, programs and what has arrived stay, and a
   round is over only when no worker is alive. *)
LEMMA ManagerStepsKeepRound ==
    ASSUME RoundInv,
           BeginCollecting \/ CollectResult \/ OpenDatabase \/ FillDatabase \/ ShouldTerminate
    PROVE  RoundInv'
<1> USE DEF workerVars, searchVars
<1>1. /\ UNCHANGED <<run, round, joined, worker, torn, lock, searchVars>>
      /\ manager = "joining" => manager' = "collecting" /\ joined = NumWorkers
      /\ manager' # "joining" /\ run > 0
      /\ manager' \in {"collecting", "writing", "checking", "done", "choosing"}
  BY DEF BeginCollecting, CollectResult, OpenDatabase, FillDatabase, ShouldTerminate,
         RoundInv, TypeOK, PlacesInv
<1>2. /\ Arrived' = Arrived /\ pipe' \in Seq(Result) /\ results' \in Seq(Result)
  <2>1. CASE CollectResult
    <3>1. /\ pipe \in Seq(Result) /\ results \in Seq(Result) /\ pipe # <<>>
          /\ results' = Append(results, Head(pipe)) /\ pipe' = Tail(pipe)
      BY <2>1 DEF CollectResult, RoundInv, TypeOK
    <3>2. Head(pipe) \in Result /\ pipe' \in Seq(Result) /\ results' \in Seq(Result)
      BY <3>1
    <3>3. Append(results, Head(pipe)) \o Tail(pipe) = results \o pipe
      BY <3>1, <3>2
    <3> QED BY <3>1, <3>2, <3>3 DEF Arrived
  <2>2. CASE ~ CollectResult
    <3>1. pipe' = pipe /\ results' = results
      BY <2>2 DEF BeginCollecting, OpenDatabase, FillDatabase, ShouldTerminate
    <3> QED BY <3>1 DEF Arrived, RoundInv, TypeOK
  <2> QED BY <2>1, <2>2
<1>3. file'.whole \in BOOLEAN /\ file'.programs \subseteq file.programs \cup database
  <2>1. file' \in {file, Torn, Whole(database)}
    BY DEF BeginCollecting, CollectResult, OpenDatabase, FillDatabase, ShouldTerminate
  <2>2. file.whole \in BOOLEAN
    BY DEF RoundInv, TypeOK
  <2>3. CASE file' = file
    BY <2>2, <2>3
  <2>4. CASE file' = Torn
    BY <2>4 DEF Torn
  <2>5. CASE file' = Whole(database)
    BY <2>5 DEF Whole
  <2> QED BY <2>1, <2>3, <2>4, <2>5
<1>4. manager' = "choosing" => ~ Exhausted /\ manager = "checking"
  BY DEF BeginCollecting, CollectResult, OpenDatabase, FillDatabase, ShouldTerminate
<1>5. TypeOK'
  <2>1. CASE FillDatabase
    <3>1. finished' = finished \cup Range(Entries) /\ manager = "writing"
      BY <2>1 DEF FillDatabase
    <3>2. finished' \subseteq Program
      BY <3>1, EntriesTyped DEF RoundInv, TypeOK, Range
    <3> QED BY <3>2, <1>1, <1>2, <1>3 DEF RoundInv, TypeOK
  <2>2. CASE ~ FillDatabase
    <3>1. finished' = finished
      BY <2>2 DEF BeginCollecting, CollectResult, OpenDatabase, ShouldTerminate
    <3> QED BY <3>1, <1>1, <1>2, <1>3 DEF RoundInv, TypeOK
  <2> QED BY <2>1, <2>2
<1>6. PlacesInv'
  <2>1. \A p \in database' \cup file'.programs : p.run <= run'
    BY <1>1, <1>3 DEF RoundInv, PlacesInv
  <2>2. Len(top') = TopSize'
    BY <1>1 DEF RoundInv, PlacesInv, TopSize
  <2>3. manager' = "choosing" => round' < MaxRounds
    <3>1. manager' = "choosing" => round # MaxRounds
      BY <1>4 DEF Exhausted
    <3>2. round \in 0 .. MaxRounds /\ round' = round
      BY <1>1 DEF RoundInv, TypeOK
    <3> QED BY <3>1, <3>2, Limits
  <2>4. ASSUME strategy' = "greedy", manager' \in {"choosing", "joining", "collecting"}
        PROVE  no_improvement' < MaxNoImprovement
    <3>1. CASE manager' = "choosing"
      <4>1. ~ (no_improvement >= MaxNoImprovement) /\ no_improvement \in 0 .. MaxNoImprovement
        BY <3>1, <2>4, <1>1, <1>4 DEF Exhausted, RoundInv, TypeOK
      <4> QED BY <4>1, <1>1, Limits
    <3>2. CASE manager' # "choosing"
      <4>1. manager \in {"joining", "collecting"}
        BY <3>2, <2>4 DEF BeginCollecting, CollectResult, OpenDatabase, FillDatabase, ShouldTerminate
      <4> QED BY <4>1, <2>4, <1>1 DEF RoundInv, PlacesInv
    <3> QED BY <3>1, <3>2
  <2> QED BY <1>1, <2>1, <2>2, <2>3, <2>4 DEF PlacesInv
<1>7. WorkersInv'
  <2> SUFFICES ASSUME NEW w \in Workers
               PROVE  /\ worker'[w].state = "benchmarking" => worker'[w].left > 0
                      /\ ~ Alive(w)'
                      /\ worker'[w].state # "absent" => w <= NumWorkers'
    BY DEF WorkersInv
  <2>1. worker' = worker /\ NumWorkers' = NumWorkers
    BY <1>1 DEF NumWorkers
  <2>2. ~ Alive(w)
    <3>1. Alive(w) => manager = "joining" /\ joined < w /\ w <= NumWorkers
      BY DEF RoundInv, WorkersInv, Alive
    <3> QED BY <3>1, <1>1, Limits
  <2> QED BY <2>1, <2>2 DEF RoundInv, WorkersInv, Alive
<1>8. ResultsInv'
  <2>1. manager' \in {"joining", "collecting"} => manager \in {"joining", "collecting"}
    BY DEF BeginCollecting, CollectResult, OpenDatabase, FillDatabase, ShouldTerminate
  <2> QED BY <2>1, <1>1, <1>2 DEF RoundInv, ResultsInv
<1> QED BY <1>5, <1>6, <1>7, <1>8 DEF RoundInv

(* When the manager is killed, its workers are gone. *)
LEMMA CrashKeepsRound == ASSUME RoundInv, Crash PROVE RoundInv'
<1> USE DEF Crash, searchVars, Absent
<1>1. TypeOK'
  <2>1. worker' \in [Workers -> WorkerState]
    BY Limits DEF WorkerState
  <2> QED BY <2>1 DEF RoundInv, TypeOK
<1>2. PlacesInv'
  <2>1. Len(top') = TopSize' \/ run' = 0
    BY Limits DEF RoundInv, TypeOK, PlacesInv, TopSize
  <2> QED BY <2>1, Limits DEF RoundInv, TypeOK, PlacesInv
<1>3. WorkersInv'
  BY DEF WorkersInv, Alive
<1>4. ResultsInv'
  BY DEF ResultsInv
<1> QED BY <1>1, <1>2, <1>3, <1>4 DEF RoundInv

(* A worker that waits for the lock or benchmarks has left no result. *)
LEMMA LockStepsKeepRound ==
    ASSUME RoundInv, NEW w \in Workers, AcquireLock(w) \/ ReleaseLock(w)
    PROVE  RoundInv'
<1> USE DEF searchVars
<1>1. /\ UNCHANGED <<run, manager, round, file, finished, joined, results, pipe, torn, searchVars>>
      /\ lock' \in {0, w}
      /\ worker[w].state \in {"running", "benchmarking"}
      /\ worker \in [Workers -> WorkerState]
  BY DEF AcquireLock, ReleaseLock, RoundInv, TypeOK
<1>2. /\ worker' \in [Workers -> WorkerState]
      /\ \A o \in Workers \ {w} : worker'[o] = worker[o]
      /\ worker'[w].state \in {"running", "benchmarking"}
      /\ worker'[w].state = "benchmarking" => worker'[w].left > 0
  <2>1. CASE AcquireLock(w)
    <3>1. worker' = [worker EXCEPT ![w].state = "benchmarking"] /\ worker[w].left > 0
      BY <2>1 DEF AcquireLock
    <3>2. worker'[w] = [worker[w] EXCEPT !.state = "benchmarking"] /\ worker[w] \in WorkerState
      BY <3>1, <1>1
    <3>3. /\ worker'[w] \in WorkerState /\ worker'[w].state = "benchmarking"
          /\ worker'[w].left = worker[w].left
      BY <3>2 DEF WorkerState
    <3> QED BY <3>1, <3>3, <1>1
  <2>2. CASE ReleaseLock(w)
    <3>1. /\ worker' = [worker EXCEPT ![w].state = "running", ![w].left = @ - 1]
          /\ worker[w].left > 0
      BY <2>2 DEF ReleaseLock, RoundInv, WorkersInv
    <3>2. worker[w] \in WorkerState
      BY <1>1
    <3>3. worker[w].left \in 1 .. 2
      BY <3>1, <3>2 DEF WorkerState
    <3>4. worker'[w].state = "running" /\ worker'[w] \in WorkerState
      BY <3>1, <3>2, <3>3, <1>1 DEF WorkerState
    <3> QED BY <3>1, <3>4, <1>1
  <2> QED BY <2>1, <2>2
<1>3. TypeOK'
  <2>1. lock' \in 0 .. MaxWorkers
    BY <1>1, Limits
  <2> QED BY <1>1, <1>2, <2>1 DEF RoundInv, TypeOK
<1>4. PlacesInv'
  BY <1>1 DEF RoundInv, PlacesInv, TopSize
<1>5. WorkersInv'
  <2> SUFFICES ASSUME NEW o \in Workers
               PROVE  /\ worker'[o].state = "benchmarking" => worker'[o].left > 0
                      /\ Alive(o)' => manager' = "joining" /\ joined' < o
                      /\ worker'[o].state # "absent" => o <= NumWorkers'
    BY DEF WorkersInv
  <2>1. NumWorkers' = NumWorkers
    BY <1>1 DEF NumWorkers
  <2>2. CASE o = w
    <3>1. Alive(o) /\ worker[o].state # "absent"
      BY <2>2, <1>1 DEF Alive
    <3> QED BY <3>1, <2>1, <2>2, <1>1, <1>2 DEF RoundInv, WorkersInv
  <2>3. CASE o # w
    <3>1. worker'[o] = worker[o]
      BY <2>3, <1>2
    <3> QED BY <3>1, <2>1, <1>1 DEF RoundInv, WorkersInv, Alive
  <2> QED BY <2>2, <2>3
<1>6. ResultsInv'
  <2>1. Arrived' = Arrived
    BY <1>1 DEF Arrived
  <2>2. \A o \in Workers : (worker[o].state = "exited" \/ worker'[o].state = "exited") =>
            worker'[o] = worker[o]
    BY <1>1, <1>2
  <2>3. \A i \in DOMAIN Arrived : Arrived[i].worker \in Workers
    BY ArrivedTyped DEF RoundInv
  <2> QED BY <1>1, <2>1, <2>2, <2>3 DEF RoundInv, ResultsInv
<1> QED BY <1>3, <1>4, <1>5, <1>6 DEF RoundInv

(* A worker that reports either leaves its one result and exits, or waits for the pipe. *)
LEMMA PutIsOwn ==
    ASSUME RoundInv, NEW w \in Workers, NEW result \in Result,
           worker[w].state = "running", Put(w, result),
           result.worker = w, result.success => result.time <= MaxTime
    PROVE  /\ pipe' \in Seq(Result)
           /\ worker' \in [Workers -> WorkerState]
           /\ \A o \in Workers \ {w} : worker'[o] = worker[o]
           /\ \/ pipe' = pipe /\ worker'[w].state = "writing"
              \/ /\ pipe' = Append(pipe, result) /\ worker'[w].state = "exited"
                 /\ worker'[w].found = IF result.success THEN result.time ELSE 0
<1>1. worker \in [Workers -> WorkerState] /\ pipe \in Seq(Result) /\ worker[w] \in WorkerState
  BY DEF RoundInv, TypeOK
<1>2. CASE pipe' = pipe /\ worker' = [worker EXCEPT ![w].state = "writing"]
  <2>1. worker'[w] = [worker[w] EXCEPT !.state = "writing"]
    BY <1>1, <1>2
  <2>2. worker'[w] \in WorkerState /\ worker'[w].state = "writing"
    BY <1>1, <2>1 DEF WorkerState
  <2> QED BY <1>1, <1>2, <2>2
<1>3. CASE /\ pipe' = Append(pipe, result)
           /\ worker' = [worker EXCEPT ![w].state = "exited",
                                       ![w].found = IF result.success THEN result.time ELSE 0]
  <2> DEFINE found == IF result.success THEN result.time ELSE 0
  <2>1. found \in 0 .. Infinite
    BY Limits DEF Result
  <2>2. worker'[w] = [worker[w] EXCEPT !.state = "exited", !.found = found]
    BY <1>1, <1>3
  <2> HIDE DEF found
  <2>3. worker'[w] \in WorkerState /\ worker'[w].state = "exited" /\ worker'[w].found = found
    BY <1>1, <2>1, <2>2 DEF WorkerState
  <2>4. pipe' \in Seq(Result)
    BY <1>1, <1>3
  <2> QED BY <1>1, <1>3, <2>3, <2>4 DEF found
<1> QED BY <1>2, <1>3 DEF Put

(* A report keeps the results one for each worker that has exited. *)
LEMMA ReportKeepsRound ==
    ASSUME RoundInv, NEW w \in Workers, ReportSuccess(w) \/ ReportFailure(w)
    PROVE  RoundInv'
<1> USE DEF searchVars
<1>1. /\ UNCHANGED <<run, manager, round, file, finished, joined, results, lock, torn, searchVars>>
      /\ worker[w].state = "running"
  BY DEF ReportSuccess, ReportFailure
<1>2. manager = "joining" /\ joined < w /\ w <= NumWorkers
  BY <1>1 DEF RoundInv, WorkersInv, Alive
<1>3. PICK result \in Result :
          /\ Put(w, result) /\ result.worker = w
          /\ result.success => result.time <= MaxTime
  <2>1. CASE ReportSuccess(w)
    <3>1. PICK time \in 1 .. MaxTime : Put(w, [worker |-> w, success |-> TRUE, time |-> time])
      BY <2>1 DEF ReportSuccess
    <3>2. [worker |-> w, success |-> TRUE, time |-> time] \in Result
      BY Limits DEF Result
    <3>3. time <= MaxTime
      BY Limits
    <3> QED BY <3>1, <3>2, <3>3
  <2>2. CASE ReportFailure(w)
    <3>1. Put(w, [worker |-> w, success |-> FALSE, time |-> Infinite])
      BY <2>2 DEF ReportFailure
    <3>2. [worker |-> w, success |-> FALSE, time |-> Infinite] \in Result
      BY Limits DEF Result
    <3> QED BY <3>1, <3>2
  <2> QED BY <2>1, <2>2
<1>4. /\ pipe' \in Seq(Result)
      /\ worker' \in [Workers -> WorkerState]
      /\ \A o \in Workers \ {w} : worker'[o] = worker[o]
      /\ \/ pipe' = pipe /\ worker'[w].state = "writing"
         \/ /\ pipe' = Append(pipe, result) /\ worker'[w].state = "exited"
            /\ worker'[w].found = IF result.success THEN result.time ELSE 0
  BY <1>1, <1>3, PutIsOwn
<1>5. TypeOK'
  BY <1>1, <1>4 DEF RoundInv, TypeOK
<1>6. PlacesInv'
  BY <1>1 DEF RoundInv, PlacesInv, TopSize
<1>7. WorkersInv'
  <2> SUFFICES ASSUME NEW o \in Workers
               PROVE  /\ worker'[o].state = "benchmarking" => worker'[o].left > 0
                      /\ Alive(o)' => manager' = "joining" /\ joined' < o
                      /\ worker'[o].state # "absent" => o <= NumWorkers'
    BY DEF WorkersInv
  <2>1. NumWorkers' = NumWorkers
    BY <1>1 DEF NumWorkers
  <2>2. CASE o = w
    BY <2>1, <2>2, <1>1, <1>2, <1>4
  <2>3. CASE o # w
    <3>1. worker'[o] = worker[o]
      BY <2>3, <1>4
    <3> QED BY <3>1, <2>1, <1>1 DEF RoundInv, WorkersInv, Alive
  <2> QED BY <2>2, <2>3
<1>8. ResultsInv'
  <2>1. /\ Arrived \in Seq(Result) /\ DOMAIN Arrived = 1 .. Len(Arrived)
        /\ \A i \in DOMAIN Arrived :
               /\ Arrived[i].worker \in Workers \ {w}
               /\ worker[Arrived[i].worker].state = "exited"
               /\ worker[Arrived[i].worker].found =
                      IF Arrived[i].success THEN Arrived[i].time ELSE 0
        /\ \A i, j \in DOMAIN Arrived : i # j => Arrived[i].worker # Arrived[j].worker
        /\ \A o \in Workers : worker[o].state = "exited" =>
               \E i \in DOMAIN Arrived : Arrived[i].worker = o
    <3>1. \A i \in DOMAIN Arrived :
              /\ Arrived[i].worker \in Workers
              /\ worker[Arrived[i].worker].state = "exited"
              /\ worker[Arrived[i].worker].found = IF Arrived[i].success THEN Arrived[i].time ELSE 0
      BY <1>2, ArrivedTyped DEF RoundInv, ResultsInv
    <3>2. \A i \in DOMAIN Arrived : Arrived[i].worker # w
      BY <3>1, <1>1
    <3> QED BY <3>1, <3>2, <1>2, ArrivedTyped DEF RoundInv, ResultsInv
  <2>2. CASE pipe' = pipe /\ worker'[w].state = "writing"
    <3>1. Arrived' = Arrived
      BY <2>2, <1>1 DEF Arrived
    <3> QED BY <3>1, <2>1, <2>2, <1>4 DEF ResultsInv
  <2>3. CASE /\ pipe' = Append(pipe, result) /\ worker'[w].state = "exited"
             /\ worker'[w].found = IF result.success THEN result.time ELSE 0
    <3>1. Arrived' = Append(Arrived, result)
      <4>1. results \in Seq(Result) /\ pipe \in Seq(Result)
        BY DEF RoundInv, TypeOK
      <4>2. results \o Append(pipe, result) = Append(results \o pipe, result)
        BY <4>1
      <4> QED BY <4>2, <2>3, <1>1 DEF Arrived
    <3> DEFINE n == Len(Arrived)
    <3>2. /\ n \in Nat /\ DOMAIN Arrived = 1 .. n /\ DOMAIN Arrived' = 1 .. (n + 1)
          /\ \A i \in 1 .. n : Arrived'[i] = Arrived[i]
          /\ Arrived'[n + 1] = result
      BY <2>1, <3>1
    <3> HIDE DEF n
    <3>3. \A i \in 1 .. (n + 1) : i \in 1 .. n \/ i = n + 1
      BY <3>2
    <3>4. \A i \in DOMAIN Arrived' :
              /\ worker'[Arrived'[i].worker].state = "exited"
              /\ worker'[Arrived'[i].worker].found =
                     IF Arrived'[i].success THEN Arrived'[i].time ELSE 0
      <4> TAKE i \in DOMAIN Arrived'
      <4>1. CASE i = n + 1
        BY <4>1, <3>2, <2>3, <1>3
      <4>2. CASE i \in 1 .. n
        <5>1. Arrived'[i] = Arrived[i] /\ Arrived[i].worker \in Workers \ {w} /\ i \in DOMAIN Arrived
          BY <4>2, <3>2, <2>1
        <5>2. worker'[Arrived[i].worker] = worker[Arrived[i].worker]
          BY <5>1, <1>4
        <5> QED BY <5>1, <5>2, <2>1
      <4> QED BY <4>1, <4>2, <3>2, <3>3
    <3>5. \A i, j \in DOMAIN Arrived' : i # j => Arrived'[i].worker # Arrived'[j].worker
      BY <3>2, <3>3, <2>1, <1>3
    <3>6. \A o \in Workers : worker'[o].state = "exited" =>
              \E i \in DOMAIN Arrived' : Arrived'[i].worker = o
      <4> SUFFICES ASSUME NEW o \in Workers, worker'[o].state = "exited"
                   PROVE  \E i \in DOMAIN Arrived' : Arrived'[i].worker = o
        OBVIOUS
      <4>1. CASE o = w
        <5>1. n + 1 \in DOMAIN Arrived'
          BY <3>2
        <5> QED BY <4>1, <5>1, <3>2, <1>3
      <4>2. CASE o # w
        <5>1. PICK i \in DOMAIN Arrived : Arrived[i].worker = o
          BY <4>2, <1>4, <2>1
        <5>2. i \in DOMAIN Arrived' /\ Arrived'[i] = Arrived[i]
          BY <3>2
        <5> QED BY <5>1, <5>2
      <4> QED BY <4>1, <4>2
    <3> QED BY <3>4, <3>5, <3>6 DEF ResultsInv
  <2> QED BY <2>2, <2>3, <1>4
<1> QED BY <1>5, <1>6, <1>7, <1>8 DEF RoundInv

(* So types, places, workers and results are right in every state. *)
LEMMA RoundInvHolds == Spec => []RoundInv
<1>1. RoundInv /\ [Next]_vars => RoundInv'
  <2> SUFFICES ASSUME RoundInv, [Next]_vars PROVE RoundInv'
    OBVIOUS
  <2>1. CASE StartRun
    BY <2>1, StartRunKeepsRound
  <2>2. CASE Manage
    BY <2>2, SpawnWorkersKeepsRound, JoinWorkerKeepsRound, ManagerStepsKeepRound,
       UpdateWithResultsKeepsRound DEF Manage
  <2>3. CASE Crash
    BY <2>3, CrashKeepsRound
  <2>4. CASE \E w \in Workers : Work(w)
    BY <2>4, LockStepsKeepRound, ReportKeepsRound DEF Work
  <2>5. CASE UNCHANGED vars
    <3>1. /\ UNCHANGED <<run, manager, round, file, finished, joined, results>>
          /\ UNCHANGED <<lock, pipe, torn, worker>>
          /\ UNCHANGED <<strategy, top, no_improvement, database>>
      BY <2>5 DEF vars, workerVars, searchVars
    <3>2. TypeOK'
      BY <3>1 DEF RoundInv, TypeOK
    <3>3. PlacesInv' /\ WorkersInv' /\ ResultsInv'
      BY <3>1 DEF RoundInv, PlacesInv, WorkersInv, ResultsInv, TopSize, NumWorkers, Alive, Arrived
    <3> QED BY <3>2, <3>3 DEF RoundInv
  <2> QED BY <2>1, <2>2, <2>3, <2>4, <2>5 DEF Next
<1> QED BY <1>1, RoundInvInit, PTL DEF Spec

(* Every variable keeps its range, whatever workers find and whoever is killed: the
   strategy's programs have their number of places, no round is begun past max_rounds, and
   no_improvement_count goes no further than its limit. *)
THEOREM TypeCorrect == Spec => []TypeOK
<1>1. RoundInv => TypeOK
  BY DEF RoundInv
<1> QED BY <1>1, RoundInvHolds, PTL

-----------------------------------------------------------------------------
(* What an update does for KeptInv: when the queue is empty, everything that has arrived
   is among the results, and every successful result becomes an entry. *)
LEMMA UpdateKeepsSuccesses == ASSUME RoundInv, UpdateWithResults PROVE KeptInv'
<1>1. /\ manager = "collecting" /\ pipe = <<>> /\ UNCHANGED <<run, round, worker>>
      /\ Range(Entries) \subseteq database'
  BY DEF UpdateWithResults, workerVars
<1> SUFFICES ASSUME NEW w \in Workers, worker[w].state = "exited", worker[w].found # 0
             PROVE  [run |-> run, round |-> round, worker |-> w, time |-> worker[w].found] \in database'
  BY <1>1 DEF KeptInv
<1>2. results \in Seq(Result) /\ Arrived = results
  BY <1>1 DEF Arrived, RoundInv, TypeOK
<1>3. PICK i \in DOMAIN results :
          /\ results[i].worker = w
          /\ worker[w].found = IF results[i].success THEN results[i].time ELSE 0
  BY <1>1, <1>2 DEF RoundInv, ResultsInv
<1>4. results[i].success /\ worker[w].found = results[i].time
  BY <1>3
<1>5. PICK k \in DOMAIN Entries : Entries[k] = EntryOf(results[i])
  BY <1>2, <1>4, EntriesAreSuccesses
<1>6. Entries[k] \in Range(Entries)
  BY DEF Range
<1> QED BY <1>1, <1>3, <1>4, <1>5, <1>6 DEF EntryOf

(* A success that reached the queue is in the database when the round is over, for any
   number of workers and whatever order their results and their ends come in. *)
THEOREM SuccessesStay == Spec => []SuccessesAreKept
<1>1. Init => KeptInv
  BY DEF Init, KeptInv
<1>2. RoundInv /\ KeptInv /\ [Next]_vars => KeptInv'
  <2> SUFFICES ASSUME RoundInv, KeptInv, [Next]_vars PROVE KeptInv'
    OBVIOUS
  <2>1. CASE UpdateWithResults
    BY <2>1, UpdateKeepsSuccesses
  <2>2. CASE OpenDatabase \/ FillDatabase \/ ShouldTerminate \/ UNCHANGED vars
    <3>1. /\ UNCHANGED <<run, round, worker, database>>
          /\ manager' \in {"saving", "writing", "checking"} =>
                 manager \in {"saving", "writing", "checking"}
      BY <2>2 DEF OpenDatabase, FillDatabase, ShouldTerminate, vars, workerVars, searchVars
    <3> QED BY <3>1 DEF KeptInv
  <2>3. CASE StartRun \/ SpawnWorkers \/ JoinWorker \/ BeginCollecting \/ CollectResult \/ Crash
    <3>1. manager' \notin {"saving", "writing", "checking"}
      BY <2>3 DEF StartRun, StartRunOn, SpawnWorkers, JoinWorker, BeginCollecting, CollectResult, Crash
    <3> QED BY <3>1 DEF KeptInv
  <2>4. ASSUME NEW w \in Workers, Work(w) PROVE KeptInv'
    <3>1. Alive(w) /\ manager' = manager
      BY <2>4 DEF Work, AcquireLock, ReleaseLock, ReportSuccess, ReportFailure, Alive
    <3>2. manager = "joining"
      BY <3>1 DEF RoundInv, WorkersInv
    <3> QED BY <3>1, <3>2 DEF KeptInv
  <2> QED BY <2>1, <2>2, <2>3, <2>4 DEF Next, Manage
<1>3. KeptInv => SuccessesAreKept
  BY DEF KeptInv, SuccessesAreKept
<1> QED BY <1>1, <1>2, <1>3, RoundInvHolds, PTL DEF Spec

(* A new run begins with what the file has, and with no finished round of its own. *)
LEMMA StartRunKeepsFile == ASSUME RoundInv, FileInv, StartRun PROVE FileInv'
<1>1. /\ file.whole /\ database' = file.programs /\ UNCHANGED <<file, finished>>
      /\ run' = run + 1 /\ run \in Nat /\ manager' \in {"choosing", "done"}
  BY Limits DEF StartRun, StartRunOn, RoundInv, TypeOK
<1>2. \A p \in finished : p.run \in Nat /\ p.run <= run
  BY Limits DEF RoundInv, TypeOK, FileInv, FinishedIsPast, Program
<1>3. FinishedIsPast'
  BY <1>1, <1>2 DEF FinishedIsPast
<1>4. (\A p \in finished : KeptIn(file.programs, p)) /\ file.programs \subseteq finished
  BY <1>1 DEF FileInv, FileHasFinishedRounds
<1>5. DatabaseIsComplete'
  BY <1>1, <1>4 DEF DatabaseIsComplete
<1>6. FileHasFinishedRounds'
  BY <1>1, <1>4 DEF FileHasFinishedRounds
<1> QED BY <1>3, <1>5, <1>6 DEF FileInv

(* A program that is kept when it is finished stays so when the programs of a later run
   or of a later round are put in: those of its own run have other ids. *)
LEMMA UpdateKeepsFinished ==
    ASSUME RoundInv, FileInv, UpdateWithResults, NEW p \in finished
    PROVE  KeptIn(database', p)
<1>1. /\ manager = "collecting" /\ finished \subseteq Program /\ database \subseteq Program
      /\ run \in Nat
      /\ database' = {q \in database : \A i \in DOMAIN Entries : ~ SameId(q, Entries[i])}
                        \cup Range(Entries)
  BY Limits DEF UpdateWithResults, RoundInv, TypeOK
<1>2. \A i \in DOMAIN Entries : /\ Entries[i].run = run /\ Entries[i].round = round
                               /\ Entries[i] \in database'
  BY <1>1, EntriesTyped DEF Range
<1>3. p.run \in Nat /\ p.run <= run /\ ~ (p.run = run /\ p.round = round)
  BY <1>1, Limits DEF FileInv, FinishedIsPast, Program
<1>4. PICK q \in database : q = p \/ (SameId(p, q) /\ q.run > p.run)
  BY <1>1 DEF FileInv, DatabaseIsComplete, KeptIn
<1>5. CASE \A i \in DOMAIN Entries : ~ SameId(q, Entries[i])
  BY <1>1, <1>4, <1>5 DEF KeptIn
<1>6. CASE \E i \in DOMAIN Entries : SameId(q, Entries[i])
  <2>1. PICK i \in DOMAIN Entries : SameId(q, Entries[i])
    BY <1>6
  <2>2. SameId(p, Entries[i])
    BY <1>4, <2>1 DEF SameId
  <2>3. p.run < Entries[i].run
    BY <1>1, <1>2, <1>3, <2>2 DEF SameId
  <2> QED BY <1>2, <2>2, <2>3 DEF KeptIn
<1> QED BY <1>5, <1>6

(* An update adds to the database what the round has found, and nothing else. *)
LEMMA UpdateKeepsFile == ASSUME RoundInv, FileInv, UpdateWithResults PROVE FileInv'
<1>1. /\ manager = "collecting" /\ manager' = "saving"
      /\ UNCHANGED <<run, round, file, finished, results>>
      /\ Range(Entries) \subseteq database'
      /\ database' \subseteq database \cup Range(Entries)
  BY DEF UpdateWithResults
<1>2. Range(Entries)' = Range(Entries)
  BY <1>1 DEF Entries, EntryOf
<1>3. DatabaseIsComplete'
  <2>1. \A p \in finished' : KeptIn(database', p)
    BY <1>1, UpdateKeepsFinished
  <2>2. database \subseteq finished
    BY <1>1 DEF FileInv, DatabaseIsComplete
  <2>3. Range(Entries)' \subseteq database' /\ database' \subseteq finished' \cup Range(Entries)'
    BY <1>1, <1>2, <2>2
  <2> QED BY <1>1, <2>1, <2>3 DEF DatabaseIsComplete
<1>4. FinishedIsPast' /\ FileHasFinishedRounds'
  BY <1>1 DEF FileInv, FinishedIsPast, FileHasFinishedRounds
<1> QED BY <1>3, <1>4 DEF FileInv

(* When the save has come to its end the round is finished, and file and database agree. *)
LEMMA SaveKeepsFile == ASSUME RoundInv, FileInv, FillDatabase PROVE FileInv'
<1>1. /\ manager = "writing" /\ manager' = "checking" /\ UNCHANGED <<run, round, database>>
      /\ file' = [whole |-> TRUE, programs |-> database]
      /\ finished' = finished \cup Range(Entries)
  BY DEF FillDatabase, searchVars, Whole
<1>2. \A p \in Range(Entries) : p.run = run /\ p.round = round
  BY <1>1, EntriesTyped DEF Range
<1>3. FinishedIsPast'
  <2>1. run \in Nat /\ round \in Nat
    BY Limits DEF RoundInv, TypeOK
  <2> QED BY <1>1, <1>2, <2>1 DEF FileInv, FinishedIsPast
<1>4. (\A p \in finished' : KeptIn(database, p)) /\ database \subseteq finished'
  BY <1>1 DEF FileInv, DatabaseIsComplete, KeptIn
<1>5. DatabaseIsComplete' /\ FileHasFinishedRounds'
  BY <1>1, <1>4 DEF DatabaseIsComplete, FileHasFinishedRounds
<1> QED BY <1>3, <1>5 DEF FileInv

(* In every other step neither what is finished nor the database changes. *)
LEMMA OtherStepsKeepFile ==
    ASSUME RoundInv, FileInv, [Next]_vars, ~ StartRun, ~ UpdateWithResults, ~ FillDatabase
    PROVE  FileInv'
<1>1. /\ UNCHANGED <<run, finished, database>>
      /\ file' = file \/ file' = Torn
      /\ round' = round \/ (round' = round + 1 /\ manager' = "joining")
      /\ manager \in {"checking", "choosing", "done", "off"} =>
             manager' \in {"checking", "choosing", "done", "off"} \/ round' = round + 1
      /\ manager' # "off" => manager # "off"
      /\ manager' \in {"saving", "writing"} =>
             manager \in {"saving", "writing"} /\ UNCHANGED <<results, round>>
      /\ manager \in {"saving", "writing"} => manager' \in {"saving", "writing", "off"}
  BY DEF Next, Manage, SpawnWorkers, Crash, JoinWorker, BeginCollecting, CollectResult,
         OpenDatabase, ShouldTerminate, Work, AcquireLock, ReleaseLock, ReportSuccess,
         ReportFailure, vars, workerVars, searchVars
<1>2. round \in Nat /\ finished \subseteq Program
  BY Limits DEF RoundInv, TypeOK
<1>3. \A p \in finished : p.round \in Nat
  BY <1>2, Limits DEF Program
<1>4. FinishedIsPast'
  BY <1>1, <1>2, <1>3 DEF FileInv, FinishedIsPast
<1>5. manager' \in {"saving", "writing"} => Range(Entries)' = Range(Entries)
  BY <1>1 DEF Entries, EntryOf
<1>6. DatabaseIsComplete'
  BY <1>1, <1>5 DEF FileInv, DatabaseIsComplete
<1>7. FileHasFinishedRounds'
  BY <1>1 DEF FileInv, FileHasFinishedRounds, Torn
<1> QED BY <1>4, <1>6, <1>7 DEF FileInv

(* A file that can be read has what every finished round of every run has found, but for
   programs whose id a later run has used again, wherever managers are killed; and it has
   nothing else. *)
THEOREM FileIsComplete == Spec => []FileHasFinishedRounds
<1>1. Init => FileInv
  BY DEF Init, Whole, FileInv, FinishedIsPast, DatabaseIsComplete, FileHasFinishedRounds
<1>2. RoundInv /\ FileInv /\ [Next]_vars => FileInv'
  BY StartRunKeepsFile, UpdateKeepsFile, SaveKeepsFile, OtherStepsKeepFile
<1>3. FileInv => FileHasFinishedRounds
  BY DEF FileInv
<1> QED BY <1>1, <1>2, <1>3, RoundInvHolds, PTL DEF Spec

-----------------------------------------------------------------------------
(* Greedy search replaces its program by a faster one only. *)
LEMMA GreedyKeepsBest ==
    ASSUME RoundInv, manager = "collecting", strategy = "greedy", UpdateGreedy,
           NEW p, p \in Range(Entries) \/ (p \in Found /\ BestInv)
    PROVE  p \in Range(top') \/ \A i \in DOMAIN top' : top'[i].time <= p.time
<1>1. /\ top \in Seq(Program) /\ Len(top) = 1 /\ DOMAIN top = {1} /\ top[1] \in Program
      /\ top[1].time \in Nat
  <2>1. top \in Seq(Program) /\ Len(top) = 1
    BY Limits DEF RoundInv, TypeOK, PlacesInv, TopSize
  <2>2. DOMAIN top = {1} /\ top[1] \in Program
    BY <2>1
  <2> QED BY <2>1, <2>2, Limits DEF Program
<1>2. /\ Entries \in Seq(Program) /\ Len(Entries) \in Nat /\ Len(Entries) <= 1
      /\ DOMAIN Entries = 1 .. Len(Entries)
  BY EntriesTyped, GreedyHasOneEntry
<1>3. Entries # <<>> => DOMAIN Entries = {1} /\ Entries[1] \in Program /\ Entries[1].time \in Nat
  <2> SUFFICES ASSUME Entries # <<>>
               PROVE  DOMAIN Entries = {1} /\ Entries[1] \in Program /\ Entries[1].time \in Nat
    OBVIOUS
  <2>1. Len(Entries) = 1
    BY <1>2
  <2>2. DOMAIN Entries = {1} /\ Entries[1] \in Program
    BY <1>2, <2>1
  <2> QED BY <2>2, Limits DEF Program
<1>4. p \in Range(Entries) => Entries # <<>> /\ p = Entries[1]
  BY <1>2, <1>3 DEF Range
<1>5. p \in Found /\ BestInv => p.time \in Nat /\ (p \in Range(top) \/ top[1].time <= p.time)
  <2>1. p \in Found => p \in Program
    BY DEF Found, RoundInv, TypeOK
  <2>2. p \in Program => p.time \in Nat
    BY Limits DEF Program
  <2> QED BY <2>1, <2>2, <1>1 DEF BestInv
<1>6. CASE Entries # <<>> /\ Entries[1].time < top[1].time
  <2>1. top' = Entries
    BY <1>6 DEF UpdateGreedy
  <2>2. CASE p \in Range(Entries)
    BY <2>1, <2>2
  <2>3. CASE p \in Found /\ BestInv
    <3>1. top[1].time <= p.time
      BY <2>3, <1>1, <1>5 DEF Range
    <3>2. \A i \in DOMAIN top' : top'[i].time <= p.time
      BY <3>1, <2>1, <2>3, <1>1, <1>3, <1>5, <1>6
    <3> QED BY <3>2
  <2> QED BY <2>2, <2>3
<1>7. CASE Entries = <<>> \/ ~ (Entries[1].time < top[1].time)
  <2>1. top' = top
    BY <1>7 DEF UpdateGreedy
  <2>2. CASE p \in Range(Entries)
    BY <2>1, <2>2, <1>1, <1>3, <1>4, <1>7
  <2>3. CASE p \in Found /\ BestInv
    BY <2>1, <2>3, <1>1, <1>5
  <2> QED BY <2>2, <2>3
<1> QED BY <1>6, <1>7

(* Beam search keeps the first of the programs it had and the new ones, sorted by time;
   one that was not kept before has a whole beam of programs no slower than it. *)
LEMMA BeamKeepsBest ==
    ASSUME RoundInv, manager = "collecting", strategy # "greedy", UpdateBeam,
           NEW p, p \in Range(Entries) \/ (p \in Found /\ BestInv)
    PROVE  p \in Range(top') \/ \A i \in DOMAIN top' : top'[i].time <= p.time
<1> DEFINE candidates == top \o Entries
<1>1. /\ top \in Seq(Program) /\ Len(top) = NumTopKernels /\ NumTopKernels \in Nat
      /\ MaxTime \in Nat
  BY Limits DEF RoundInv, TypeOK, PlacesInv, TopSize
<1>2. Entries \in Seq(Program) /\ DOMAIN Entries = 1 .. Len(Entries) /\ Len(Entries) \in Nat
  BY EntriesTyped
<1>3. /\ candidates \in Seq(Program) /\ NumTopKernels <= Len(candidates)
      /\ \A i \in 1 .. NumTopKernels : candidates[i] = top[i]
      /\ \A k \in DOMAIN Entries : Entries[k] = candidates[NumTopKernels + k]
      /\ \A k \in DOMAIN Entries : NumTopKernels + k \in DOMAIN candidates
      /\ \A i \in 1 .. NumTopKernels : i \in DOMAIN candidates
  BY <1>1, <1>2
<1>4. top' = SubSeq(ByTime(candidates), 1, NumTopKernels)
  BY DEF UpdateBeam
<1> HIDE DEF candidates
<1>5. /\ \A i \in DOMAIN candidates :
             \/ candidates[i] \in Range(top')
             \/ \A k \in DOMAIN top' : top'[k].time <= candidates[i].time
      /\ \A t \in Nat :
             (\A i \in 1 .. NumTopKernels : candidates[i].time <= t) =>
                 \A k \in DOMAIN top' : top'[k].time <= t
  BY <1>1, <1>3, <1>4, FirstByTime
<1>6. ASSUME p \in Range(top) \/ p \in Range(Entries)
      PROVE  p \in Range(top') \/ \A i \in DOMAIN top' : top'[i].time <= p.time
  <2>1. PICK i \in DOMAIN candidates : candidates[i] = p
    <3>1. CASE p \in Range(top)
      <4>1. PICK i \in 1 .. NumTopKernels : top[i] = p
        BY <3>1, <1>1 DEF Range
      <4> QED BY <4>1, <1>3
    <3>2. CASE p \in Range(Entries)
      <4>1. PICK k \in DOMAIN Entries : Entries[k] = p
        BY <3>2 DEF Range
      <4> QED BY <4>1, <1>3
    <3> QED BY <3>1, <3>2, <1>6
  <2> QED BY <2>1, <1>5
<1>7. ASSUME p \in Found, \A i \in DOMAIN top : top[i].time <= p.time
      PROVE  \A i \in DOMAIN top' : top'[i].time <= p.time
  <2>1. p.time \in Nat
    <3>1. p \in Program
      BY <1>7 DEF Found, RoundInv, TypeOK
    <3> QED BY <3>1, Limits DEF Program
  <2>2. \A i \in 1 .. NumTopKernels : candidates[i].time <= p.time
    BY <1>1, <1>3, <1>7
  <2> QED BY <2>1, <2>2, <1>5
<1> QED BY <1>6, <1>7 DEF BestInv

(* The strategy never forgets a program of its run for a slower one: not in a round without
   results, not with any order of results, and with ties, for any size of the beam. *)
THEOREM BestIsKept == Spec => []SearchKeepsBest
<1>1. Init => BestInv
  BY DEF Init, BestInv, Found
<1>2. RoundInv /\ BestInv /\ [Next]_vars => BestInv'
  <2> SUFFICES ASSUME RoundInv, BestInv, [Next]_vars, NEW p \in Found'
               PROVE  p \in Range(top') \/ \A i \in DOMAIN top' : top'[i].time <= p.time
    BY DEF BestInv
  <2>1. CASE StartRun
    <3>1. p.run = run + 1 /\ p \in file.programs /\ run \in Nat
      BY <2>1 DEF StartRun, StartRunOn, Found, RoundInv, TypeOK
    <3>2. p.run <= run
      BY <3>1 DEF RoundInv, PlacesInv
    <3> QED BY <3>1, <3>2
  <2>2. CASE UpdateWithResults
    <3>1. manager = "collecting" /\ IF strategy = "greedy" THEN UpdateGreedy ELSE UpdateBeam
      BY <2>2 DEF UpdateWithResults
    <3>2. p \in Range(Entries) \/ p \in Found
      BY <2>2 DEF UpdateWithResults, Found
    <3> QED BY <3>1, <3>2, GreedyKeepsBest, BeamKeepsBest
  <2>3. CASE ~ StartRun /\ ~ UpdateWithResults
    <3>1. UNCHANGED <<run, top, database>>
      BY <2>3 DEF Next, Manage, SpawnWorkers, Crash, JoinWorker, BeginCollecting, CollectResult,
                  OpenDatabase, FillDatabase, ShouldTerminate, Work, AcquireLock, ReleaseLock,
                  ReportSuccess, ReportFailure, vars, workerVars, searchVars
    <3> QED BY <3>1 DEF BestInv, Found
  <2> QED BY <2>1, <2>2, <2>3
<1>3. BestInv => SearchKeepsBest
  BY DEF BestInv, SearchKeepsBest
<1> QED BY <1>1, <1>2, <1>3, RoundInvHolds, PTL DEF Spec
=============================================================================
