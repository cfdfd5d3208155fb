------------------------- MODULE BenchmarkRunProofs -------------------------
(***************************************************************************)
(* One run directory of KernelBench, for any problems, numbers of samples, *)
(* threads and processes, and any number of commands.                      *)
(*                                                                         *)
(* The records a command will have written when its file is filled again   *)
(* are those in memory (Held).  A sample that is still to be recorded  *)
(* is in one place only, in the rest of the work or among the batch's      *)
(* samples that were not saved, and has no record: so it gets one, and one *)
(* only.  That it is recorded as correct goes back, over the result of its *)
(* own process, to a kernel file that was whole and that nothing writes    *)
(* while an evaluation runs.                                               *)
(***************************************************************************)
EXTENDS BenchmarkRun, FiniteSetTheorems, SequenceTheorems, TLAPS

Evaluating == pc \in {"batches", "collecting", "recording", "filling"}

TypeOK ==
    /\ kernel \in [Samples -> {"absent", "torn", "whole"}]
    /\ results = Torn \/ results \in [Problems -> Seq(Record)]
    /\ loaded \in [Problems -> Seq(Record)]
    /\ pc \in {"idle", "generating", "batches", "collecting", "recording", "filling"}
    /\ work \in Seq(Samples)
    /\ todo \subseteq Samples
    /\ batch \in Seq(Samples)
    /\ task \in [Samples -> {"none", "asking", "writing", "queued", "building", "testing", "dead"}
                            \cup Returned]
    /\ collected \in Seq({"correct", "failed", "none"})
    /\ saved \in Nat
    /\ samplesEach \in Nat \ {0}

(* The first sample of the batch that has no record. *)
NextSaved == IF pc = "filling" THEN saved + 2 ELSE saved + 1

(* The samples a command will still come to. *)
Waiting == Range(work) \cup {batch[i] : i \in NextSaved..Len(batch)}

HasRecord(s) == \E i \in DOMAIN Held[s[1]] : Held[s[1]][i].sample_id = s[2]

(* Where a batch is. *)
BatchInv ==
    /\ pc \in {"idle", "generating", "batches"} => batch = <<>> /\ collected = <<>> /\ saved = 0
    /\ pc = "collecting" => Len(collected) < Len(batch) /\ saved = 0
    /\ pc = "recording" => Len(collected) = Len(batch) /\ saved <= Len(batch)
    /\ pc = "filling" => Len(collected) = Len(batch) /\ saved < Len(batch) /\ results = Torn

(* No sample is in the work or the batch twice. *)
OnceInv ==
    /\ \A i, j \in DOMAIN work : work[i] = work[j] => i = j
    /\ \A i, j \in DOMAIN batch : batch[i] = batch[j] => i = j
    /\ Range(work) \cap Range(batch) = {}

(* A generation writes only the files that were not there. *)
GenerationInv ==
    /\ pc = "generating" =>
           /\ todo = {}
           /\ \A s \in Range(work) : kernel[s] = "absent" /\ task[s] = "none"
           /\ \A s \in Samples :
                  /\ task[s] \in {"none", "asking", "writing"}
                  /\ task[s] = "asking" => kernel[s] = "absent"
                  /\ task[s] = "writing" => kernel[s] = "torn"
    /\ pc \in {"idle", "batches"} => task = Idle

(* What counts as correct in an evaluation has its kernel file whole. *)
CorrectInv ==
    Evaluating =>
        /\ \A s \in Samples :
               /\ task[s] \notin {"asking", "writing"}
               /\ task[s] \in {"building", "testing", "correct"} => kernel[s] = "whole"
        /\ \A i \in DOMAIN collected :
               i \in DOMAIN batch /\ (collected[i] = "correct" => kernel[batch[i]] = "whole")

(* Every sample has a record at most, of what was found of it, and none while it waits. *)
RecordsInv ==
    Held # Torn =>
        /\ \A p \in Problems : \A i, j \in DOMAIN Held[p] :
               Held[p][i].sample_id = Held[p][j].sample_id => i = j
        /\ \A p \in Problems : \A i \in DOMAIN Held[p] :
               Held[p][i].correctness => kernel[<<p, Held[p][i].sample_id>>] = "whole"
        /\ Evaluating => \A s \in Waiting : ~ HasRecord(s)

(* An evaluation has recorded what it began with or will come to it, and began with a
   sample of every problem that had no record. *)
CoverInv ==
    /\ Evaluating =>
           /\ Held # Torn
           /\ \A s \in todo : s \in Waiting \/ HasRecord(s)
           /\ \A p \in Problems : Held[p] # <<>> \/ \E s \in todo : s[1] = p
    /\ FinishedIsRecorded

BenchInv ==
    /\ TypeOK /\ BatchInv /\ OnceInv /\ GenerationInv /\ CorrectInv /\ RecordsInv /\ CoverInv

-----------------------------------------------------------------------------
(* The list of samples both commands go through. *)

(* The elements of a finite, linearly ordered set, given by the sets of those not after
   each one, are placed from 1 on without a gap. *)
LEMMA PlacesFill ==
    ASSUME NEW S, IsFiniteSet(S), NEW NotAfter \in [S -> SUBSET S],
           \A i \in S : i \in NotAfter[i],
           \A i, j \in S : i # j => (i \in NotAfter[j] <=> j \notin NotAfter[i]),
           \A i, j \in S : i \in NotAfter[j] => NotAfter[i] \subseteq NotAfter[j],
           NEW place, place = [i \in S |-> Cardinality(NotAfter[i])]
    PROVE  /\ place \in [S -> 1 .. Cardinality(S)]
           /\ \A i, j \in S : place[i] <= place[j] <=> i \in NotAfter[j]
           /\ \A i, j \in S : place[i] = place[j] => i = j
           /\ \A k \in 1 .. Cardinality(S) : \E i \in S : place[i] = k
<1> DEFINE n == Cardinality(S)
<1>1. \A i \in S : IsFiniteSet(NotAfter[i]) /\ place[i] \in Nat /\ place[i] <= n /\ n \in Nat
  BY FS_Subset, FS_CardinalityType
<1>2. \A i \in S : place[i] # 0
  <2> TAKE i \in S
  <2>1. NotAfter[i] # {}
    OBVIOUS
  <2> QED BY <2>1, <1>1, FS_EmptySet
<1>3. place \in [S -> 1 .. n]
  BY <1>1, <1>2
<1>4. \A i, j \in S : i \in NotAfter[j] /\ i # j => place[i] < place[j]
  <2> SUFFICES ASSUME NEW i \in S, NEW j \in S, i \in NotAfter[j], i # j
               PROVE  place[i] < place[j]
    OBVIOUS
  <2>1. NotAfter[i] \in SUBSET NotAfter[j] /\ NotAfter[i] # NotAfter[j]
    OBVIOUS
  <2>2. /\ Cardinality(NotAfter[i]) <= Cardinality(NotAfter[j])
        /\ Cardinality(NotAfter[j]) # Cardinality(NotAfter[i])
    BY <2>1, <1>1, FS_Subset
  <2> QED BY <2>2, <1>1
<1>5. \A i, j \in S : place[i] <= place[j] <=> i \in NotAfter[j]
  <2> TAKE i \in S, j \in S
  <2>1. CASE i = j
    BY <2>1, <1>1
  <2>2. CASE i # j /\ i \in NotAfter[j]
    BY <2>2, <1>1, <1>4
  <2>3. CASE i # j /\ j \in NotAfter[i]
    <3>1. place[j] < place[i]
      BY <2>3, <1>4
    <3> QED BY <3>1, <2>3, <1>1
  <2> QED BY <2>1, <2>2, <2>3
<1>6. \A i, j \in S : place[i] = place[j] => i = j
  <2> SUFFICES ASSUME NEW i \in S, NEW j \in S, place[i] = place[j], i # j
               PROVE  FALSE
    OBVIOUS
  <2>1. i \in NotAfter[j] \/ j \in NotAfter[i]
    OBVIOUS
  <2> QED BY <2>1, <1>1, <1>4
<1>7. IsFiniteSet(1 .. n) /\ Cardinality(1 .. n) = n
  <2>1. n \in Nat
    BY FS_CardinalityType
  <2> QED BY <2>1, FS_Interval
<1>8. place \in Injection(S, 1 .. n)
  BY <1>3, <1>6 DEF Injection, IsInjective
<1>9. place \in Surjection(S, 1 .. n)
  BY <1>7, <1>8, FS_Injection
<1>10. \A k \in 1 .. n : \E i \in S : place[i] = k
  BY <1>9 DEF Surjection
<1> QED BY <1>3, <1>5, <1>6, <1>10

(* There are finitely many samples. *)
LEMMA SamplesFinite == IsFiniteSet(Samples) /\ SampleIds \subseteq Nat
<1> DEFINE ids == [n \in SampleCounts |-> 0..(n - 1)]
           all == {0..(n - 1) : n \in SampleCounts}
<1>1. IsFiniteSet(SampleCounts) /\ SampleCounts \subseteq Nat \ {0} /\ NumProblems \in Nat
  BY BenchmarkAssumption DEF BenchmarkAssumption
<1>2. ids \in Surjection(SampleCounts, all)
  BY DEF Surjection
<1>3. IsFiniteSet(all)
  <2> HIDE DEF ids, all
  <2> QED BY <1>1, <1>2, FS_Surjection
<1>4. \A T \in all : IsFiniteSet(T) /\ T \subseteq Nat
  <2> SUFFICES ASSUME NEW n \in SampleCounts
               PROVE  IsFiniteSet(0..(n - 1)) /\ 0..(n - 1) \subseteq Nat
    OBVIOUS
  <2>1. 0 \in Int /\ n - 1 \in Int
    BY <1>1
  <2> QED BY <2>1, FS_Interval
<1>5. SampleIds = UNION all
  BY DEF SampleIds
<1> HIDE DEF all
<1>6. IsFiniteSet(SampleIds) /\ SampleIds \subseteq Nat
  BY <1>3, <1>4, <1>5, FS_UNION
<1>7. IsFiniteSet(Problems)
  <2>1. 1 \in Int /\ NumProblems \in Int
    BY <1>1
  <2> QED BY <2>1, FS_Interval DEF Problems
<1> QED BY <1>6, <1>7, FS_Product DEF Samples

(* A list of samples has each of them once. *)
LEMMA SampleListHasAll ==
    ASSUME NEW samples \in SUBSET Samples
    PROVE  /\ SampleList(samples) \in Seq(Samples)
           /\ Range(SampleList(samples)) = samples
           /\ \A i, j \in DOMAIN SampleList(samples) :
                  SampleList(samples)[i] = SampleList(samples)[j] => i = j
<1> DEFINE Before(s, t) == s[1] < t[1] \/ (s[1] = t[1] /\ s[2] <= t[2])
           Place(s) == Cardinality({t \in samples : Before(t, s)})
           NotAfter == [s \in samples |-> {t \in samples : Before(t, s)}]
           place == [s \in samples |-> Place(s)]
           n == Cardinality(samples)
           At(k) == CHOOSE s \in samples : Place(s) = k
<1>1. IsFiniteSet(samples) /\ n \in Nat
  BY SamplesFinite, FS_Subset, FS_CardinalityType
<1>2. \A s \in samples : s[1] \in Nat /\ s[2] \in Nat /\ s = <<s[1], s[2]>>
  <2> TAKE s \in samples
  <2>1. s \in Problems \X SampleIds
    BY DEF Samples
  <2>2. s[1] \in Problems /\ s[2] \in SampleIds /\ s = <<s[1], s[2]>>
    BY <2>1
  <2> QED BY <2>2, SamplesFinite DEF Problems
<1>3. /\ NotAfter \in [samples -> SUBSET samples]
      /\ \A i \in samples : i \in NotAfter[i]
      /\ \A i, j \in samples : i # j => (i \in NotAfter[j] <=> j \notin NotAfter[i])
      /\ \A i, j \in samples : i \in NotAfter[j] => NotAfter[i] \subseteq NotAfter[j]
  BY <1>2
<1>4. place = [s \in samples |-> Cardinality(NotAfter[s])]
  OBVIOUS
<1>5. \A s \in samples : place[s] = Place(s)
  OBVIOUS
<1>6. SampleList(samples) = [k \in 1..n |-> At(k)]
  BY DEF SampleList
<1> HIDE DEF Place, NotAfter, place, n, At
<1>7. /\ place \in [samples -> 1..n]
      /\ \A i, j \in samples : place[i] = place[j] => i = j
      /\ \A k \in 1..n : \E i \in samples : place[i] = k
  BY <1>1, <1>3, <1>4, PlacesFill, SMTT(60) DEF n
<1>8. \A k \in 1..n : At(k) \in samples /\ place[At(k)] = k
  BY <1>5, <1>7 DEF At
<1>9. \A s \in samples : place[s] \in 1..n /\ At(place[s]) = s
  BY <1>7, <1>8
<1>10. SampleList(samples) \in Seq(Samples) /\ DOMAIN SampleList(samples) = 1..n
  BY <1>1, <1>6, <1>8
<1>11. Range(SampleList(samples)) = samples
  BY <1>6, <1>8, <1>9, <1>10 DEF Range
<1> QED BY <1>6, <1>8, <1>10, <1>11

-----------------------------------------------------------------------------
(* A directory before its first command. *)
LEMMA BenchInvInit == Init => BenchInv
<1> SUFFICES ASSUME Init PROVE BenchInv
  OBVIOUS
<1> USE DEF Init
<1>1. TypeOK
  <2>1. NoResults \in [Problems -> Seq(Record)]
    BY DEF NoResults
  <2>2. Idle \in [Samples -> {"none"}]
    BY DEF Idle
  <2> QED BY <2>1, <2>2 DEF TypeOK
<1>2. BatchInv /\ OnceInv /\ GenerationInv /\ CorrectInv
  BY DEF BatchInv, OnceInv, GenerationInv, CorrectInv, Evaluating, Range
<1>3. RecordsInv
  <2>1. \A p \in Problems : Held[p] = <<>>
    BY DEF Held, NoResults
  <2> QED BY <2>1 DEF RecordsInv, Evaluating
<1>4. CoverInv
  BY DEF CoverInv, Evaluating, FinishedIsRecorded
<1> QED BY <1>1, <1>2, <1>3, <1>4 DEF BenchInv

(* A command that ends, in whatever way, leaves the files as they are: the records in
   memory are lost if the file was not filled again.  If it ends by itself, it must have
   recorded what it began with. *)
LEMMA EndCommandKeeps ==
    ASSUME BenchInv, NEW how, EndCommand(how), pc # "idle",
           UNCHANGED <<kernel, results, todo, samplesEach>>,
           how = "normally" /\ todo # {} =>
               /\ results # Torn
               /\ \A s \in todo : RecordsOf(s) # {}
               /\ \A p \in Problems : results[p] # <<>>
    PROVE  BenchInv'
<1>1. /\ pc' = "idle" /\ ended' = how /\ work' = <<>> /\ task' = Idle /\ batch' = <<>>
      /\ collected' = <<>> /\ saved' = 0 /\ loaded' = NoResults
  BY DEF EndCommand, NoBatch
<1>2. TypeOK'
  <2>1. NoResults \in [Problems -> Seq(Record)]
    BY DEF NoResults
  <2>2. Idle \in [Samples -> {"none"}]
    BY DEF Idle
  <2> QED BY <1>1, <2>1, <2>2 DEF BenchInv, TypeOK
<1>3. BatchInv' /\ OnceInv' /\ GenerationInv' /\ CorrectInv'
  BY <1>1 DEF BatchInv, OnceInv, GenerationInv, CorrectInv, Evaluating, Range
<1>4. RecordsInv'
  <2>1. Held' = results /\ ~ Evaluating'
    BY <1>1 DEF Held, Evaluating
  <2>2. results # Torn => Held = results
    BY DEF BenchInv, BatchInv, Held
  <2> QED BY <2>1, <2>2 DEF BenchInv, RecordsInv
<1>5. CoverInv'
  BY <1>1 DEF CoverInv, Evaluating, FinishedIsRecorded, RecordsOf
<1> QED BY <1>2, <1>3, <1>4, <1>5 DEF BenchInv

(* Without a file that is torn between two steps, a crash loses nothing. *)
LEMMA CrashKeeps == ASSUME BenchInv, Crash PROVE BenchInv'
<1>1. /\ EndCommand("crashed") /\ pc # "idle" /\ UNCHANGED <<kernel, results, todo, samplesEach>>
      /\ "crashed" # "normally"
  BY DEF Crash, files
<1> QED BY <1>1, EndCommandKeeps

(* The end of a generation; it had no sample to record. *)
LEMMA EndGenerationKeeps == ASSUME BenchInv, EndGeneration PROVE BenchInv'
<1>1. /\ EndCommand("normally") /\ pc # "idle" /\ UNCHANGED <<kernel, results, todo, samplesEach>>
      /\ todo = {}
  BY DEF EndGeneration, files, BenchInv, GenerationInv
<1> QED BY <1>1, EndCommandKeeps

(* When nothing waits any more, an evaluation has recorded what it began with. *)
LEMMA EndEvaluationRecords ==
    ASSUME BenchInv, pc = "batches", work = <<>>
    PROVE  /\ results # Torn
           /\ \A s \in todo : RecordsOf(s) # {}
           /\ \A p \in Problems : results[p] # <<>>
<1>1. pc = "batches" /\ work = <<>>
  OBVIOUS
<1>2. batch = <<>> /\ saved = 0
  BY <1>1 DEF BenchInv, BatchInv
<1>3. Held = results /\ Evaluating /\ NextSaved = 1
  BY <1>1, <1>2 DEF Held, Evaluating, NextSaved
<1>4. Waiting = {}
  BY <1>1, <1>2, <1>3 DEF Waiting, Range
<1>5. results # Torn /\ \A s \in todo : RecordsOf(s) # {}
  <2> SUFFICES ASSUME NEW s \in todo PROVE RecordsOf(s) # {}
    BY <1>3 DEF BenchInv, CoverInv
  <2>1. HasRecord(s)
    BY <1>3, <1>4 DEF BenchInv, CoverInv
  <2> QED BY <2>1, <1>3 DEF HasRecord, RecordsOf
<1>6. ASSUME NEW p \in Problems PROVE results[p] # <<>>
  <2>1. CASE \E s \in todo : s[1] = p
    <3>1. PICK s \in todo : s[1] = p
      BY <2>1
    <3>2. RecordsOf(s) # {}
      BY <1>5
    <3> QED BY <3>1, <3>2 DEF RecordsOf
  <2> QED BY <2>1, <1>3 DEF BenchInv, CoverInv
<1> QED BY <1>5, <1>6

(* The end of an evaluation. *)
LEMMA EndEvaluationKeeps == ASSUME BenchInv, EndEvaluation PROVE BenchInv'
<1>1. /\ EndCommand("normally") /\ pc = "batches" /\ work = <<>>
      /\ UNCHANGED <<kernel, results, todo, samplesEach>>
  BY DEF EndEvaluation
<1> QED BY <1>1, EndEvaluationRecords, EndCommandKeeps

(* A generation begins with the samples that have no file. *)
LEMMA StartGenerationKeeps == ASSUME BenchInv, StartGeneration PROVE BenchInv'
<1>1. PICK n \in SampleCounts :
          work' = SampleList({s \in Samples : s[2] < n /\ kernel[s] = "absent"})
  BY DEF StartGeneration
<1>2. /\ pc = "idle" /\ pc' = "generating" /\ todo' = {}
      /\ UNCHANGED <<kernel, results, batch, overdue, collected, saved, loaded, task, samplesEach>>
  BY DEF StartGeneration, files, batchVars
<1> DEFINE missing == {s \in Samples : s[2] < n /\ kernel[s] = "absent"}
<1>3. missing \in SUBSET Samples /\ \A s \in missing : s \in Samples /\ kernel[s] = "absent"
  OBVIOUS
<1>4. /\ work' \in Seq(Samples) /\ Range(work') = missing
      /\ \A i, j \in DOMAIN work' : work'[i] = work'[j] => i = j
  <2> HIDE DEF missing
  <2> QED BY <1>1, <1>3, SampleListHasAll DEF missing
<1> HIDE DEF missing
<1>5. TypeOK'
  BY <1>2, <1>4 DEF BenchInv, TypeOK
<1>6. batch' = <<>> /\ task' = Idle /\ collected' = <<>> /\ saved' = 0
  BY <1>2 DEF BenchInv, BatchInv, GenerationInv
<1>7. BatchInv' /\ OnceInv' /\ CorrectInv'
  BY <1>2, <1>4, <1>6 DEF BatchInv, OnceInv, CorrectInv, Evaluating, Range
<1>8. GenerationInv'
  BY <1>2, <1>3, <1>4, <1>6 DEF GenerationInv, Idle
<1>9. RecordsInv' /\ CoverInv'
  BY <1>2 DEF BenchInv, RecordsInv, CoverInv, Held, Evaluating, FinishedIsRecorded
<1> QED BY <1>5, <1>7, <1>8, <1>9 DEF BenchInv

(* An evaluation that begins on a whole file waits for all it is to do. *)
LEMMA StartEvaluationKeeps == ASSUME BenchInv, StartEvaluation PROVE BenchInv'
<1>1. /\ pc = "idle" /\ samplesEach' \in SampleCounts
      /\ UNCHANGED <<kernel, results, batch, collected, saved, loaded, task>>
  BY DEF StartEvaluation, files, batchVars
<1>2. batch' = <<>> /\ task' = Idle /\ collected' = <<>> /\ saved' = 0
  BY <1>1 DEF BenchInv, BatchInv, GenerationInv
<1>3. samplesEach' \in Nat \ {0}
  BY <1>1, BenchmarkAssumption DEF BenchmarkAssumption
<1>4. CASE results = Torn
  <2>1. todo' = {} /\ UNCHANGED <<pc, work>>
    BY <1>4 DEF StartEvaluation
  <2>2. TypeOK'
    BY <1>1, <1>3, <2>1 DEF BenchInv, TypeOK
  <2>3. BatchInv' /\ OnceInv' /\ GenerationInv' /\ CorrectInv' /\ RecordsInv' /\ CoverInv'
    BY <1>1, <1>2, <1>4, <2>1 DEF BenchInv, BatchInv, OnceInv, GenerationInv, CorrectInv, RecordsInv,
       CoverInv, Evaluating, Held, FinishedIsRecorded, Range
  <2> QED BY <2>2, <2>3 DEF BenchInv
<1>5. CASE results # Torn
  <2>1. /\ pc' = "batches" /\ work' = SampleList(todo')
        /\ todo' = {s \in Samples : s[2] < samplesEach' /\ Unevaluated(s)}
    BY <1>5 DEF StartEvaluation
  <2>2. todo' \in SUBSET Samples /\ \A s \in todo' : results[s[1]] = <<>>
    BY <2>1 DEF Unevaluated
  <2>3. /\ work' \in Seq(Samples) /\ Range(work') = todo'
        /\ \A i, j \in DOMAIN work' : work'[i] = work'[j] => i = j
    BY <2>1, <2>2, SampleListHasAll
  <2>4. TypeOK'
    BY <1>1, <1>3, <2>1, <2>2, <2>3 DEF BenchInv, TypeOK
  <2>5. BatchInv' /\ OnceInv' /\ GenerationInv'
    BY <1>2, <2>1, <2>3 DEF BatchInv, OnceInv, GenerationInv, Range
  <2>6. CorrectInv'
    BY <1>2 DEF CorrectInv, Idle
  <2>7. /\ Held' = results /\ Held = results /\ Evaluating'
        /\ NextSaved' = 1 /\ Waiting' = todo'
    <3>1. Held' = results /\ Held = results /\ Evaluating' /\ NextSaved' = 1
      BY <1>1, <1>2, <2>1 DEF Held, Evaluating, NextSaved
    <3>2. {batch'[i] : i \in NextSaved'..Len(batch')} = {}
      BY <1>2, <3>1
    <3> QED BY <3>1, <3>2, <2>3 DEF Waiting
  <2>8. RecordsInv'
    <3>1. \A s \in Waiting' : ~ HasRecord(s)'
      BY <2>2, <2>7 DEF HasRecord
    <3> QED BY <3>1, <1>1, <1>5, <2>7 DEF BenchInv, RecordsInv
  <2>9. CoverInv'
    <3>1. ASSUME NEW p \in Problems, results[p] = <<>>
          PROVE  \E s \in todo' : s[1] = p
      <4>1. 0 \in SampleIds
        BY <1>1, <1>3 DEF SampleIds
      <4>2. <<p, 0>> \in Samples /\ <<p, 0>>[1] = p /\ <<p, 0>>[2] = 0
        BY <4>1 DEF Samples
      <4>3. Unevaluated(<<p, 0>>)
        BY <3>1, <4>2 DEF Unevaluated
      <4>4. <<p, 0>> \in todo'
        BY <4>2, <4>3, <2>1, <1>3
      <4> QED BY <4>2, <4>4
    <3> QED BY <3>1, <1>5, <2>1, <2>7 DEF CoverInv, FinishedIsRecorded
  <2> QED BY <2>4, <2>5, <2>6, <2>8, <2>9 DEF BenchInv
<1> QED BY <1>4, <1>5

(* Steps of a generation touch only files that were not whole, which no record is about. *)
LEMMA GenerationStepsKeep ==
    ASSUME BenchInv, pc = "generating", GenerationInv', TypeOK',
           \A i, j \in DOMAIN work' : work'[i] = work'[j] => i = j,
           \A s \in Samples : kernel[s] = "whole" => kernel'[s] = "whole",
           UNCHANGED <<results, batchVars, pc, todo>>
    PROVE  BenchInv'
<1>1. /\ batch' = <<>> /\ collected' = <<>> /\ saved' = 0 /\ pc' = "generating" /\ results' = results
  BY DEF BenchInv, BatchInv, batchVars
<1>2. BatchInv' /\ OnceInv' /\ CorrectInv'
  BY <1>1 DEF BatchInv, OnceInv, CorrectInv, Evaluating, Range
<1>3. Held' = results /\ Held = results /\ ~ Evaluating'
  BY <1>1 DEF Held, Evaluating
<1>4. RecordsInv'
  <2> SUFFICES ASSUME results # Torn, NEW p \in Problems, NEW i \in DOMAIN results[p],
                      results[p][i].correctness
               PROVE  kernel'[<<p, results[p][i].sample_id>>] = "whole"
    BY <1>3 DEF BenchInv, RecordsInv
  <2>1. kernel[<<p, results[p][i].sample_id>>] = "whole"
    BY <1>3 DEF BenchInv, RecordsInv
  <2>2. <<p, results[p][i].sample_id>> \in Samples
    <3>1. results[p] \in Seq(Record)
      BY DEF BenchInv, TypeOK
    <3>2. results[p][i] \in Record
      BY <3>1
    <3> QED BY <3>2 DEF Record, Samples
  <2> QED BY <2>1, <2>2
<1>5. CoverInv'
  BY <1>1, <1>3 DEF CoverInv, FinishedIsRecorded
<1> QED BY <1>2, <1>4, <1>5 DEF BenchInv

(* A thread is given a sample. *)
LEMMA QueryServerKeeps == ASSUME BenchInv, QueryServer PROVE BenchInv'
<1>1. /\ pc = "generating" /\ work # <<>> /\ work' = Tail(work)
      /\ task' = [task EXCEPT ![Head(work)] = "asking"]
      /\ UNCHANGED <<kernel, results, batchVars, pc, todo, samplesEach>>
  BY DEF QueryServer, files
<1>2. work \in Seq(Samples) /\ task \in [Samples -> {"none", "asking", "writing", "queued",
                                                     "building", "testing", "dead"} \cup Returned]
  BY DEF BenchInv, TypeOK
<1>3. /\ Head(work) \in Samples /\ work' \in Seq(Samples) /\ Head(work) = work[1] /\ 1 \in DOMAIN work
      /\ \A i \in DOMAIN work' : i + 1 \in DOMAIN work /\ work'[i] = work[i + 1] /\ i \in Nat /\ i >= 1
  BY <1>1, <1>2
<1>4. \A i, j \in DOMAIN work : work[i] = work[j] => i = j
  BY DEF BenchInv, OnceInv
<1>5. \A i, j \in DOMAIN work' : work'[i] = work'[j] => i = j
  BY <1>3, <1>4
<1>6. \A i \in DOMAIN work' : work'[i] # Head(work)
  BY <1>3, <1>4
<1>7. TypeOK'
  <2>1. task' \in [Samples -> {"none", "asking", "writing", "queued", "building", "testing", "dead"}
                              \cup Returned]
    BY <1>1, <1>2, <1>3
  <2> QED BY <1>1, <1>3, <2>1 DEF BenchInv, TypeOK, batchVars
<1>8. GenerationInv'
  <2>1. \A s \in Range(work') : s \in Range(work) /\ s # Head(work) /\ s \in Samples
    <3> SUFFICES ASSUME NEW i \in DOMAIN work'
                 PROVE  work'[i] \in Range(work) /\ work'[i] # Head(work) /\ work'[i] \in Samples
      BY DEF Range
    <3>1. i + 1 \in DOMAIN work /\ work'[i] = work[i + 1]
      BY <1>3
    <3> QED BY <3>1, <1>2, <1>6 DEF Range
  <2>2. \A s \in Samples : task'[s] = IF s = Head(work) THEN "asking" ELSE task[s]
    BY <1>1, <1>2, <1>3
  <2>3. kernel[Head(work)] = "absent"
    <3>1. Head(work) \in Range(work)
      BY <1>3 DEF Range
    <3> QED BY <3>1, <1>1 DEF BenchInv, GenerationInv
  <2>4. /\ \A s \in Range(work) : kernel[s] = "absent" /\ task[s] = "none"
        /\ \A s \in Samples :
               /\ task[s] \in {"none", "asking", "writing"}
               /\ task[s] = "asking" => kernel[s] = "absent"
               /\ task[s] = "writing" => kernel[s] = "torn"
        /\ todo = {} /\ pc' = "generating" /\ todo' = todo /\ kernel' = kernel
    BY <1>1 DEF BenchInv, GenerationInv
  <2> QED BY <2>1, <2>2, <2>3, <2>4 DEF GenerationInv
<1> QED BY <1>1, <1>5, <1>7, <1>8, GenerationStepsKeep

(* A thread writes a kernel file in two steps, or gives its sample up. *)
LEMMA GenerateKeeps == ASSUME BenchInv, NEW s \in Samples, Generate(s) PROVE BenchInv'
<1>1. /\ task[s] \in {"asking", "writing"}
      /\ UNCHANGED <<results, batchVars, pc, work, todo, samplesEach>>
  BY DEF Generate, OpenKernel, FillKernel
<1>2. pc = "generating"
  BY <1>1 DEF BenchInv, TypeOK, GenerationInv, CorrectInv, Evaluating, Idle
<1>3. /\ \A o \in Range(work) : kernel[o] = "absent" /\ task[o] = "none" /\ o # s
      /\ \A o \in Samples :
             /\ task[o] \in {"none", "asking", "writing"}
             /\ task[o] = "asking" => kernel[o] = "absent"
             /\ task[o] = "writing" => kernel[o] = "torn"
      /\ todo = {}
  BY <1>1, <1>2 DEF BenchInv, GenerationInv
<1>4. /\ kernel \in [Samples -> {"absent", "torn", "whole"}]
      /\ task \in [Samples -> {"none", "asking", "writing", "queued", "building", "testing", "dead"}
                              \cup Returned]
      /\ work \in Seq(Samples)
  BY DEF BenchInv, TypeOK
<1>5. PICK state \in {"none", "writing"}, content \in {"absent", "torn", "whole"} :
          /\ task' = [task EXCEPT ![s] = state]
          /\ kernel' = [kernel EXCEPT ![s] = content]
          /\ state = "writing" => content = "torn"
          /\ kernel[s] # "whole"
  <2>1. CASE OpenKernel(s) /\ task' = [task EXCEPT ![s] = "writing"]
    <3>1. task[s] = "asking" /\ (kernel' = [kernel EXCEPT ![s] = "torn"] \/ UNCHANGED kernel)
      BY <2>1 DEF OpenKernel
    <3>2. kernel' = [kernel EXCEPT ![s] = "torn"] /\ kernel[s] = "absent"
      BY <2>1, <1>3, <1>4, <3>1 DEF OpenKernel
    <3> QED BY <2>1, <3>2
  <2>2. CASE OpenKernel(s) /\ task' = [task EXCEPT ![s] = "none"] /\ kernel' = kernel
    <3>1. kernel' = [kernel EXCEPT ![s] = "absent"] /\ kernel[s] = "absent"
      BY <2>2, <1>3, <1>4 DEF OpenKernel
    <3> QED BY <2>2, <3>1
  <2>3. CASE FillKernel(s)
    BY <2>3, <1>3 DEF FillKernel
  <2> QED BY <2>1, <2>2, <2>3 DEF Generate, OpenKernel
<1>6. /\ task' \in [Samples -> {"none", "asking", "writing", "queued", "building", "testing", "dead"}
                              \cup Returned]
      /\ kernel' \in [Samples -> {"absent", "torn", "whole"}]
      /\ \A o \in Samples : task'[o] = IF o = s THEN state ELSE task[o]
      /\ \A o \in Samples : kernel'[o] = IF o = s THEN content ELSE kernel[o]
  BY <1>4, <1>5
<1>7. TypeOK'
  BY <1>1, <1>6 DEF BenchInv, TypeOK, batchVars
<1>8. GenerationInv'
  <2>1. \A o \in Range(work) : o \in Samples
    BY <1>4 DEF Range
  <2> QED BY <2>1, <1>1, <1>2, <1>3, <1>5, <1>6 DEF GenerationInv
<1>9. \A i, j \in DOMAIN work' : work'[i] = work'[j] => i = j
  BY <1>1 DEF BenchInv, OnceInv
<1>10. \A o \in Samples : kernel[o] = "whole" => kernel'[o] = "whole"
  BY <1>5, <1>6
<1> QED BY <1>1, <1>2, <1>7, <1>8, <1>9, <1>10, GenerationStepsKeep

(* The processes of a batch move on; only a whole kernel is built and tested. *)
LEMMA EvaluateKeeps == ASSUME BenchInv, NEW s \in Samples, Evaluate(s) PROVE BenchInv'
<1>1. /\ pc \in {"collecting", "recording", "filling"}
      /\ LoadKernel(s) \/ EndBuild(s) \/ EndTest(s) \/ Die(s)
      /\ UNCHANGED <<kernel, results, batchVars, pc, work, todo, samplesEach, ended>>
  BY DEF Evaluate
<1>2. /\ kernel \in [Samples -> {"absent", "torn", "whole"}]
      /\ task \in [Samples -> {"none", "asking", "writing", "queued", "building", "testing", "dead"}
                              \cup Returned]
  BY DEF BenchInv, TypeOK
<1>3. task[s] \in {"building", "testing", "correct"} => kernel[s] = "whole"
  BY <1>1 DEF BenchInv, CorrectInv, Evaluating
<1>4. PICK state \in {"building", "testing", "dead", "correct", "failed", "none", "raised"} :
          /\ task' = [task EXCEPT ![s] = state]
          /\ state \in {"building", "testing", "correct"} => kernel[s] = "whole"
  <2>1. CASE LoadKernel(s)
    BY <2>1 DEF LoadKernel, Become
  <2>2. CASE EndBuild(s)
    BY <2>2, <1>3 DEF EndBuild, Become
  <2>3. CASE EndTest(s)
    BY <2>3, <1>3 DEF EndTest
  <2>4. CASE Die(s)
    BY <2>4 DEF Die, Become
  <2> QED BY <1>1, <2>1, <2>2, <2>3, <2>4
<1>5. /\ task' \in [Samples -> {"none", "asking", "writing", "queued", "building", "testing", "dead"}
                              \cup Returned]
      /\ \A o \in Samples : task'[o] = IF o = s THEN state ELSE task[o]
  BY <1>2, <1>4 DEF Returned
<1>6. TypeOK'
  BY <1>1, <1>5 DEF BenchInv, TypeOK, batchVars
<1>7. BatchInv' /\ OnceInv'
  BY <1>1 DEF BenchInv, BatchInv, OnceInv, batchVars
<1>8. GenerationInv'
  BY <1>1 DEF GenerationInv
<1>9. CorrectInv'
  BY <1>1, <1>4, <1>5 DEF BenchInv, CorrectInv, Evaluating, batchVars
<1>10. RecordsInv' /\ CoverInv'
  <2>1. Held' = Held /\ Waiting' = Waiting /\ (Evaluating' <=> Evaluating)
    BY <1>1 DEF Held, Waiting, NextSaved, Evaluating, batchVars
  <2>2. \A o : HasRecord(o)' <=> HasRecord(o)
    BY <2>1 DEF HasRecord
  <2>3. RecordsInv'
    BY <1>1, <2>1, <2>2 DEF BenchInv, RecordsInv
  <2>4. CoverInv'
    BY <1>1, <2>1, <2>2 DEF BenchInv, CoverInv, FinishedIsRecorded
  <2> QED BY <2>3, <2>4
<1> QED BY <1>6, <1>7, <1>8, <1>9, <1>10 DEF BenchInv

(* A batch takes the head of the work; what waits is the same. *)
LEMMA BeginBatchKeeps == ASSUME BenchInv, BeginBatch PROVE BenchInv'
<1> DEFINE size == Min({NumGpus, Len(work)})
<1>1. /\ pc = "batches" /\ pc' = "collecting" /\ work # <<>>
      /\ batch' = SubSeq(work, 1, size) /\ work' = SubSeq(work, size + 1, Len(work))
      /\ task' = [s \in Samples |->
                     IF \E i \in DOMAIN batch' : batch'[i] = s THEN "queued" ELSE "none"]
      /\ UNCHANGED <<kernel, results, todo, collected, saved, loaded, samplesEach, ended>>
  BY DEF BeginBatch, files
<1>2. work \in Seq(Samples) /\ Len(work) \in Nat /\ Len(work) # 0 /\ DOMAIN work = 1..Len(work)
  BY <1>1 DEF BenchInv, TypeOK
<1>3. size \in 1..Len(work)
  <2>1. NumGpus \in Nat \ {0}
    BY BenchmarkAssumption DEF BenchmarkAssumption
  <2>2. \E x \in {NumGpus, Len(work)} : \A y \in {NumGpus, Len(work)} : x <= y
    BY <2>1, <1>2
  <2>3. size \in {NumGpus, Len(work)} /\ \A y \in {NumGpus, Len(work)} : size <= y
    BY <2>2 DEF Min
  <2> QED BY <2>1, <2>3, <1>2
<1>4. batch = <<>> /\ collected = <<>> /\ saved = 0 /\ Len(collected) = 0
  BY <1>1 DEF BenchInv, BatchInv
<1> HIDE DEF size
<1> DEFINE left == Len(work) - size
<1>5. /\ batch' \in Seq(Samples) /\ Len(batch') = size /\ DOMAIN batch' = 1..size
      /\ \A i \in 1..size : batch'[i] = work[i] /\ i \in DOMAIN work
      /\ work' \in Seq(Samples) /\ DOMAIN work' = 1..left /\ left \in Nat
      /\ \A i \in 1..left : work'[i] = work[i + size] /\ i + size \in DOMAIN work
  <2>1. left \in Nat /\ size \in Nat
    BY <1>2, <1>3
  <2>2. batch' = [i \in 1..size |-> work[i]] /\ \A i \in 1..size : i \in DOMAIN work
    BY <1>1, <1>2, <1>3 DEF SubSeq
  <2>3. /\ work' \in Seq(Samples)
        /\ Len(work') = left
        /\ \A i \in 1..left : work'[i] = work[i + size]
    <3> DEFINE m == size + 1
               n == Len(work)
    <3>1. m \in Int /\ n \in Int /\ \A i \in m..n : work[i] \in Samples
      BY <1>2, <1>3
    <3>2. work' = SubSeq(work, m, n)
      BY <1>1
    <3> HIDE DEF m, n
    <3>3. /\ work' \in Seq(Samples) /\ Len(work') = IF m <= n THEN n - m + 1 ELSE 0
          /\ \A i \in 1..(n - m + 1) : work'[i] = work[m + i - 1]
      BY <3>1, <3>2, SubSeqProperties
    <3>4. n - m + 1 = left /\ (IF m <= n THEN n - m + 1 ELSE 0) = left
      <4>1. size \in Int /\ n \in Int /\ size <= n /\ left = n - size /\ m = size + 1
        BY <1>2, <1>3 DEF m, n
      <4> HIDE DEF left
      <4> QED BY <4>1
    <3>5. \A i \in 1..left : m + i - 1 = i + size
      BY <1>3, <2>1 DEF m
    <3> HIDE DEF left
    <3> QED BY <3>3, <3>4, <3>5
  <2>4. \A i \in 1..left : i + size \in DOMAIN work
    BY <1>2, <1>3
  <2> HIDE DEF left
  <2>5. \A i \in DOMAIN work : work[i] \in Samples
    BY <1>2
  <2>6. /\ batch' \in Seq(Samples) /\ Len(batch') = size /\ DOMAIN batch' = 1..size
        /\ \A i \in 1..size : batch'[i] = work[i]
    BY <2>1, <2>2, <2>5
  <2>7. work' \in Seq(Samples) /\ DOMAIN work' = 1..left /\ \A i \in 1..left : work'[i] = work[i + size]
    BY <2>1, <2>3
  <2> QED BY <2>1, <2>2, <2>4, <2>6, <2>7
<1> HIDE DEF left
<1>6. \A i \in DOMAIN work : i \in 1..size \/ \E j \in 1..left : i = j + size
  <2> SUFFICES ASSUME NEW i \in DOMAIN work, ~ (i \in 1..size)
               PROVE  \E j \in 1..left : i = j + size
    OBVIOUS
  <2>1. i - size \in 1..left /\ i = (i - size) + size
    BY <1>2, <1>3 DEF left
  <2> QED BY <2>1
<1>7. TypeOK'
  <2>1. task' \in [Samples -> {"none", "asking", "writing", "queued", "building", "testing", "dead"}
                              \cup Returned]
    BY <1>1
  <2> QED BY <1>1, <1>5, <2>1 DEF BenchInv, TypeOK
<1>8. BatchInv'
  BY <1>1, <1>3, <1>4, <1>5 DEF BatchInv
<1>9. \A i, j \in DOMAIN work : work[i] = work[j] => i = j
  BY DEF BenchInv, OnceInv
<1>10. OnceInv'
  <2>1. \A i, j \in DOMAIN batch' : batch'[i] = batch'[j] => i = j
    BY <1>5, <1>9
  <2>2. \A i, j \in DOMAIN work' : work'[i] = work'[j] => i = j
    <3> TAKE i \in DOMAIN work', j \in DOMAIN work'
    <3>1. work'[i] = work'[j] => i + size = j + size
      BY <1>5, <1>9
    <3> QED BY <3>1, <1>3, <1>5
  <2>3. \A i \in DOMAIN batch', j \in DOMAIN work' : batch'[i] # work'[j]
    <3> TAKE i \in DOMAIN batch', j \in DOMAIN work'
    <3>1. batch'[i] = work'[j] => i = j + size
      BY <1>5, <1>9
    <3>2. i # j + size
      BY <1>3, <1>5
    <3> QED BY <3>1, <3>2
  <2>4. Range(work') \cap Range(batch') = {}
    BY <2>3 DEF Range
  <2> QED BY <2>1, <2>2, <2>4 DEF OnceInv
<1>11. GenerationInv'
  BY <1>1 DEF GenerationInv
<1>12. CorrectInv'
  BY <1>1, <1>4 DEF CorrectInv
<1>13. /\ Held' = results /\ Held = results /\ Evaluating /\ Evaluating'
       /\ NextSaved = 1 /\ NextSaved' = 1
  BY <1>1, <1>4 DEF Held, Evaluating, NextSaved
<1>14. Waiting' = Waiting
  <2>1. Waiting = Range(work)
    BY <1>4, <1>13 DEF Waiting
  <2>2. Waiting' = Range(work') \cup Range(batch')
    BY <1>5, <1>13 DEF Waiting, Range
  <2>3. Range(work) \subseteq Range(work') \cup Range(batch')
    <3> SUFFICES ASSUME NEW i \in DOMAIN work PROVE work[i] \in Range(work') \cup Range(batch')
      BY DEF Range
    <3>1. CASE i \in 1..size
      BY <3>1, <1>5 DEF Range
    <3>2. CASE \E j \in 1..left : i = j + size
      BY <3>2, <1>5 DEF Range
    <3> QED BY <3>1, <3>2, <1>6
  <2>4. Range(work') \cup Range(batch') \subseteq Range(work)
    BY <1>5 DEF Range
  <2> QED BY <2>1, <2>2, <2>3, <2>4
<1>15. \A s : HasRecord(s)' <=> HasRecord(s)
  BY <1>13 DEF HasRecord
<1>16. RecordsInv' /\ CoverInv'
  BY <1>1, <1>13, <1>14, <1>15 DEF BenchInv, RecordsInv, CoverInv, FinishedIsRecorded
<1> QED BY <1>7, <1>8, <1>10, <1>11, <1>12, <1>16 DEF BenchInv

(* The result of the next sample is its own: of its process, or a failure. *)
LEMMA CollectResultKeeps == ASSUME BenchInv, CollectResult PROVE BenchInv'
<1> DEFINE n == Len(collected)
<1>1. /\ pc = "collecting"
      /\ Get(task[batch[n + 1]], ~overdue)
      /\ pc' = IF Len(collected') = Len(batch) THEN "recording" ELSE pc
      /\ UNCHANGED <<kernel, results, batch, saved, loaded, work, todo, task, samplesEach, ended>>
  BY DEF CollectResult
<1>2. PICK result \in {"correct", "failed", "none"} :
          /\ collected' = Append(collected, result)
          /\ result = "correct" => task[batch[n + 1]] = "correct"
  BY <1>1 DEF Get
<1>3. /\ collected \in Seq({"correct", "failed", "none"}) /\ n \in Nat /\ n < Len(batch) /\ saved = 0
      /\ batch \in Seq(Samples) /\ Len(batch) \in Nat /\ DOMAIN batch = 1..Len(batch)
  BY <1>1 DEF BenchInv, TypeOK, BatchInv
<1>4. n + 1 \in DOMAIN batch /\ batch[n + 1] \in Samples
  BY <1>3
<1>5. /\ collected' \in Seq({"correct", "failed", "none"}) /\ Len(collected') = n + 1
      /\ DOMAIN collected = 1..n /\ DOMAIN collected' = 1..(n + 1) /\ collected'[n + 1] = result
      /\ \A i \in 1..n : collected'[i] = collected[i]
  BY <1>2, <1>3
<1> HIDE DEF n
<1>6. pc' \in {"collecting", "recording"}
  BY <1>1
<1>7. TypeOK'
  BY <1>1, <1>5, <1>6 DEF BenchInv, TypeOK
<1>8. BatchInv'
  <2>1. /\ n + 1 <= Len(batch) /\ batch' = batch /\ saved' = 0 /\ 0 <= Len(batch)
        /\ n + 1 \in Nat /\ Len(collected') = n + 1
    <3>1. n \in Nat /\ Len(batch) \in Nat /\ n < Len(batch) /\ saved = 0
      BY <1>3
    <3>2. n + 1 <= Len(batch) /\ 0 <= Len(batch) /\ n + 1 \in Nat
      BY <3>1
    <3> QED BY <3>1, <3>2, <1>1, <1>5
  <2>2. CASE n + 1 = Len(batch)
    <3>1. pc' = "recording"
      BY <2>1, <2>2, <1>1
    <3> QED BY <2>1, <2>2, <3>1 DEF BatchInv
  <2>3. CASE n + 1 # Len(batch)
    <3>1. n \in Nat /\ Len(batch) \in Nat /\ n < Len(batch)
      BY <1>3
    <3>2. n + 1 < Len(batch)
      BY <3>1, <2>3
    <3>3. pc' = "collecting"
      BY <2>1, <2>3, <1>1
    <3> QED BY <2>1, <3>2, <3>3 DEF BatchInv
  <2> QED BY <2>2, <2>3
<1>9. OnceInv' /\ GenerationInv'
  BY <1>1, <1>6 DEF BenchInv, OnceInv, GenerationInv
<1>10. CorrectInv'
  <2>1. /\ \A s \in Samples :
               /\ task[s] \notin {"asking", "writing"}
               /\ task[s] \in {"building", "testing", "correct"} => kernel[s] = "whole"
        /\ \A i \in 1..n : i \in DOMAIN batch /\ (collected[i] = "correct" => kernel[batch[i]] = "whole")
    BY <1>1, <1>5 DEF BenchInv, CorrectInv, Evaluating
  <2>2. result = "correct" => kernel[batch[n + 1]] = "whole"
    BY <2>1, <1>2, <1>4 DEF n
  <2>3. \A i \in 1..(n + 1) : i \in 1..n \/ i = n + 1
    BY <1>3
  <2>4. \A i \in DOMAIN collected' :
            i \in DOMAIN batch /\ (collected'[i] = "correct" => kernel[batch[i]] = "whole")
    BY <2>1, <2>2, <2>3, <1>4, <1>5
  <2> QED BY <2>1, <2>4, <1>1 DEF CorrectInv
<1>11. Held' = Held /\ Waiting' = Waiting /\ Evaluating /\ Evaluating'
  BY <1>1, <1>6 DEF Held, Waiting, NextSaved, Evaluating
<1>12. \A s : HasRecord(s)' <=> HasRecord(s)
  BY <1>11 DEF HasRecord
<1>13. RecordsInv' /\ CoverInv'
  BY <1>1, <1>6, <1>11, <1>12 DEF BenchInv, RecordsInv, CoverInv, FinishedIsRecorded
<1> QED BY <1>7, <1>8, <1>9, <1>10, <1>13 DEF BenchInv

(* Time passes, the file is filled, or the batch ends: what is recorded and what waits
   stay the same. *)
LEMMA BatchStepsKeep == ASSUME BenchInv, OutOfTime \/ FillResults \/ EndBatch PROVE BenchInv'
<1>1. /\ UNCHANGED <<kernel, work, todo, samplesEach, ended>>
      /\ pc \in {"collecting", "filling", "recording"}
      /\ pc' \in {"collecting", "recording", "batches"}
  BY DEF OutOfTime, FillResults, EndBatch, files
<1>2. TypeOK
  BY DEF BenchInv
<1>3. Held' = Held /\ Evaluating /\ Evaluating'
  BY <1>1 DEF OutOfTime, FillResults, EndBatch, files, Held, Evaluating
<1>4. /\ TypeOK' /\ BatchInv' /\ OnceInv' /\ GenerationInv' /\ CorrectInv'
      /\ Waiting' = Waiting
  <2>1. CASE OutOfTime
    <3>1. /\ pc = "collecting" /\ pc' = pc
          /\ UNCHANGED <<kernel, results, batch, collected, saved, loaded, work, todo, task, samplesEach>>
      BY <2>1 DEF OutOfTime, files
    <3> QED BY <3>1 DEF BenchInv, TypeOK, BatchInv, OnceInv, GenerationInv, CorrectInv, Waiting, NextSaved, Evaluating
  <2>2. CASE FillResults
    <3>1. /\ pc = "filling" /\ pc' = "recording" /\ results' = loaded /\ loaded' = NoResults
          /\ saved' = saved + 1
          /\ UNCHANGED <<kernel, batch, collected, work, todo, task, samplesEach>>
      BY <2>2 DEF FillResults
    <3>2. NoResults \in [Problems -> Seq(Record)]
      BY DEF NoResults
    <3>3. TypeOK'
      BY <1>2, <3>1, <3>2 DEF TypeOK
    <3>4. BatchInv'
      <4>1. saved \in Nat /\ Len(batch) \in Nat /\ Len(collected) = Len(batch) /\ saved < Len(batch)
        BY <3>1, <1>2 DEF BenchInv, BatchInv, TypeOK
      <4> QED BY <4>1, <3>1 DEF BatchInv
    <3>5. OnceInv' /\ GenerationInv' /\ CorrectInv'
      BY <3>1 DEF BenchInv, OnceInv, GenerationInv, CorrectInv, Evaluating
    <3>6. NextSaved' = NextSaved
      BY <3>1, <1>2 DEF NextSaved, TypeOK
    <3>7. Waiting' = Waiting
      BY <3>1, <3>6 DEF Waiting
    <3> QED BY <3>3, <3>4, <3>5, <3>7
  <2>3. CASE EndBatch
    <3>1. /\ pc = "recording" /\ saved = Len(batch) /\ pc' = "batches" /\ task' = Idle
          /\ batch' = <<>> /\ collected' = <<>> /\ saved' = 0 /\ loaded' = NoResults
          /\ UNCHANGED <<kernel, results, work, todo, samplesEach>>
      BY <2>3 DEF EndBatch, NoBatch, files
    <3>2. NoResults \in [Problems -> Seq(Record)] /\ Idle \in [Samples -> {"none"}]
      BY DEF NoResults, Idle
    <3>3. TypeOK'
      BY <1>2, <3>1, <3>2 DEF TypeOK
    <3>4. BatchInv' /\ GenerationInv' /\ CorrectInv'
      BY <3>1 DEF BatchInv, GenerationInv, CorrectInv, Idle
    <3>5. OnceInv'
      BY <3>1 DEF BenchInv, OnceInv, Range
    <3>6. NextSaved' = 1 /\ NextSaved = Len(batch) + 1 /\ Len(batch) \in Nat
      BY <3>1, <1>2 DEF NextSaved, TypeOK
    <3>7. Waiting' = Range(work) /\ Waiting = Range(work)
      BY <3>1, <3>6 DEF Waiting
    <3> QED BY <3>3, <3>4, <3>5, <3>7
  <2> QED BY <2>1, <2>2, <2>3
<1>5. \A s : HasRecord(s)' <=> HasRecord(s)
  BY <1>3 DEF HasRecord
<1>6. RecordsInv'
  BY <1>1, <1>3, <1>4, <1>5 DEF BenchInv, RecordsInv
<1>7. CoverInv'
  BY <1>1, <1>3, <1>4, <1>5 DEF BenchInv, CoverInv, FinishedIsRecorded
<1> QED BY <1>4, <1>6, <1>7 DEF BenchInv

(* A result that is added is of the next sample of the batch, which has none. *)
LEMMA AddResultAddsRecord ==
    ASSUME BenchInv, AddResult, collected[saved + 1] # "none"
    PROVE  LET s == batch[saved + 1]
               result == collected[saved + 1]
               p == s[1]
               record == [sample_id |-> s[2], correctness |-> result = "correct"]
               n == Len(results[p])
           IN  /\ s \in Samples /\ p \in Problems /\ s[2] \in SampleIds /\ s = <<p, s[2]>>
               /\ result \in {"correct", "failed"} /\ (result = "correct" => kernel[s] = "whole")
               /\ Held = results /\ Held' = loaded' /\ results # Torn /\ loaded' # Torn
               /\ results \in [Problems -> Seq(Record)] /\ loaded' \in [Problems -> Seq(Record)]
               /\ \A q \in Problems : q # p => loaded'[q] = results[q]
               /\ n \in Nat /\ DOMAIN results[p] = 1..n /\ DOMAIN loaded'[p] = 1..(n + 1)
               /\ loaded'[p][n + 1] = record
               /\ \A i \in 1..n : loaded'[p][i] = results[p][i]
               /\ \A i \in 1..n : results[p][i].sample_id # s[2]
               /\ NextSaved' = saved + 2
               /\ Waiting = Waiting' \cup {s} /\ s \notin Waiting'
<1> DEFINE s == batch[saved + 1]
           result == collected[saved + 1]
           p == s[1]
           record == [sample_id |-> s[2], correctness |-> result = "correct"]
<1>0. /\ pc = "recording" /\ saved < Len(batch)
      /\ UNCHANGED <<kernel, todo, samplesEach>>
  BY DEF AddResult
<1>1. /\ loaded' = WithRecord(results, s, result) /\ results' = Torn /\ pc' = "filling"
      /\ UNCHANGED <<batch, collected, saved, work, task, ended>>
  BY DEF AddResult
<1>2. /\ saved \in Nat /\ Len(batch) \in Nat /\ batch \in Seq(Samples) /\ Len(collected) = Len(batch)
      /\ collected \in Seq({"correct", "failed", "none"})
  BY <1>0 DEF BenchInv, TypeOK, BatchInv
<1>3. /\ saved + 1 \in 1..Len(batch) /\ DOMAIN batch = 1..Len(batch) /\ DOMAIN collected = 1..Len(batch)
      /\ s \in Samples
  BY <1>2, <1>0
<1>4. p \in Problems /\ s[2] \in SampleIds /\ s = <<p, s[2]>>
  BY <1>3 DEF Samples
<1>5. Held = results /\ Held' = loaded' /\ Evaluating /\ Evaluating' /\ results # Torn
  <2>1. Held = results /\ Held' = loaded' /\ Evaluating /\ Evaluating'
    BY <1>0, <1>1 DEF Held, Evaluating
  <2> QED BY <2>1 DEF BenchInv, CoverInv
<1>6. results \in [Problems -> Seq(Record)]
  BY <1>5 DEF BenchInv, TypeOK
<1>7. record \in Record
  BY <1>4 DEF Record
<1> DEFINE n == Len(results[p])
<1>8. /\ loaded' = [results EXCEPT ![p] = Append(results[p], record)]
      /\ loaded' \in [Problems -> Seq(Record)]
      /\ loaded'[p] = Append(results[p], record)
      /\ \A q \in Problems : q # p => loaded'[q] = results[q]
  <2>1. loaded' = [results EXCEPT ![p] = Append(results[p], record)]
    BY <1>1 DEF WithRecord
  <2>2. Append(results[p], record) \in Seq(Record)
    BY <1>4, <1>6, <1>7
  <2> HIDE DEF record, p
  <2> QED BY <2>1, <2>2, <1>4, <1>6
<1>9. /\ n \in Nat /\ DOMAIN results[p] = 1..n /\ DOMAIN loaded'[p] = 1..(n + 1)
      /\ loaded'[p][n + 1] = record
      /\ \A i \in 1..n : loaded'[p][i] = results[p][i]
  <2>1. results[p] \in Seq(Record)
    BY <1>4, <1>6
  <2> HIDE DEF record, p
  <2> QED BY <2>1, <1>8
<1>14. /\ NextSaved = saved + 1 /\ NextSaved' = saved + 2
       /\ Waiting = Waiting' \cup {s} /\ s \notin Waiting'
  <2>1. NextSaved = saved + 1 /\ NextSaved' = saved + 2
    BY <1>0, <1>1 DEF NextSaved
  <2>2. (saved + 1)..Len(batch) = ((saved + 2)..Len(batch)) \cup {saved + 1}
    BY <1>2, <1>3
  <2>3. Waiting = Range(work) \cup {batch[i] : i \in (saved + 1)..Len(batch)}
    BY <2>1 DEF Waiting
  <2>4. Waiting' = Range(work) \cup {batch[i] : i \in (saved + 2)..Len(batch)}
    BY <2>1, <1>1 DEF Waiting
  <2>5. \A i \in (saved + 2)..Len(batch) : batch[i] # s
    <3> TAKE i \in (saved + 2)..Len(batch)
    <3>1. i \in DOMAIN batch /\ saved + 1 \in DOMAIN batch /\ i # saved + 1
      BY <1>2, <1>3
    <3> QED BY <3>1 DEF BenchInv, OnceInv
  <2>6. s \notin Range(work)
    <3>1. s \in Range(batch)
      BY <1>3 DEF Range
    <3> QED BY <3>1 DEF BenchInv, OnceInv
  <2> QED BY <2>1, <2>2, <2>3, <2>4, <2>5, <2>6
<1> HIDE DEF n, s, result
<1>15. \A i \in DOMAIN results[p] : results[p][i].sample_id # s[2]
  <2>1. ~ HasRecord(s)
    BY <1>5, <1>14 DEF BenchInv, RecordsInv
  <2> QED BY <2>1, <1>5 DEF HasRecord
<1>16. result = "correct" => kernel[s] = "whole"
  BY <1>3, <1>5 DEF BenchInv, CorrectInv, s, result
<1>17. result \in {"correct", "failed"}
  BY <1>2, <1>3 DEF result
<1>18. loaded' # Torn
  BY <1>8, BenchmarkAssumption DEF BenchmarkAssumption
<1>19. \A i \in 1..n : results[p][i].sample_id # s[2]
  BY <1>9, <1>15
<1> HIDE DEF record, p
<1> QED BY <1>3, <1>4, <1>5, <1>6, <1>8, <1>9, <1>14, <1>16, <1>17, <1>18, <1>19 DEF n, s, result, record, p

(* A record is added for the next sample of the batch, which had none; or the command
   ends, at one that is to be tried again. *)
LEMMA AddResultKeeps == ASSUME BenchInv, AddResult PROVE BenchInv'
<1> DEFINE s == batch[saved + 1]
           result == collected[saved + 1]
           p == s[1]
           record == [sample_id |-> s[2], correctness |-> result = "correct"]
<1>1. /\ pc = "recording" /\ saved < Len(batch)
      /\ UNCHANGED <<kernel, todo, samplesEach>>
  BY DEF AddResult
<1>2. CASE result = "none"
  <2>1. EndCommand("aborted") /\ UNCHANGED results /\ "aborted" # "normally"
    BY <1>2 DEF AddResult
  <2> QED BY <2>1, <1>1, EndCommandKeeps
<1>3. CASE result # "none"
  <2>1. /\ loaded' = WithRecord(results, s, result) /\ results' = Torn /\ pc' = "filling"
        /\ UNCHANGED <<batch, collected, saved, work, task, ended>>
    BY <1>3 DEF AddResult
  <2>2. saved \in Nat /\ batch \in Seq(Samples) /\ Len(batch) \in Nat /\ Len(collected) = Len(batch)
    BY <1>1 DEF BenchInv, TypeOK, BatchInv
  <2> DEFINE n == Len(results[p])
  <2>3. /\ s \in Samples /\ p \in Problems /\ s[2] \in SampleIds /\ s = <<p, s[2]>>
        /\ result = "correct" => kernel[s] = "whole"
        /\ Held = results /\ Held' = loaded' /\ results # Torn /\ loaded' # Torn
        /\ loaded' \in [Problems -> Seq(Record)]
        /\ \A q \in Problems : q # p => loaded'[q] = results[q]
        /\ n \in Nat /\ DOMAIN results[p] = 1..n /\ DOMAIN loaded'[p] = 1..(n + 1)
        /\ loaded'[p][n + 1] = record
        /\ \A i \in 1..n : loaded'[p][i] = results[p][i]
        /\ \A i \in 1..n : results[p][i].sample_id # s[2]
        /\ NextSaved' = saved + 2
        /\ Waiting = Waiting' \cup {s} /\ s \notin Waiting'
    BY <1>3, AddResultAddsRecord
  <2>4. /\ loaded'[p][n + 1].sample_id = s[2] /\ s = <<p, s[2]>>
        /\ n \in Nat /\ DOMAIN loaded'[p] = 1..(n + 1)
        /\ \A i \in 1..n : loaded'[p][i] = results[p][i]
    <3> HIDE DEF s, n
    <3> QED BY <2>3
  <2>5. Evaluating /\ Evaluating'
    BY <1>1, <2>1 DEF Evaluating
  <2> HIDE DEF n
  <2>10. \A i \in 1..(n + 1) : i \in 1..n \/ i = n + 1
    BY <2>3
  <2>11. TypeOK'
    BY <1>1, <2>1, <2>3 DEF BenchInv, TypeOK
  <2>12. BatchInv'
    BY <1>1, <2>1, <2>2 DEF BatchInv
  <2>13. OnceInv' /\ GenerationInv' /\ CorrectInv'
    BY <1>1, <2>1, <2>3, <2>5 DEF BenchInv, OnceInv, GenerationInv, CorrectInv
  <2> HIDE DEF s, result
  <2>17. \A o \in Samples : HasRecord(o)' <=> HasRecord(o) \/ o = s
    <3> TAKE o \in Samples
    <3>1. o[1] \in Problems /\ o = <<o[1], o[2]>>
      BY DEF Samples
    <3>2. CASE o[1] # p
      <4>1. loaded'[o[1]] = results[o[1]]
        BY <3>1, <3>2, <2>3
      <4> QED BY <4>1, <3>2, <2>3, <2>5 DEF HasRecord
    <3>3. CASE o[1] = p
      <4>1. HasRecord(o)' <=> \E i \in 1..(n + 1) : loaded'[p][i].sample_id = o[2]
        BY <3>3, <2>3, <2>5 DEF HasRecord
      <4>2. HasRecord(o) <=> \E i \in 1..n : results[p][i].sample_id = o[2]
        BY <3>3, <2>3, <2>5 DEF HasRecord
      <4>3. loaded'[p][n + 1].sample_id = o[2] <=> o = s
        <5> HIDE DEF p
        <5> QED BY <3>1, <3>3, <2>4
      <4>4. n + 1 \in 1..(n + 1) /\ \A i \in 1..n : i \in 1..(n + 1)
        BY <2>3
      <4> QED BY <4>1, <4>2, <4>3, <4>4, <2>3, <2>10
    <3> QED BY <3>2, <3>3
  <2>18. RecordsInv'
    <3>1. ASSUME NEW q \in Problems, NEW i \in DOMAIN loaded'[q], NEW j \in DOMAIN loaded'[q],
                 loaded'[q][i].sample_id = loaded'[q][j].sample_id
          PROVE  i = j
      <4>1. CASE q # p
        BY <3>1, <4>1, <2>3, <2>5 DEF BenchInv, RecordsInv
      <4>2. CASE q = p
        <5>1. \A k, l \in 1..n : results[p][k].sample_id = results[p][l].sample_id => k = l
          BY <2>3, <2>5 DEF BenchInv, RecordsInv
        <5>2. \A k \in 1..n : results[p][k].sample_id # s[2]
          BY <2>3
        <5>3. i \in 1..(n + 1) /\ j \in 1..(n + 1)
          BY <4>2, <3>1, <2>4
        <5> HIDE DEF p
        <5> QED BY <5>1, <5>2, <5>3, <4>2, <3>1, <2>4, <2>10
      <4> QED BY <4>1, <4>2
    <3>2. ASSUME NEW q \in Problems, NEW i \in DOMAIN loaded'[q], loaded'[q][i].correctness
          PROVE  kernel'[<<q, loaded'[q][i].sample_id>>] = "whole"
      <4>1. CASE q # p
        <5>1. loaded'[q] = results[q] /\ Held = results /\ results # Torn /\ kernel' = kernel
          BY <4>1, <1>1, <2>3
        <5> QED BY <5>1, <3>2 DEF BenchInv, RecordsInv
      <4>2. CASE q = p /\ i \in 1..n
        <5>1. loaded'[q][i] = results[q][i] /\ i \in DOMAIN results[q]
          BY <4>2, <2>3
        <5> QED BY <5>1, <3>2, <1>1, <2>3, <2>5 DEF BenchInv, RecordsInv
      <4>3. CASE q = p /\ i = n + 1
        <5>1. loaded'[q][i] = record
          BY <4>3, <2>3
        <5>2. /\ loaded'[q][i].sample_id = s[2] /\ record.correctness = (result = "correct")
              /\ <<q, loaded'[q][i].sample_id>> = s
          BY <5>1, <4>3, <2>4
        <5>3. result = "correct"
          BY <5>1, <5>2, <3>2, Zenon
        <5>4. kernel[s] = "whole" /\ kernel' = kernel
          BY <5>3, <1>1, <2>3
        <5> QED BY <5>2, <5>4
      <4> QED BY <4>1, <4>2, <4>3, <3>2, <2>3, <2>10
    <3>3. \A o \in Waiting' : ~ HasRecord(o)'
      <4> TAKE o \in Waiting'
      <4>1. o \in Waiting /\ o # s
        BY <2>3
      <4>2. o \in Samples
        <5>1. work \in Seq(Samples)
          BY DEF BenchInv, TypeOK
        <5>2. Range(work) \subseteq Samples
          BY <5>1 DEF Range
        <5>3. \A i \in (saved + 2)..Len(batch) : batch[i] \in Samples
          BY <2>2
        <5> QED BY <5>2, <5>3, <2>1, <2>3 DEF Waiting
      <4> QED BY <4>1, <4>2, <2>3, <2>5, <2>17 DEF BenchInv, RecordsInv
    <3> QED BY <3>1, <3>2, <3>3, <2>3, <2>5 DEF RecordsInv
  <2>19. CoverInv'
    <3>1. \A o \in todo : o \in Waiting' \/ HasRecord(o)'
      <4> TAKE o \in todo
      <4>1. o \in Samples /\ (o \in Waiting \/ HasRecord(o))
        BY <2>3, <2>5 DEF BenchInv, TypeOK, CoverInv
      <4> QED BY <4>1, <2>3, <2>17
    <3>2. \A q \in Problems : loaded'[q] # <<>> \/ \E o \in todo : o[1] = q
      <4> TAKE q \in Problems
      <4>1. CASE q = p
        <5>1. Len(loaded'[p]) # 0
          BY <2>3
        <5> QED BY <4>1, <5>1
      <4>2. CASE q # p
        BY <4>2, <2>3, <2>5 DEF BenchInv, CoverInv
      <4> QED BY <4>1, <4>2
    <3>3. loaded' # Torn
      BY <2>3, BenchmarkAssumption DEF BenchmarkAssumption
    <3> QED BY <3>1, <3>2, <3>3, <1>1, <2>1, <2>3, <2>5 DEF CoverInv, FinishedIsRecorded
  <2> QED BY <2>11, <2>12, <2>13, <2>18, <2>19 DEF BenchInv
<1> QED BY <1>2, <1>3

(* So what the invariant says is true in every state. *)
LEMMA BenchInvHolds == Spec => []BenchInv
<1>1. BenchInv /\ [Next]_vars => BenchInv'
  <2> SUFFICES ASSUME BenchInv, [Next]_vars PROVE BenchInv'
    OBVIOUS
  <2>1. CASE Command
    BY <2>1, StartGenerationKeeps, QueryServerKeeps, EndGenerationKeeps, StartEvaluationKeeps,
       BeginBatchKeeps, BatchStepsKeep, CollectResultKeeps, AddResultKeeps, EndEvaluationKeeps DEF Command
  <2>2. CASE \E s \in Samples : Generate(s) \/ Evaluate(s)
    BY <2>2, GenerateKeeps, EvaluateKeeps
  <2>3. CASE Crash
    BY <2>3, CrashKeeps
  <2>4. CASE UNCHANGED vars
    <3>1. UNCHANGED <<kernel, results, loaded, pc, work, todo, batch, task, collected, saved, samplesEach, ended>>
      BY <2>4 DEF vars, files, batchVars
    <3>2. TypeOK' /\ BatchInv' /\ OnceInv' /\ GenerationInv' /\ CorrectInv'
      BY <3>1 DEF BenchInv, TypeOK, BatchInv, OnceInv, GenerationInv, CorrectInv, Evaluating
    <3>3. Held' = Held /\ Waiting' = Waiting /\ (Evaluating' <=> Evaluating)
      BY <3>1 DEF Held, Waiting, NextSaved, Evaluating
    <3>4. \A o : HasRecord(o)' <=> HasRecord(o)
      BY <3>3 DEF HasRecord
    <3>5. RecordsInv'
      BY <3>1, <3>3, <3>4 DEF BenchInv, RecordsInv
    <3>6. CoverInv'
      BY <3>1, <3>3, <3>4 DEF BenchInv, CoverInv, FinishedIsRecorded, RecordsOf
    <3> QED BY <3>2, <3>5, <3>6 DEF BenchInv
  <2> QED BY <2>1, <2>2, <2>3, <2>4 DEF Next
<1> QED BY <1>1, BenchInvInit, PTL DEF Spec

(* Files, records, batches and tasks keep their ranges over any number of commands. *)
THEOREM TypeCorrect == Spec => []TypeOK
<1>1. BenchInv => TypeOK
  BY DEF BenchInv
<1> QED BY <1>1, BenchInvHolds, PTL

(* No sample gets a second record, and one recorded as correct has its kernel file whole,
   wherever the commands before were killed. *)
THEOREM RecordsStayOwn == Spec => []RecordsAreOwn
<1>1. BenchInv => RecordsAreOwn
  <2> SUFFICES ASSUME BenchInv, results # Torn, NEW s \in Samples
               PROVE  /\ Cardinality(RecordsOf(s)) <= 1
                      /\ (\E i \in RecordsOf(s) : results[s[1]][i].correctness) => kernel[s] = "whole"
    BY DEF RecordsAreOwn
  <2>1. Held = results
    BY DEF BenchInv, BatchInv, Held
  <2>2. s[1] \in Problems /\ s = <<s[1], s[2]>>
    BY DEF Samples
  <2>3. \A i, j \in RecordsOf(s) : i = j
    BY <2>1, <2>2 DEF BenchInv, RecordsInv, RecordsOf
  <2>4. Cardinality(RecordsOf(s)) <= 1
    <3>1. CASE RecordsOf(s) = {}
      BY <3>1, FS_EmptySet
    <3>2. CASE RecordsOf(s) # {}
      <4>1. PICK i : RecordsOf(s) = {i}
        BY <3>2, <2>3
      <4>2. Cardinality({i}) = 1
        BY FS_Singleton
      <4> QED BY <4>1, <4>2
    <3> QED BY <3>1, <3>2
  <2>5. ASSUME NEW i \in RecordsOf(s), results[s[1]][i].correctness
        PROVE  kernel[s] = "whole"
    <3>1. i \in DOMAIN results[s[1]] /\ results[s[1]][i].sample_id = s[2]
      BY DEF RecordsOf
    <3> QED BY <3>1, <2>1, <2>2, <2>5 DEF BenchInv, RecordsInv
  <2> QED BY <2>4, <2>5
<1> QED BY <1>1, BenchInvHolds, PTL

(* An evaluation that ends by itself has recorded every sample it began with, and every
   problem, whatever its processes did. *)
THEOREM FinishedStaysRecorded == Spec => []FinishedIsRecorded
<1>1. BenchInv => FinishedIsRecorded
  BY DEF BenchInv, CoverInv
<1> QED BY <1>1, BenchInvHolds, PTL

-----------------------------------------------------------------------------
(* pass@k *)

(* Some number of a set of numbers is the least: an induction is the refutation of the
   least number that what is claimed fails for. *)
LEMMA LeastNumber ==
    ASSUME NEW T, T \subseteq Nat, T # {}
    PROVE  \E m \in T : \A x \in T : m <= x
<1>1. PICK t \in T : TRUE
  OBVIOUS
<1> DEFINE S == {x \in T : x <= t}
           NotAfter == [x \in S |-> {y \in S : y <= x}]
           place == [x \in S |-> Cardinality(NotAfter[x])]
<1>2. IsFiniteSet(S)
  <2>1. IsFiniteSet(0..t)
    BY <1>1, FS_Interval
  <2>2. \A x \in S : x \in 0..t
    OBVIOUS
  <2>3. S \in SUBSET (0..t)
    BY <2>2
  <2> QED BY <2>1, <2>3, FS_Subset
<1>3. t \in S
  BY <1>1
<1>4. /\ NotAfter \in [S -> SUBSET S]
      /\ \A i \in S : i \in NotAfter[i]
      /\ \A i, j \in S : i # j => (i \in NotAfter[j] <=> j \notin NotAfter[i])
      /\ \A i, j \in S : i \in NotAfter[j] => NotAfter[i] \subseteq NotAfter[j]
  <2>1. \A x \in S : x \in Nat
    OBVIOUS
  <2> HIDE DEF S
  <2>2. \A x, y \in S : y \in NotAfter[x] <=> y <= x
    OBVIOUS
  <2>3. NotAfter \in [S -> SUBSET S]
    OBVIOUS
  <2> HIDE DEF NotAfter
  <2> QED BY <2>1, <2>2, <2>3
<1>5. /\ \A i, j \in S : place[i] <= place[j] <=> i \in NotAfter[j]
      /\ \A k \in 1 .. Cardinality(S) : \E i \in S : place[i] = k
      /\ place \in [S -> 1 .. Cardinality(S)]
  <2> place = [x \in S |-> Cardinality(NotAfter[x])]
    OBVIOUS
  <2> HIDE DEF S, NotAfter, place
  <2> QED BY <1>2, <1>4, PlacesFill
<1>6. 1 \in 1 .. Cardinality(S)
  BY <1>2, <1>3, <1>5, FS_CardinalityType
<1>7. PICK m \in S : place[m] = 1
  BY <1>5, <1>6
<1>8. \A x \in S : m <= x
  <2> TAKE x \in S
  <2>1. place[x] \in Nat /\ place[x] >= 1
    <3> HIDE DEF place
    <3> QED BY <1>5, <1>2, FS_CardinalityType
  <2>2. m \in NotAfter[x]
    <3> HIDE DEF place, NotAfter
    <3> QED BY <1>5, <1>7, <2>1
  <2> QED BY <2>2
<1> QED BY <1>8, <1>1, <1>7

(* The recursion of Rising has a solution, and one only. *)
LEMMA RisingSteps ==
    ASSUME NEW start \in Nat
    PROVE  /\ Rising(start, 0) = 1
           /\ \A c \in Nat : Rising(start, c + 1) = (start + c + 1) * Rising(start, c)
           /\ \A c \in Nat : Rising(start, c) \in Nat
<1> DEFINE Body(p, j) == IF j = 0 THEN 1 ELSE (start + j) * p[j - 1]
           UpTo(p, n) == p = [j \in 0..n |-> Body(p, j)]
<1>1. \A n \in Nat : \E p : UpTo(p, n)
  <2> DEFINE Missing == {n \in Nat : ~ \E p : UpTo(p, n)}
  <2> SUFFICES ASSUME Missing # {} PROVE FALSE
    OBVIOUS
  <2>1. PICK n \in Missing : \A m \in Missing : n <= m
    <3>1. Missing \subseteq Nat
      OBVIOUS
    <3> HIDE DEF Missing
    <3> QED BY <3>1, LeastNumber
  <2>2. n \in Nat /\ ~ \E p : UpTo(p, n)
    OBVIOUS
  <2>3. n # 0
    <3>1. UpTo([j \in 0..0 |-> 1], 0)
      OBVIOUS
    <3> QED BY <3>1, <2>2
  <2>4. PICK p : UpTo(p, n - 1)
    <3>1. n - 1 \in Nat /\ ~ n <= n - 1
      BY <2>2, <2>3
    <3>2. n - 1 \notin Missing
      <4> HIDE DEF Missing
      <4> QED BY <2>1, <3>1
    <3> QED BY <3>1, <3>2
  <2> DEFINE q == [j \in 0..n |-> IF j = n THEN Body(p, n) ELSE p[j]]
  <2>5. UpTo(q, n)
    <3>1. ASSUME NEW j \in 0..n PROVE q[j] = Body(q, j)
      <4>1. CASE j = n
        BY <4>1, <2>2, <2>3
      <4>2. CASE j # n
        <5>1. j \in 0..(n - 1) /\ (j # 0 => j - 1 \in 0..(n - 1))
          BY <4>2, <2>2
        <5>2. p[j] = Body(p, j)
          BY <5>1, <2>4
        <5>3. q[j] = p[j] /\ (j # 0 => q[j - 1] = p[j - 1])
          BY <5>1, <4>2, <2>2
        <5> QED BY <5>2, <5>3
      <4> QED BY <4>1, <4>2
    <3>2. q = [j \in 0..n |-> q[j]]
      OBVIOUS
    <3> HIDE DEF q, Body
    <3> QED BY <3>1, <3>2
  <2> QED BY <2>2, <2>5
<1>2. ASSUME NEW n \in Nat, NEW p, NEW m \in Nat, NEW q, UpTo(p, n), UpTo(q, m), n <= m,
             NEW i \in 0..n
      PROVE  p[i] = q[i]
  <2> DEFINE Apart == {j \in 0..n : p[j] # q[j]}
  <2> SUFFICES ASSUME Apart # {} PROVE FALSE
    OBVIOUS
  <2>1. PICK j \in Apart : \A k \in Apart : j <= k
    <3>1. Apart \subseteq Nat
      OBVIOUS
    <3> HIDE DEF Apart
    <3> QED BY <3>1, LeastNumber
  <2>2. j \in 0..n /\ j \in 0..m /\ p[j] # q[j]
    BY <1>2
  <2>3. p[j] = Body(p, j) /\ q[j] = Body(q, j)
    BY <1>2, <2>2
  <2>4. j # 0 => p[j - 1] = q[j - 1]
    BY <2>1, <2>2
  <2> QED BY <2>2, <2>3, <2>4
<1> DEFINE Some(n) == CHOOSE p : UpTo(p, n)
           whole == [j \in Nat |-> Some(j)[j]]
<1>3. \A n \in Nat : UpTo(Some(n), n)
  <2> HIDE DEF UpTo
  <2> QED BY <1>1
<1>4. whole = [j \in Nat |-> Body(whole, j)]
  <2>1. ASSUME NEW j \in Nat PROVE whole[j] = Body(whole, j)
    <3>1. Some(j)[j] = Body(Some(j), j)
      <4>1. UpTo(Some(j), j)
        BY <1>3
      <4> HIDE DEF Some, Body
      <4> QED BY <4>1
    <3>2. CASE j # 0
      <4>1. j - 1 \in Nat /\ j - 1 \in 0..(j - 1) /\ j - 1 <= j
        BY <3>2
      <4>2. Some(j - 1)[j - 1] = Some(j)[j - 1]
        <5> HIDE DEF Some, UpTo
        <5> QED BY <4>1, <1>2, <1>3
      <4> HIDE DEF Some
      <4> QED BY <3>1, <4>1, <4>2
    <3>3. CASE j = 0
      <4> HIDE DEF Some
      <4> QED BY <3>1, <3>3
    <3> QED BY <3>2, <3>3
  <2>2. whole = [j \in Nat |-> whole[j]]
    OBVIOUS
  <2> HIDE DEF whole, Body
  <2> QED BY <2>1, <2>2
<1> DEFINE product[j \in Nat] == IF j = 0 THEN 1 ELSE (start + j) * product[j - 1]
<1>5. product = [j \in Nat |-> IF j = 0 THEN 1 ELSE (start + j) * product[j - 1]]
  <2>1. whole = [j \in Nat |-> IF j = 0 THEN 1 ELSE (start + j) * whole[j - 1]]
    <3> HIDE DEF whole
    <3> QED BY <1>4
  <2> HIDE DEF whole
  <2> QED BY <2>1 DEF product
<1>6. \A c : Rising(start, c) = product[c]
  BY DEF Rising
<1> HIDE DEF product
<1>7. product[0] = 1
  BY <1>5
<1>8. ASSUME NEW c \in Nat PROVE product[c + 1] = (start + c + 1) * product[c]
  <2>1. c + 1 \in Nat /\ c + 1 # 0 /\ c + 1 - 1 = c /\ start + (c + 1) = start + c + 1
    OBVIOUS
  <2> QED BY <2>1, <1>5
<1>9. \A c \in Nat : product[c] \in Nat
  <2> DEFINE Bad == {c \in Nat : product[c] \notin Nat}
  <2> SUFFICES ASSUME Bad # {} PROVE FALSE
    OBVIOUS
  <2>1. PICK c \in Bad : \A x \in Bad : c <= x
    <3>1. Bad \subseteq Nat
      OBVIOUS
    <3> HIDE DEF Bad
    <3> QED BY <3>1, LeastNumber
  <2>2. c # 0
    BY <1>7
  <2>3. c - 1 \in Nat /\ product[c - 1] \in Nat
    BY <2>1, <2>2
  <2>4. product[c] = (start + c) * product[c - 1]
    BY <1>5, <2>2
  <2> QED BY <2>1, <2>3, <2>4
<1> QED BY <1>6, <1>7, <1>8, <1>9

(* The draws of k of m samples. *)
Draws(m, k) == Cardinality(kSubset(k, 1..m))

(* Finitely many samples can be drawn. *)
LEMMA DrawsFinite ==
    ASSUME NEW m \in Nat, NEW k \in Nat
    PROVE  /\ IsFiniteSet(1..m) /\ Cardinality(1..m) = m
           /\ IsFiniteSet(kSubset(k, 1..m))
           /\ Draws(m, k) \in Nat
           /\ Draws(m, 0) = 1
           /\ k > m => Draws(m, k) = 0
<1>1. IsFiniteSet(1..m) /\ Cardinality(1..m) = m
  BY FS_Interval
<1>2. ASSUME NEW j \in Nat PROVE IsFiniteSet(kSubset(j, 1..m))
  <2>1. kSubset(j, 1..m) \in SUBSET (SUBSET (1..m))
    BY DEF kSubset
  <2> QED BY <1>1, <2>1, FS_SUBSET, FS_Subset
<1>3. kSubset(0, 1..m) = {{}}
  <2>1. \A s \in SUBSET (1..m) : Cardinality(s) = 0 <=> s = {}
    BY <1>1, FS_Subset, FS_EmptySet
  <2> QED BY <2>1 DEF kSubset
<1>4. k > m => kSubset(k, 1..m) = {}
  <2>1. \A s \in SUBSET (1..m) : Cardinality(s) <= m
    BY <1>1, FS_Subset
  <2>2. \A s \in SUBSET (1..m) : Cardinality(s) \in Nat
    BY <1>1, FS_Subset, FS_CardinalityType
  <2> QED BY <2>1, <2>2 DEF kSubset
<1> QED BY <1>1, <1>2, <1>3, <1>4, FS_CardinalityType, FS_Singleton, FS_EmptySet DEF Draws

(* A draw of k + 1 leaves the last sample out, or has it and k of the others. *)
LEMMA DrawsPascal ==
    ASSUME NEW m \in Nat, NEW k \in Nat
    PROVE  Draws(m + 1, k + 1) = Draws(m, k + 1) + Draws(m, k)
<1> DEFINE last == m + 1
           smaller == kSubset(k, 1..m)
           without == kSubset(k + 1, 1..m)
           with == {s \cup {last} : s \in smaller}
           add == [s \in smaller |-> s \cup {last}]
<1>1. /\ IsFiniteSet(1..m) /\ IsFiniteSet(1..last) /\ last \notin 1..m
      /\ 1..last = (1..m) \cup {last}
  <2>1. last \in Nat /\ last \notin 1..m /\ 1..last = (1..m) \cup {last}
    OBVIOUS
  <2> QED BY <2>1, DrawsFinite
<1>2. IsFiniteSet(smaller) /\ IsFiniteSet(without)
  BY DrawsFinite
<1>3. IsFiniteSet(with) /\ Cardinality(with) = Cardinality(smaller)
  <2>1. add \in Bijection(smaller, with)
    <3>1. \A s \in smaller : last \notin s
      BY <1>1 DEF kSubset
    <3>2. \A s, t \in smaller : add[s] = add[t] => s = t
      <4> SUFFICES ASSUME NEW s \in smaller, NEW t \in smaller, s \cup {last} = t \cup {last}
                   PROVE  s = t
        OBVIOUS
      <4>1. s = (s \cup {last}) \ {last} /\ t = (t \cup {last}) \ {last}
        <5> HIDE DEF last, smaller
        <5> QED BY <3>1
      <4> QED BY <4>1
    <3>3. add \in [smaller -> with] /\ \A x \in with : \E s \in smaller : add[s] = x
      OBVIOUS
    <3> HIDE DEF add, with, smaller
    <3> QED BY <3>2, <3>3 DEF Bijection, Injection, Surjection, IsInjective
  <2> HIDE DEF add, with, smaller
  <2> QED BY <2>1, <1>2, FS_Bijection DEF ExistsBijection
<1>4. kSubset(k + 1, 1..last) = without \cup with
  <2>1. ASSUME NEW s \in kSubset(k + 1, 1..last), last \in s PROVE s \in with
    <3> DEFINE t == s \ {last}
    <3>1. s \in SUBSET (1..last) /\ Cardinality(s) = k + 1
      BY DEF kSubset
    <3>2. IsFiniteSet(s)
      BY <3>1, <1>1, FS_Subset
    <3>3. Cardinality(t) = k
      <4>1. Cardinality(t) = Cardinality(s) - 1
        BY <3>2, <2>1, FS_RemoveElement
      <4> HIDE DEF t
      <4> QED BY <4>1, <3>1
    <3>4. t \in SUBSET (1..m) /\ s = t \cup {last}
      BY <3>1, <1>1, <2>1
    <3>5. t \in smaller
      BY <3>3, <3>4 DEF kSubset
    <3> HIDE DEF t
    <3> QED BY <3>4, <3>5
  <2>2. ASSUME NEW s \in kSubset(k + 1, 1..last), last \notin s PROVE s \in without
    BY <1>1, <2>2 DEF kSubset
  <2>3. without \subseteq kSubset(k + 1, 1..last)
    BY <1>1 DEF kSubset
  <2>4. ASSUME NEW s \in smaller PROVE s \cup {last} \in kSubset(k + 1, 1..last)
    <3>1. s \in SUBSET (1..m) /\ Cardinality(s) = k
      BY DEF kSubset
    <3>2. IsFiniteSet(s) /\ last \notin s
      BY <3>1, <1>1, FS_Subset
    <3>3. Cardinality(s \cup {last}) = k + 1
      BY <3>1, <3>2, FS_AddElement
    <3> QED BY <3>1, <3>3, <1>1 DEF kSubset
  <2> QED BY <2>1, <2>2, <2>3, <2>4
<1>5. without \cap with = {}
  BY <1>1 DEF kSubset
<1>6. Cardinality(without \cup with) = Cardinality(without) + Cardinality(with)
  <2>1. Cardinality(without \cap with) = 0
    BY <1>5, FS_EmptySet
  <2>2. Cardinality(without) \in Nat /\ Cardinality(with) \in Nat
    BY <1>2, <1>3, FS_CardinalityType
  <2> HIDE DEF without, with
  <2>3. Cardinality(without \cup with)
            = Cardinality(without) + Cardinality(with) - Cardinality(without \cap with)
    BY <1>2, <1>3, FS_Union
  <2> QED BY <2>1, <2>2, <2>3
<1> HIDE DEF with
<1> QED BY <1>3, <1>4, <1>6 DEF Draws

(* k of one more than m samples: which fraction of the draws leaves one sample out, and
   how the numbers of draws of k and of k + 1 compare. *)
LEMMA DrawsCompare ==
    \A m \in Nat : \A k \in Nat :
        /\ (m - k) * Draws(m, k) = (k + 1) * Draws(m, k + 1)
        /\ (m + 1) * Draws(m, k) = (m + 1 - k) * Draws(m + 1, k)
<1> DEFINE Holds(m) == \A k \in Nat : (m - k) * Draws(m, k) = (k + 1) * Draws(m, k + 1)
           Fewer(m) == \A k \in Nat : (m + 1) * Draws(m, k) = (m + 1 - k) * Draws(m + 1, k)
<1>1. Holds(0)
  <2> TAKE k \in Nat
  <2>1. Draws(0, k + 1) = 0
    BY DrawsFinite
  <2>2. CASE k = 0
    BY <2>1, <2>2, DrawsFinite
  <2>3. CASE k > 0
    BY <2>1, <2>3, DrawsFinite
  <2> QED BY <2>2, <2>3
<1>2. ASSUME NEW m \in Nat, Holds(m) PROVE Fewer(m)
  <2> TAKE k \in Nat
  <2>1. CASE k = 0
    BY <2>1, DrawsFinite
  <2>2. CASE k > 0
    <3>1. PICK j \in Nat : k = j + 1
      <4>1. k - 1 \in Nat /\ k = (k - 1) + 1
        BY <2>2
      <4> QED BY <4>1
    <3> DEFINE a == Draws(m, j)
               b == Draws(m, k)
    <3>2. a \in Nat /\ b \in Nat
      BY <3>1, DrawsFinite
    <3>3. (m - j) * a = k * b
      BY <1>2, <3>1
    <3>4. Draws(m + 1, k) = b + a
      BY <3>1, DrawsPascal
    <3> HIDE DEF a, b
    <3>5. m + 1 - k = m - j
      BY <3>1
    <3>6. (m - j) * (b + a) = (m - j) * b + k * b
      BY <3>2, <3>3
    <3>7. (m - j) * b + k * b = (m + 1) * b
      <4>1. (m - j) + k = m + 1
        BY <3>1
      <4>2. \A x, y, z \in Int : x * z + y * z = (x + y) * z
        OBVIOUS
      <4>3. m - j \in Int /\ k \in Int /\ b \in Int
        BY <3>2
      <4> QED BY <4>1, <4>2, <4>3
    <3>8. (m + 1) * b = (m + 1 - k) * Draws(m + 1, k)
      BY <3>4, <3>5, <3>6, <3>7
    <3> QED BY <3>8 DEF b
  <2> QED BY <2>1, <2>2
<1>3. ASSUME NEW m \in Nat, Holds(m) PROVE Holds(m + 1)
  <2> TAKE k \in Nat
  <2> DEFINE a == Draws(m, k)
             b == Draws(m, k + 1)
  <2>1. a \in Nat /\ b \in Nat
    <3>1. k + 1 \in Nat
      OBVIOUS
    <3> QED BY <3>1, DrawsFinite
  <2>2. (m - k) * a = (k + 1) * b
    BY <1>3
  <2>3. (m + 1) * a = (m + 1 - k) * Draws(m + 1, k)
    BY <1>2, <1>3
  <2>4. Draws(m + 1, k + 1) = b + a
    BY DrawsPascal
  <2> HIDE DEF a, b
  <2>5. (k + 1) * (b + a) = (m - k) * a + (k + 1) * a
    BY <2>1, <2>2
  <2>6. (m - k) * a + (k + 1) * a = (m + 1) * a
    <3>1. \A x, y, z \in Int : x * z + y * z = (x + y) * z
      OBVIOUS
    <3>2. m - k \in Int /\ k + 1 \in Int /\ a \in Int /\ (m - k) + (k + 1) = m + 1
      BY <2>1
    <3> QED BY <3>1, <3>2
  <2> QED BY <2>3, <2>4, <2>5, <2>6
<1>4. ASSUME NEW m \in Nat PROVE Holds(m)
  <2> DEFINE Bad == {x \in Nat : ~ Holds(x)}
  <2> SUFFICES ASSUME Bad # {} PROVE FALSE
    OBVIOUS
  <2>1. PICK x \in Bad : \A y \in Bad : x <= y
    <3>1. Bad \subseteq Nat
      OBVIOUS
    <3> HIDE DEF Bad
    <3> QED BY <3>1, LeastNumber
  <2> HIDE DEF Holds
  <2>2. x \in Nat /\ ~ Holds(x)
    OBVIOUS
  <2>3. x # 0
    BY <1>1, <2>2
  <2>4. PICK y \in Nat : x = y + 1
    <3>1. x - 1 \in Nat /\ x = (x - 1) + 1
      BY <2>2, <2>3
    <3> QED BY <3>1
  <2>5. Holds(y)
    <3>1. y \notin Bad
      <4> HIDE DEF Bad
      <4> QED BY <2>1, <2>4
    <3> QED BY <3>1
  <2> QED BY <2>2, <2>4, <2>5, <1>3
<1> QED BY <1>2, <1>4

(* The product of calc_pass_at_k is the share of the draws that have no correct sample. *)
LEMMA ProductIsShare ==
    ASSUME NEW wrong \in Nat, NEW k \in Nat, k <= wrong
    PROVE  \A c \in Nat :
               Rising(wrong - k, c) * Draws(wrong + c, k) = Draws(wrong, k) * Rising(wrong, c)
<1> DEFINE Holds(c) ==
        Rising(wrong - k, c) * Draws(wrong + c, k) = Draws(wrong, k) * Rising(wrong, c)
<1>0. wrong - k \in Nat
  OBVIOUS
<1>1. Holds(0)
  BY <1>0, RisingSteps, DrawsFinite
<1>2. ASSUME NEW c \in Nat, Holds(c) PROVE Holds(c + 1)
  <2> DEFINE num == Rising(wrong - k, c)
             den == Rising(wrong, c)
             fewer == Draws(wrong + c, k)
             more == Draws(wrong + c + 1, k)
             none == Draws(wrong, k)
             i == wrong + c + 1
  <2>1. num \in Nat /\ den \in Nat /\ fewer \in Nat /\ more \in Nat /\ none \in Nat
    <3>1. wrong + c \in Nat /\ wrong + c + 1 \in Nat
      OBVIOUS
    <3> QED BY <3>1, <1>0, RisingSteps, DrawsFinite
  <2>2. i * fewer = (i - k) * more
    <3>1. wrong + c \in Nat
      OBVIOUS
    <3> QED BY <3>1, DrawsCompare
  <2>3. Rising(wrong - k, c + 1) = (i - k) * num
    <3>1. wrong - k + c + 1 = i - k
      OBVIOUS
    <3> QED BY <3>1, <1>0, RisingSteps
  <2>4. Rising(wrong, c + 1) = i * den
    BY RisingSteps
  <2>5. num * fewer = none * den
    BY <1>2
  <2>6. i \in Int /\ i - k \in Int /\ wrong + (c + 1) = wrong + c + 1
    OBVIOUS
  <2> HIDE DEF num, den, fewer, more, none, i
  <2>7. ((i - k) * num) * more = num * ((i - k) * more)
    BY <2>1, <2>6
  <2>8. num * (i * fewer) = i * (num * fewer)
    BY <2>1, <2>6
  <2>9. i * (none * den) = none * (i * den)
    BY <2>1, <2>6
  <2>10. Rising(wrong - k, c + 1) * more = none * Rising(wrong, c + 1)
    BY <2>2, <2>3, <2>4, <2>5, <2>7, <2>8, <2>9
  <2> QED BY <2>6, <2>10 DEF more, none
<1>3. ASSUME NEW c \in Nat PROVE Holds(c)
  <2> DEFINE Bad == {x \in Nat : ~ Holds(x)}
  <2> SUFFICES ASSUME Bad # {} PROVE FALSE
    OBVIOUS
  <2>1. PICK x \in Bad : \A y \in Bad : x <= y
    <3>1. Bad \subseteq Nat
      OBVIOUS
    <3> HIDE DEF Bad
    <3> QED BY <3>1, LeastNumber
  <2> HIDE DEF Holds
  <2>2. x \in Nat /\ ~ Holds(x)
    OBVIOUS
  <2>3. x # 0
    BY <1>1, <2>2
  <2>4. PICK y \in Nat : x = y + 1
    <3>1. x - 1 \in Nat /\ x = (x - 1) + 1
      BY <2>2, <2>3
    <3> QED BY <3>1
  <2>5. Holds(y)
    <3>1. y \notin Bad
      <4> HIDE DEF Bad
      <4> QED BY <2>1, <2>4
    <3> QED BY <3>1
  <2> QED BY <2>2, <2>4, <2>5, <1>2
<1> QED BY <1>3

(* pass@k is the chance of a correct sample among k drawn, for any numbers. *)
THEOREM PassAtIsShare ==
    ASSUME NEW n \in Nat, NEW c \in 0..n, NEW k \in Nat, k <= n
    PROVE  IsShareOfSubsets(PassAt(n, c, k), n, c, k)
<1> DEFINE draws == kSubset(k, 1..n)
           hits == {d \in draws : d \cap ((n - c + 1)..n) # {}}
           misses == kSubset(k, 1..(n - c))
           pass == PassAt(n, c, k)
<1>0. n - c \in Nat /\ c \in Nat
  OBVIOUS
<1>1. /\ IsFiniteSet(draws) /\ IsFiniteSet(misses)
      /\ Cardinality(draws) = Draws(n, k) /\ Cardinality(misses) = Draws(n - c, k)
      /\ Draws(n, k) \in Nat /\ Draws(n - c, k) \in Nat
  BY <1>0, DrawsFinite DEF Draws
<1>2. misses = draws \ hits
  <2>1. 1..(n - c) \subseteq 1..n /\ 1..n = (1..(n - c)) \cup ((n - c + 1)..n)
        /\ (1..(n - c)) \cap ((n - c + 1)..n) = {}
    BY <1>0
  <2> QED BY <2>1 DEF kSubset
<1>3. Cardinality(hits) = Draws(n, k) - Draws(n - c, k)
  <2>1. hits = draws \ misses /\ draws \cap misses = misses
    BY <1>2
  <2> HIDE DEF draws, hits, misses
  <2>2. Cardinality(draws \ misses) = Cardinality(draws) - Cardinality(draws \cap misses)
    BY <1>1, FS_Difference
  <2> QED BY <1>1, <2>1, <2>2
<1>4. pass[1] * Draws(n, k) = (Draws(n, k) - Draws(n - c, k)) * pass[2]
  <2>1. CASE n - c < k
    <3>1. Draws(n - c, k) = 0
      BY <2>1, <1>0, DrawsFinite
    <3>2. pass = <<1, 1>>
      BY <2>1 DEF PassAt
    <3> QED BY <3>1, <3>2, <1>1
  <2>2. CASE ~ n - c < k
    <3> DEFINE num == Rising(n - c - k, c)
               den == Rising(n - c, c)
    <3>1. pass = <<den - num, den>>
      BY <2>2 DEF PassAt
    <3>2. num * Draws(n, k) = Draws(n - c, k) * den
      <4>1. k <= n - c /\ (n - c) + c = n
        BY <2>2, <1>0
      <4> QED BY <4>1, <1>0, ProductIsShare
    <3>3. num \in Int /\ den \in Int
      <4>1. n - c - k \in Nat
        BY <2>2, <1>0
      <4> QED BY <4>1, <1>0, RisingSteps
    <3> HIDE DEF num, den, pass
    <3>4. \A x, y, a, b \in Int : y * a = b * x => (x - y) * a = (a - b) * x
      <4> SUFFICES ASSUME NEW x \in Int, NEW y \in Int, NEW a \in Int, NEW b \in Int,
                          y * a = b * x
                   PROVE  (x - y) * a = (a - b) * x
        OBVIOUS
      <4>1. (x - y) * a = x * a - y * a
        OBVIOUS
      <4>2. (a - b) * x = a * x - b * x
        OBVIOUS
      <4> QED BY <4>1, <4>2
    <3>5. pass[1] = den - num /\ pass[2] = den
      BY <3>1
    <3>6. Draws(n, k) \in Int /\ Draws(n - c, k) \in Int
      BY <1>1
    <3> QED BY <3>2, <3>3, <3>4, <3>5, <3>6
  <2> QED BY <2>1, <2>2
<1>5. Cardinality(draws) = Draws(n, k)
  BY <1>1
<1> HIDE DEF pass, draws, hits
<1>6. pass[1] * Cardinality(draws) = Cardinality(hits) * pass[2]
  BY <1>3, <1>4, <1>5
<1> QED BY <1>6 DEF IsShareOfSubsets, pass, draws, hits

(* The values of pass@k of the records. *)
Values == UNION {PassAtKOf(p) : p \in {q \in Problems : results[q] # <<>>}}

(* The values in pass_at_k_results.json are those of the records: a directory that has
   values has a record of every problem, so that no command records anything more. *)
PassInv ==
    passAtK # {} =>
        /\ results # Torn
        /\ \A p \in Problems : results[p] # <<>>
        /\ passAtK = Values
        /\ Evaluating => pc = "batches" /\ work = <<>>

(* They are the same as long as the records are. *)
LEMMA SameValues == ASSUME UNCHANGED results PROVE UNCHANGED Values
  BY DEF Values, PassAtKOf

(* The values an evaluation writes are of the records it has left. *)
LEMMA EndEvaluationWrites == ASSUME BenchInv, PassInv, EndEvaluation PROVE PassInv'
<1>1. /\ pc = "batches" /\ work = <<>> /\ pc' = "idle" /\ UNCHANGED results
      /\ CalculatePassAtK \/ UNCHANGED passAtK
  BY DEF EndEvaluation, EndCommand
<1>2. results # Torn /\ \A p \in Problems : results[p] # <<>>
  BY <1>1, EndEvaluationRecords
<1>3. passAtK' # {} => passAtK' = Values
  BY <1>1 DEF PassInv, CalculatePassAtK, Values
<1>4. UNCHANGED Values
  BY <1>1, SameValues
<1> QED BY <1>1, <1>2, <1>3, <1>4 DEF PassInv, Evaluating

(* An evaluation that finds values has nothing to do. *)
LEMMA StartEvaluationFindsNothing == ASSUME BenchInv, PassInv, StartEvaluation PROVE PassInv'
<1> SUFFICES ASSUME passAtK' # {} PROVE PassInv'
  BY DEF PassInv
<1>1. UNCHANGED <<results, passAtK>> /\ passAtK # {} /\ results # Torn
  BY DEF StartEvaluation, files, PassInv
<1>2. /\ pc' = "batches" /\ work' = SampleList(todo')
      /\ todo' = {s \in Samples : s[2] < samplesEach' /\ Unevaluated(s)}
  BY <1>1 DEF StartEvaluation
<1>3. \A s \in Samples : ~ Unevaluated(s)
  BY <1>1 DEF PassInv, Unevaluated, Samples
<1>4. todo' = {}
  BY <1>2, <1>3
<1>5. work' = <<>>
  <2> DEFINE list == work'
  <2>1. list \in Seq(Samples) /\ Range(list) = {}
    BY <1>2, <1>4, SampleListHasAll
  <2> HIDE DEF list
  <2>2. \A i \in DOMAIN list : FALSE
    BY <2>1 DEF Range
  <2>3. Len(list) \in Nat /\ DOMAIN list = 1..Len(list)
    BY <2>1
  <2>4. Len(list) = 0
    <3>1. Len(list) # 0 => 1 \in DOMAIN list
      BY <2>3
    <3> QED BY <3>1, <2>2
  <2>5. list = <<>>
    BY <2>1, <2>4, EmptySeq
  <2> QED BY <2>5 DEF list
<1> QED BY <1>1, <1>2, <1>5, SameValues DEF PassInv

(* The other steps write neither values nor, where there are any, records. *)
LEMMA PassInvHolds == Spec => []PassInv
<1>1. Init => PassInv
  BY DEF Init, PassInv
<1>2. BenchInv /\ PassInv /\ [Next]_vars => PassInv'
  <2> SUFFICES ASSUME BenchInv, PassInv, [Next]_vars PROVE PassInv'
    OBVIOUS
  <2>1. ASSUME UNCHANGED passAtK,
               passAtK # {} => UNCHANGED results /\ pc' \in {"idle", "generating"}
        PROVE  PassInv'
    BY <2>1, SameValues DEF PassInv, Evaluating
  <2>2. passAtK # {} => pc \notin {"collecting", "recording", "filling"}
    BY DEF PassInv, Evaluating
  <2>3. CASE StartGeneration \/ QueryServer \/ EndGeneration
    BY <2>1, <2>3 DEF StartGeneration, QueryServer, EndGeneration, EndCommand, files
  <2>4. CASE BeginBatch
    <3>1. UNCHANGED <<results, passAtK>> /\ pc = "batches" /\ work # <<>>
      BY <2>4 DEF BeginBatch, files
    <3> QED BY <3>1 DEF PassInv, Evaluating
  <2>5. CASE OutOfTime \/ CollectResult \/ AddResult \/ FillResults \/ EndBatch
    BY <2>1, <2>2, <2>5 DEF OutOfTime, CollectResult, AddResult, FillResults, EndBatch, files
  <2>6. CASE \E s \in Samples : Generate(s)
    <3>1. PICK s \in Samples : Generate(s)
      BY <2>6
    <3>2. task[s] \in {"asking", "writing"} /\ UNCHANGED <<results, passAtK, pc>>
      BY <3>1 DEF Generate, OpenKernel, FillKernel
    <3>3. pc = "generating"
      BY <3>2 DEF BenchInv, TypeOK, GenerationInv, CorrectInv, Evaluating, Idle
    <3> QED BY <3>2, <3>3, <2>1
  <2>7. CASE \E s \in Samples : Evaluate(s)
    BY <2>1, <2>2, <2>7 DEF Evaluate
  <2>8. CASE Crash
    BY <2>1, <2>8 DEF Crash, EndCommand, files
  <2>9. CASE UNCHANGED vars
    BY <2>9, SameValues DEF vars, files, PassInv, Evaluating
  <2> QED BY <2>3, <2>4, <2>5, <2>6, <2>7, <2>8, <2>9, EndEvaluationWrites,
             StartEvaluationFindsNothing DEF Next, Command
<1> QED BY <1>1, <1>2, BenchInvHolds, PTL DEF Spec

(* Every value of pass@k that is written is the chance that k different samples, drawn
   from the recorded ones, have a correct one among them. *)
THEOREM PassAtKStaysUnbiased == Spec => []PassAtKIsUnbiased
<1>1. BenchInv /\ PassInv => PassAtKIsUnbiased
  <2> SUFFICES ASSUME BenchInv, PassInv PROVE PassAtKIsUnbiased
    OBVIOUS
  <2>1. ASSUME NEW v \in passAtK
        PROVE  IsShareOfSubsets(v.pass, Len(results[v.problem]),
                                Cardinality(Correct(results[v.problem])), v.k)
    <3> DEFINE n == Len(results[v.problem])
               c == Cardinality(Correct(results[v.problem]))
    <3>1. /\ results \in [Problems -> Seq(Record)] /\ v.problem \in Problems
          /\ v.k \in 0..n /\ v.pass = PassAt(n, c, v.k)
      <4>1. results # Torn /\ passAtK = Values
        BY DEF PassInv
      <4>2. results \in [Problems -> Seq(Record)]
        BY <4>1 DEF BenchInv, TypeOK
      <4>3. PICK p \in Problems : v \in PassAtKOf(p)
        BY <4>1 DEF Values
      <4> DEFINE l == Len(results[p])
      <4>4. PICK k \in PassAtKValues :
                v = [problem |-> p, k |-> Min({k, l}),
                     pass |-> PassAt(l, Cardinality(Correct(results[p])), Min({k, l}))]
        BY <4>3 DEF PassAtKOf
      <4>5. k \in Nat /\ l \in Nat
        BY <4>2, BenchmarkAssumption DEF BenchmarkAssumption
      <4>6. Min({k, l}) \in 0..l
        <5>1. \E x \in {k, l} : \A y \in {k, l} : x <= y
          BY <4>5
        <5>2. Min({k, l}) \in {k, l} /\ \A y \in {k, l} : Min({k, l}) <= y
          BY <5>1 DEF Min
        <5> QED BY <5>2, <4>5
      <4> QED BY <4>2, <4>4, <4>6
    <3>2. n \in Nat /\ DOMAIN results[v.problem] = 1..n
      <4>1. results[v.problem] \in Seq(Record)
        BY <3>1
      <4> QED BY <4>1
    <3>3. c \in 0..n
      <4>1. Correct(results[v.problem]) \in SUBSET (1..n)
        BY <3>2 DEF Correct
      <4>2. IsFiniteSet(1..n) /\ Cardinality(1..n) = n
        BY <3>2, DrawsFinite
      <4>3. c \in Nat /\ c <= n
        <5> HIDE DEF n
        <5> QED BY <4>1, <4>2, FS_Subset, FS_CardinalityType
      <4> QED BY <4>3, <3>2
    <3>4. v.k \in Nat /\ v.k <= n
      BY <3>1, <3>2
    <3> HIDE DEF n, c
    <3>5. IsShareOfSubsets(PassAt(n, c, v.k), n, c, v.k)
      BY <3>2, <3>3, <3>4, PassAtIsShare
    <3> QED BY <3>1, <3>5 DEF n, c
  <2>2. SmallSamplesAreUnbiased
    <3> SUFFICES ASSUME NEW n \in 1..6, NEW c \in 0..n, NEW k \in 1..n
                 PROVE  IsShareOfSubsets(PassAt(n, c, k), n, c, k)
      BY DEF SmallSamplesAreUnbiased
    <3>1. n \in Nat /\ k \in Nat /\ k <= n
      OBVIOUS
    <3> QED BY <3>1, PassAtIsShare
  <2> QED BY <2>1, <2>2 DEF PassAtKIsUnbiased
<1> QED BY <1>1, BenchInvHolds, PassInvHolds, PTL

-----------------------------------------------------------------------------
(* The directory as a table of results. *)

(* Steps that write no kernel, no record and no score leave the table alone. *)
LEMMA SameTable ==
    ASSUME UNCHANGED <<kernel, passAtK>>, Held' = Held
    PROVE  UNCHANGED Table!tableVars
<1>1. UNCHANGED [s \in Samples |-> Outcome(s)]
  BY DEF Outcome
<1> QED BY <1>1 DEF Table!tableVars

(* A sample has an outcome if it has a record. *)
LEMMA OutcomeIsOfRecord ==
    ASSUME NEW s \in Samples, Held # Torn
    PROVE  Outcome(s) # "none" <=> HasRecord(s)
  BY DEF Outcome, HasRecord

(* A generation adds kernels and does nothing else to the table. *)
LEMMA GenerateFillsTable ==
    ASSUME BenchInv, NEW s \in Samples, Generate(s)
    PROVE  [Table!Next]_(Table!tableVars)
<1> DEFINE whole == {o \in Samples : kernel[o] = "whole"}
<1>1. /\ task[s] \in {"asking", "writing"}
      /\ UNCHANGED <<results, loaded, pc, passAtK>>
  BY DEF Generate, OpenKernel, FillKernel, batchVars
<1>2. pc = "generating"
  BY <1>1 DEF BenchInv, TypeOK, GenerationInv, CorrectInv, Evaluating, Idle
<1>3. kernel[s] # "whole" /\ kernel \in [Samples -> {"absent", "torn", "whole"}]
  BY <1>1, <1>2 DEF BenchInv, GenerationInv, TypeOK
<1>4. UNCHANGED [o \in Samples |-> Outcome(o)] /\ (Held' = Torn <=> Held = Torn)
  BY <1>1 DEF Held, Outcome
<1>5. CASE FillKernel(s)
  <2>1. whole' = whole \cup {s} /\ s \notin whole
    BY <1>3, <1>5 DEF FillKernel
  <2> HIDE DEF whole
  <2> QED BY <2>1, <1>1, <1>4 DEF Table!Next, Table!Generate, whole
<1>6. CASE OpenKernel(s)
  <2>1. whole' = whole
    BY <1>3, <1>6 DEF OpenKernel
  <2> QED BY <2>1, <1>1, <1>4 DEF Table!tableVars
<1> QED BY <1>5, <1>6 DEF Generate

(* A record that is added is the first outcome of its sample. *)
LEMMA AddResultEnters ==
    ASSUME BenchInv, PassInv, AddResult
    PROVE  [Table!Next]_(Table!tableVars)
<1> DEFINE s == batch[saved + 1]
           result == collected[saved + 1]
           p == s[1]
           record == [sample_id |-> s[2], correctness |-> result = "correct"]
           n == Len(results[p])
<1>1. pc = "recording" /\ UNCHANGED <<kernel, passAtK>>
  BY DEF AddResult
<1>2. CASE result = "none"
  <2>1. pc' = "idle" /\ UNCHANGED results
    BY <1>2 DEF AddResult, EndCommand
  <2>2. Held' = Held
    BY <1>1, <2>1 DEF Held
  <2> QED BY <1>1, <2>2, SameTable
<1>3. CASE result # "none"
  <2>1. /\ s \in Samples /\ p \in Problems /\ s = <<p, s[2]>>
        /\ result \in {"correct", "failed"} /\ (result = "correct" => kernel[s] = "whole")
        /\ Held = results /\ Held' = loaded' /\ results # Torn /\ loaded' # Torn
        /\ \A q \in Problems : q # p => loaded'[q] = results[q]
        /\ n \in Nat /\ DOMAIN results[p] = 1..n /\ DOMAIN loaded'[p] = 1..(n + 1)
        /\ loaded'[p][n + 1] = record
        /\ \A i \in 1..n : loaded'[p][i] = results[p][i]
        /\ \A i \in 1..n : results[p][i].sample_id # s[2]
    BY <1>3, AddResultAddsRecord
  <2>2. /\ loaded'[p][n + 1].sample_id = s[2]
        /\ loaded'[p][n + 1].correctness <=> result = "correct"
    <3>1. loaded'[p][n + 1] = record
      BY <2>1
    <3>2. record.sample_id = s[2] /\ record.correctness = (result = "correct")
      OBVIOUS
    <3> HIDE DEF record, s, p, n, result
    <3>3. loaded'[p][n + 1].sample_id = s[2]
      BY <3>1, <3>2
    <3>4. loaded'[p][n + 1].correctness = (result = "correct")
      BY <3>1, <3>2, Zenon
    <3> QED BY <3>3, <3>4, Zenon
  <2>3. passAtK = {}
    BY <1>1 DEF PassInv, Evaluating
  <2> HIDE DEF n, result, s, p, record
  <2>4. \A i \in 1..(n + 1) : i \in 1..n \/ i = n + 1
    BY <2>1
  <2>5. n + 1 \in 1..(n + 1) /\ \A i \in 1..n : i \in 1..(n + 1)
    BY <2>1
  <2>6. Outcome(s) = "none"
    BY <2>1 DEF Outcome, p
  <2>7. ASSUME NEW o \in Samples, o = s PROVE Outcome(o)' = result
    <3>1. o[1] = p /\ o[2] = s[2]
      BY <2>7, <2>1 DEF p
    <3>2. CASE result = "correct"
      BY <3>1, <3>2, <2>1, <2>2, <2>5 DEF Outcome
    <3>3. CASE result = "failed"
      <4>1. \A i \in DOMAIN loaded'[p] :
                ~ (loaded'[p][i].sample_id = s[2] /\ loaded'[p][i].correctness)
        BY <3>3, <2>1, <2>2, <2>4
      <4> QED BY <4>1, <3>1, <3>3, <2>1, <2>2, <2>5 DEF Outcome
    <3> QED BY <3>2, <3>3, <2>1
  <2>8. ASSUME NEW o \in Samples, o # s PROVE Outcome(o)' = Outcome(o)
    <3>1. o[1] \in Problems /\ o = <<o[1], o[2]>>
      BY DEF Samples
    <3>2. CASE o[1] # p
      <4>1. loaded'[o[1]] = results[o[1]]
        BY <3>1, <3>2, <2>1
      <4> QED BY <4>1, <2>1 DEF Outcome
    <3>3. CASE o[1] = p
      <4>1. o[2] # s[2]
        BY <3>1, <3>3, <2>8, <2>1
      <4>2. \A i \in DOMAIN loaded'[p] :
                loaded'[p][i].sample_id = o[2] =>
                    i \in 1..n /\ loaded'[p][i] = results[p][i]
        BY <4>1, <2>1, <2>2, <2>4
      <4>3. \A i \in 1..n : i \in DOMAIN loaded'[p] /\ loaded'[p][i] = results[p][i]
        BY <2>1, <2>5
      <4> QED BY <4>2, <4>3, <3>3, <2>1 DEF Outcome
    <3> QED BY <3>2, <3>3
  <2>9. [o \in Samples |-> Outcome(o)]' = [[o \in Samples |-> Outcome(o)] EXCEPT ![s] = result]
    <3>1. \A o \in Samples : Outcome(o)' = IF o = s THEN result ELSE Outcome(o)
      BY <2>7, <2>8
    <3> QED BY <3>1, <2>1
  <2>10. (Held = Torn)' = (Held = Torn) /\ Held # Torn
    BY <2>1
  <2>11. Table!Enter(s, result)
    BY <1>1, <2>1, <2>3, <2>6, <2>9, <2>10 DEF Table!Enter, Table!Open
  <2>12. Table!Enter(s, "failed") \/ Table!Enter(s, "correct")
    BY <2>1, <2>11
  <2> QED BY <2>1, <2>12 DEF Table!Next
<1> QED BY <1>2, <1>3

(* A command that dies while it writes loses the records, and nothing otherwise. *)
LEMMA CrashLoses ==
    ASSUME BenchInv, PassInv, Crash
    PROVE  [Table!Next]_(Table!tableVars)
<1>1. pc' = "idle" /\ UNCHANGED <<kernel, results, passAtK>>
  BY DEF Crash, EndCommand, files
<1>2. CASE pc # "filling"
  <2>1. Held' = Held
    BY <1>1, <1>2 DEF Held
  <2> QED BY <1>1, <2>1, SameTable
<1>3. CASE pc = "filling"
  <2>1. results = Torn /\ Held # Torn
    BY <1>3 DEF BenchInv, BatchInv, CoverInv, Evaluating
  <2>2. Held' = Torn
    BY <1>1, <2>1 DEF Held
  <2>3. passAtK = {}
    BY <1>3 DEF PassInv, Evaluating
  <2>4. [s \in Samples |-> Outcome(s)]' = Table!Empty
    BY <2>2 DEF Outcome, Table!Empty
  <2>5. Table!Lose
    BY <1>1, <2>1, <2>2, <2>3, <2>4 DEF Table!Lose, Table!Open
  <2> QED BY <2>5 DEF Table!Next
<1> QED BY <1>2, <1>3

(* An evaluation that ends publishes scores of a table that has all problems, or the same
   scores again. *)
LEMMA EndEvaluationPublishes ==
    ASSUME BenchInv, PassInv, EndEvaluation
    PROVE  [Table!Next]_(Table!tableVars)
<1>1. /\ pc = "batches" /\ work = <<>> /\ pc' = "idle" /\ UNCHANGED <<kernel, results>>
      /\ passAtK' = Values \/ UNCHANGED passAtK
  BY DEF EndEvaluation, EndCommand, CalculatePassAtK, Values
<1>2. Held' = Held /\ Held = results
  BY <1>1 DEF Held
<1>3. CASE passAtK' = passAtK
  BY <1>1, <1>2, <1>3, SameTable
<1>4. CASE passAtK' # passAtK
  <2>1. passAtK = {} /\ passAtK' # {}
    BY <1>1, <1>4 DEF PassInv
  <2>2. results # Torn /\ \A p \in Problems : results[p] # <<>>
    BY <1>1, EndEvaluationRecords
  <2>3. ASSUME NEW s \in Samples
        PROVE  \E t \in Samples : t[1] = s[1] /\ Outcome(t) # "none"
    <3> DEFINE p == s[1]
    <3>1. p \in Problems
      BY DEF Samples
    <3>2. results[p] \in Seq(Record) /\ results[p] # <<>>
      BY <2>2, <3>1 DEF BenchInv, TypeOK
    <3>3. 1 \in DOMAIN results[p] /\ results[p][1] \in Record
      BY <3>2
    <3> DEFINE t == <<p, results[p][1].sample_id>>
    <3>4. t \in Samples /\ t[1] = p /\ t[2] = results[p][1].sample_id
      BY <3>1, <3>3 DEF Samples, Record
    <3> HIDE DEF t
    <3>5. HasRecord(t)
      BY <3>3, <3>4, <1>2 DEF HasRecord
    <3> QED BY <3>4, <3>5, <1>2, <2>2, OutcomeIsOfRecord
  <2>4. UNCHANGED [s \in Samples |-> Outcome(s)]
    BY <1>2 DEF Outcome
  <2>5. Table!Publish
    BY <1>1, <1>2, <2>1, <2>2, <2>3, <2>4 DEF Table!Publish, Table!Open
  <2> QED BY <2>5 DEF Table!Next
<1> QED BY <1>3, <1>4

(* Every step of the commands is a step of the table or leaves it alone: results are
   written once and kept, lost as a whole only by a writer's death, and final once there
   are scores. *)
THEOREM RunImplementsTable == Spec => TableSpec
<1>1. Init => Table!Init
  <2> SUFFICES ASSUME Init PROVE Table!Init
    OBVIOUS
  <2>1. /\ Held = NoResults /\ passAtK = {}
        /\ \A s \in Samples : kernel[s] = "absent"
    BY DEF Init, Held
  <2>2. NoResults # Torn
    <3>1. NoResults \in [Problems -> Seq(Record)]
      BY DEF NoResults
    <3> QED BY <3>1, BenchmarkAssumption DEF BenchmarkAssumption
  <2>3. \A s \in Samples : Outcome(s) = "none"
    BY <2>1 DEF Outcome, NoResults, Samples
  <2> QED BY <2>1, <2>2, <2>3 DEF Table!Init, Table!Empty
<1>2. BenchInv /\ PassInv /\ [Next]_vars => [Table!Next]_(Table!tableVars)
  <2> SUFFICES ASSUME BenchInv, PassInv, [Next]_vars
               PROVE  [Table!Next]_(Table!tableVars)
    OBVIOUS
  <2>1. ASSUME UNCHANGED <<kernel, passAtK>>, Held' = Held
        PROVE  [Table!Next]_(Table!tableVars)
    BY <2>1, SameTable
  <2>2. CASE StartGeneration \/ QueryServer \/ EndGeneration
    <3>1. /\ pc # "filling" /\ pc' # "filling" /\ UNCHANGED <<kernel, passAtK, results>>
      BY <2>2 DEF StartGeneration, QueryServer, EndGeneration, EndCommand, files
    <3> QED BY <3>1, <2>1 DEF Held
  <2>3. CASE StartEvaluation \/ BeginBatch
    <3>1. /\ pc # "filling" /\ pc' # "filling" /\ UNCHANGED <<kernel, passAtK, results>>
      BY <2>3 DEF StartEvaluation, BeginBatch, files
    <3> QED BY <3>1, <2>1 DEF Held
  <2>4. CASE OutOfTime \/ CollectResult \/ FillResults \/ EndBatch
    <3>1. UNCHANGED <<kernel, passAtK>> /\ Held' = Held
      BY <2>4 DEF OutOfTime, CollectResult, FillResults, EndBatch, files, Held
    <3> QED BY <3>1, <2>1
  <2>5. CASE \E s \in Samples : Evaluate(s)
    <3>1. UNCHANGED <<kernel, passAtK, pc, results, loaded>>
      BY <2>5 DEF Evaluate, batchVars
    <3> QED BY <3>1, <2>1 DEF Held
  <2>6. CASE UNCHANGED vars
    <3>1. UNCHANGED <<kernel, passAtK, pc, results, loaded>>
      BY <2>6 DEF vars, files, batchVars
    <3> QED BY <3>1, <2>1 DEF Held
  <2> QED BY <2>2, <2>3, <2>4, <2>5, <2>6, GenerateFillsTable, AddResultEnters, CrashLoses,
             EndEvaluationPublishes DEF Next, Command
<1> QED BY <1>1, <1>2, BenchInvHolds, PassInvHolds, PTL DEF Spec, TableSpec, Table!Spec
=============================================================================
