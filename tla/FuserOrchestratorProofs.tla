---------------------- MODULE FuserOrchestratorProofs -----------------------
(* What the race of FuserOrchestrator keeps true, for any number of workers, programs and
   iterations, with the processes forked or spawned, and what the pipeline around it adds,
   for any answers of the models. *)
EXTENDS FuserPipeline, TLAPS

States == Live \cup {"exited", "duplicate", "raised", "killed"}

(* What is known of the parts of a worker. *)
LEMMA WorkerParts ==
    ASSUME TypeOK, NEW w \in Workers
    PROVE  /\ worker[w].state \in States
           /\ worker[w].iter \in 0 .. MaxIters
           /\ worker[w].code \in Codes \cup {None}
BY DEF TypeOK, WorkerState, States

(* A worker has a program in its hands while it registers and runs it. *)
HoldsCode ==
    \A w \in Workers :
        worker[w].state \in {"registering", "registered", "running", "passed", "flushing", "duplicate"}
            => worker[w].code \in Codes

(* A worker that changes only its state stays a worker, and without a program in its
   hands it comes to hold none. *)
LEMMA GotoTyped ==
    ASSUME TypeOK, HoldsCode, NEW w \in Workers, NEW state \in States, Goto(w, state),
           \/ worker[w].code \in Codes
           \/ state \in {"iterating", "asking", "exited", "raised", "killed"}
    PROVE  worker' \in [Workers -> WorkerState] /\ HoldsCode'
<1>1. worker' \in [Workers -> WorkerState]
  BY DEF Goto, TypeOK, WorkerState, States
<1>2. HoldsCode'
  BY DEF Goto, TypeOK, WorkerState, HoldsCode
<1> QED
  BY <1>1, <1>2

-----------------------------------------------------------------------------
(* The initial states. *)
LEMMA InitTyped == Init => TypeOK /\ HoldsCode
<1> USE RaceAssumption
<1> SUFFICES ASSUME Init PROVE TypeOK /\ HoldsCode
  OBVIOUS
<1>1. [state |-> "iterating", iter |-> 0, code |-> None] \in WorkerState
  BY DEF RaceAssumption, WorkerState, Live
<1>2. cancel_event \in BOOLEAN /\ slot \in BOOLEAN /\ inherited \in BOOLEAN
  BY Zenon DEF Init
<1>3. candidate \in [Workers -> BOOLEAN]
  BY DEF Init
<1> QED
  BY <1>1, <1>2, <1>3 DEF Init, TypeOK, HoldsCode

(* Type correctness, and that no worker runs or reports a program it does not have. *)
LEMMA TypeAndHands == Spec => [](TypeOK /\ HoldsCode)
<1> USE RaceAssumption
<1>1. Init => TypeOK /\ HoldsCode
  BY InitTyped
<1>2. ASSUME TypeOK, HoldsCode, [Next]_vars
      PROVE  TypeOK' /\ HoldsCode'
  <2> USE <1>2
  <2>1. CASE LookForCancel
    BY <2>1 DEF LookForCancel, workerVars, TypeOK, HoldsCode
  <2>2. CASE GetWinner
    BY <2>2 DEF GetWinner, workerVars, TypeOK, HoldsCode
  <2>3. CASE GetNothing
    BY <2>3 DEF GetNothing, workerVars, TypeOK, HoldsCode
  <2>4. CASE CountWorkers
    BY <2>4 DEF CountWorkers, workerVars, TypeOK, HoldsCode
  <2>5. CASE TerminateWorkers
    <3>1. worker' \in [Workers -> WorkerState]
      <4>1. CASE inherited
        BY <2>5, <4>1 DEF TerminateWorkers, TypeOK
      <4>2. CASE ~inherited
        <5>1. worker' = [w \in Workers |->
                  IF Alive(w) THEN [worker[w] EXCEPT !.state = "killed"] ELSE worker[w]]
          BY <2>5, <4>2 DEF TerminateWorkers
        <5>2. \A w \in Workers : [worker[w] EXCEPT !.state = "killed"] \in WorkerState
          <6>1. \A w \in Workers : worker[w] \in WorkerState
            BY DEF TypeOK
          <6> QED
            BY <6>1 DEF WorkerState
        <5> QED
          BY <5>1, <5>2 DEF TypeOK
      <4> QED
        BY <4>1, <4>2
    <3>2. cancel_event' \in BOOLEAN
      BY <2>5, Zenon DEF TerminateWorkers, TypeOK
    <3>3. HoldsCode'
      BY <2>5, <3>1 DEF TerminateWorkers, TypeOK, WorkerState, HoldsCode
    <3> QED
      BY <2>5, <3>1, <3>2, <3>3 DEF TerminateWorkers, TypeOK
  <2>6. ASSUME NEW w \in Workers, KillWorker(w)
        PROVE  TypeOK' /\ HoldsCode'
    <3>1. Goto(w, "killed") /\ "killed" \in States
      BY <2>6 DEF KillWorker, Goto, States
    <3>2. worker' \in [Workers -> WorkerState] /\ HoldsCode'
      BY <3>1, GotoTyped
    <3> QED
      BY <2>6, <3>2 DEF KillWorker, TypeOK
  <2>7. CASE AllJoined
    BY <2>7 DEF AllJoined, workerVars, TypeOK, HoldsCode
  <2>8. CASE Package
    BY <2>8 DEF Package, workerVars, TypeOK, HoldsCode
  <2>9. CASE Signal
    BY <2>9 DEF Signal, mainVars, workerVars, TypeOK, HoldsCode
  <2>10. ASSUME NEW w \in Workers, BeginIteration(w)
         PROVE  TypeOK' /\ HoldsCode'
    <3>1. worker' \in [Workers -> WorkerState] /\ HoldsCode'
      <4>1. CASE worker[w].iter = MaxIters \/ cancel_event
        BY <2>10, <4>1, GotoTyped DEF BeginIteration, States
      <4>2. CASE ~(worker[w].iter = MaxIters \/ cancel_event)
        <5>1. worker[w].iter + 1 \in 0 .. MaxIters
          BY <4>2, WorkerParts DEF RaceAssumption
        <5>2. worker' = [worker EXCEPT ![w] = [state |-> "asking", iter |-> worker[w].iter + 1, code |-> None]]
          BY <2>10, <4>2 DEF BeginIteration, TypeOK
        <5> QED
          BY <5>1, <5>2 DEF TypeOK, WorkerState, HoldsCode, Live
      <4> QED
        BY <4>1, <4>2
    <3> QED
      BY <2>10, <3>1 DEF BeginIteration, mainVars, shared, TypeOK
  <2>11. ASSUME NEW w \in Workers, Answer(w)
         PROVE  TypeOK' /\ HoldsCode'
    <3>1. worker' \in [Workers -> WorkerState] /\ HoldsCode'
      <4>1. CASE Goto(w, "exited") \/ Goto(w, "iterating")
        BY <4>1, GotoTyped DEF States, Live
      <4>2. ASSUME NEW c \in Codes,
                   worker' = [worker EXCEPT ![w].state = "registering", ![w].code = c]
            PROVE  worker' \in [Workers -> WorkerState] /\ HoldsCode'
        <5>1. worker' \in [Workers -> WorkerState]
          <6> DEFINE new == [worker[w] EXCEPT !.state = "registering", !.code = c]
          <6>1. worker \in [Workers -> WorkerState] /\ worker[w] \in WorkerState
            BY DEF TypeOK
          <6>2. new \in WorkerState
            BY <4>2, <6>1 DEF WorkerState, Live
          <6>3. worker' = [worker EXCEPT ![w] = new]
            BY <4>2, <6>1 DEF WorkerState
          <6> QED
            BY <6>1, <6>2, <6>3
        <5>2. HoldsCode'
          BY <4>2 DEF TypeOK, WorkerState, HoldsCode
        <5> QED
          BY <5>1, <5>2
      <4> QED
        BY <2>11, <4>1, <4>2 DEF Answer
    <3> QED
      BY <2>11, <3>1 DEF Answer, mainVars, shared, TypeOK
  <2>12. ASSUME NEW w \in Workers, RegisterDigest(w)
         PROVE  TypeOK' /\ HoldsCode'
    <3>1. worker[w].code \in Codes
      BY <2>12 DEF RegisterDigest, RegisterIn, HoldsCode
    <3>2. \E state \in {"registered", "iterating", "duplicate"} : Goto(w, state)
      BY <2>12, Zenon DEF RegisterDigest, RegisterIn
    <3>3. worker' \in [Workers -> WorkerState] /\ HoldsCode'
      BY <3>1, <3>2, GotoTyped DEF States, Live
    <3>4. digests' \in [Codes -> {NoFile, EmptyFile} \cup Workers]
      BY <2>12 DEF RegisterDigest, RegisterIn, TypeOK
    <3> QED
      BY <2>12, <3>3, <3>4 DEF RegisterDigest, RegisterIn, mainVars, shared, TypeOK
  <2>13. ASSUME NEW w \in Workers, RunCandidate(w)
         PROVE  TypeOK' /\ HoldsCode'
    <3>1. worker[w].code \in Codes
      BY <2>13 DEF RunCandidate, HoldsCode
    <3>2. candidate' \in [Workers -> BOOLEAN]
      BY <2>13 DEF RunCandidate, TypeOK
    <3>3. digests' \in [Codes -> {NoFile, EmptyFile} \cup Workers] /\ ran' \in [Codes -> Seq(Workers)]
      BY <2>13, <3>1 DEF RunCandidate, TypeOK
    <3>4. worker' \in [Workers -> WorkerState] /\ HoldsCode'
      <4>1. worker[w].code \in Codes /\ Goto(w, "running") /\ "running" \in States
        BY <2>13, <3>1 DEF RunCandidate, States, Live
      <4> QED
        BY <4>1, GotoTyped
    <3> QED
      BY <2>13, <3>2, <3>3, <3>4 DEF RunCandidate, mainVars, shared, TypeOK
  <2>14. ASSUME NEW w \in Workers, KillCandidate(w)
         PROVE  TypeOK' /\ HoldsCode'
    <3>1. candidate' \in [Workers -> BOOLEAN]
      BY <2>14 DEF KillCandidate, TypeOK
    <3>2. worker' \in [Workers -> WorkerState] /\ HoldsCode'
      <4>1. Goto(w, "iterating") /\ "iterating" \in States
        BY <2>14 DEF KillCandidate, States, Live
      <4> QED
        BY <4>1, GotoTyped
    <3> QED
      BY <2>14, <3>1, <3>2 DEF KillCandidate, mainVars, shared, TypeOK
  <2>15. ASSUME NEW w \in Workers, PutWinner(w)
         PROVE  TypeOK' /\ HoldsCode'
    <3>1. worker' \in [Workers -> WorkerState] /\ HoldsCode'
      <4>1. worker[w].code \in Codes
        BY <2>15 DEF PutWinner, HoldsCode
      <4>2. \E state \in {"flushing", "exited"} : Goto(w, state)
        BY <2>15, Zenon DEF PutWinner
      <4> QED
        BY <4>1, <4>2, GotoTyped DEF States, Live
    <3>2. slot' \in BOOLEAN
      BY <2>15, Zenon DEF PutWinner, TypeOK
    <3> QED
      BY <2>15, <3>1, <3>2 DEF PutWinner, mainVars, TypeOK
  <2>16. ASSUME NEW w \in Workers, FlushWinner(w)
         PROVE  TypeOK' /\ HoldsCode'
    <3>1. worker' \in [Workers -> WorkerState] /\ HoldsCode'
      <4>1. Goto(w, "exited") /\ "exited" \in States
        BY <2>16 DEF FlushWinner, States, Live
      <4> QED
        BY <4>1, GotoTyped
    <3>2. [worker |-> w, code |-> worker[w].code] \in Winner
      BY <2>16 DEF FlushWinner, HoldsCode, Winner
    <3> QED
      BY <2>16, <3>1, <3>2 DEF FlushWinner, mainVars, TypeOK
  <2>17. ASSUME NEW w \in Workers, CandidateEnds(w)
         PROVE  TypeOK' /\ HoldsCode'
    <3>1. candidate' \in [Workers -> BOOLEAN]
      BY <2>17 DEF CandidateEnds, TypeOK
    <3>2. worker' \in [Workers -> WorkerState] /\ HoldsCode'
      <4>1. CASE worker[w].state = "running"
        <5>1. worker[w].code \in Codes
          BY <4>1 DEF HoldsCode
        <5>2. \E state \in {"passed", "iterating"} : Goto(w, state)
          BY <2>17, <4>1, Zenon DEF CandidateEnds
        <5> QED
          BY <5>1, <5>2, GotoTyped DEF States, Live
      <4>2. CASE worker[w].state # "running"
        BY <2>17, <4>2 DEF CandidateEnds, TypeOK, HoldsCode
      <4> QED
        BY <4>1, <4>2
    <3> QED
      BY <2>17, <3>1, <3>2 DEF CandidateEnds, mainVars, shared, TypeOK
  <2>18. ASSUME NEW w \in Workers, RaiseInWorker(w)
         PROVE  TypeOK' /\ HoldsCode'
    <3>1. Goto(w, "raised") /\ "raised" \in States
      BY <2>18 DEF RaiseInWorker, States, Live
    <3>2. worker' \in [Workers -> WorkerState] /\ HoldsCode'
      BY <3>1, GotoTyped
    <3> QED
      BY <2>18, <3>2 DEF RaiseInWorker, mainVars, shared, TypeOK
  <2>19. CASE UNCHANGED vars
    BY <2>19 DEF vars, TypeOK, HoldsCode
  <2> QED
    BY <2>1, <2>2, <2>3, <2>4, <2>5, <2>6, <2>7, <2>8, <2>9, <2>10, <2>11, <2>12, <2>13,
       <2>14, <2>15, <2>16, <2>17, <2>18, <2>19
    DEF Next, Orchestrate, WorkOn
<1> QED
  BY <1>1, <1>2, PTL DEF Spec

(* Type correctness: the program counters, the queue, the digests and the workers stay in
   their ranges, with no worker past max_iters. *)
THEOREM TypeCorrect == Spec => []TypeOK
<1>1. Spec => [](TypeOK /\ HoldsCode)
  BY TypeAndHands
<1> QED
  BY <1>1, PTL

-----------------------------------------------------------------------------
(* The race, worker by worker: a program was started once, by the owner of its digest, or
   never; a worker that made
   a digest's file and has not yet written itself into it is the only one to do so, and
   an empty file has such a maker, though it may have failed since; what runs or has
   passed was started; a duplicate is one of another worker's program. *)
RanByOwner ==
    \A c \in Codes : ran[c] = <<>> \/ (digests[c] \in Workers /\ ran[c] = <<digests[c]>>)

RegisteredAlone ==
    \A w \in Workers :
        worker[w].state = "registered" =>
            /\ digests[worker[w].code] = EmptyFile
            /\ \A o \in Workers \ {w} :
                   worker[o].state = "registered" => worker[o].code # worker[w].code

EmptyHasMaker ==
    \A c \in Codes :
        digests[c] = EmptyFile =>
            \E o \in Workers :
                worker[o].code = c /\ worker[o].state \in {"registered", "raised", "killed"}

RunnersRan ==
    \A w \in Workers :
        /\ worker[w].state \in {"running", "passed", "flushing"} => ran[worker[w].code] = <<w>>
        /\ worker[w].state \in {"passed", "flushing"} => worker[w].code \in Passing

DuplicateOfOther ==
    \A w \in Workers :
        worker[w].state = "duplicate" =>
            digests[worker[w].code] \in {EmptyFile} \cup (Workers \ {w})

RaceInv ==
    /\ TypeOK
    /\ HoldsCode
    /\ RanByOwner
    /\ RegisteredAlone
    /\ EmptyHasMaker
    /\ RunnersRan
    /\ DuplicateOfOther

(* What a worker does while no digest changes and no program is started. *)
QuietMove(o) ==
    \/ worker'[o] = worker[o]
    \/ /\ worker[o].state \notin {"registered", "raised", "killed"}
       /\ worker'[o].state \in {"iterating", "asking", "exited", "registering"}
    \/ /\ worker'[o].code = worker[o].code
       /\ \/ worker'[o].state \in {"raised", "killed"}
          \/ /\ worker[o].state \in {"running", "passed"}
             /\ worker'[o].state \in {"passed", "flushing"}
             /\ worker[o].code \in Passing
          \/ /\ worker[o].state = "registering"
             /\ worker'[o].state = "duplicate"
             /\ digests[worker[o].code] \in {EmptyFile} \cup (Workers \ {o})

(* Where a worker goes, and that no other one moves. *)
LEMMA GotoMoves ==
    ASSUME TypeOK, NEW w \in Workers, NEW state, Goto(w, state)
    PROVE  /\ worker'[w].state = state
           /\ worker'[w].code = worker[w].code
           /\ \A o \in Workers \ {w} : worker'[o] = worker[o]
BY DEF TypeOK, WorkerState, Goto

(* Such moves keep the race in order. *)
LEMMA QuietMovesKeepRace ==
    ASSUME RaceInv, TypeOK', HoldsCode', UNCHANGED <<digests, ran>>,
           \A o \in Workers : QuietMove(o)
    PROVE  RaceInv'
<1> USE DEF RaceInv
<1>1. RanByOwner'
  BY DEF RanByOwner
<1>2. \A w \in Workers : worker'[w].state = "registered" => worker'[w] = worker[w]
  BY DEF QuietMove
<1>3. RegisteredAlone'
  BY <1>2 DEF RegisteredAlone
<1>4. EmptyHasMaker'
  <2>1. ASSUME NEW o \in Workers, worker[o].state \in {"registered", "raised", "killed"}
        PROVE  /\ worker'[o].state \in {"registered", "raised", "killed"}
               /\ worker'[o].code = worker[o].code
    BY <2>1 DEF QuietMove
  <2> QED
    BY <2>1 DEF EmptyHasMaker
<1>5. RunnersRan'
  BY DEF RunnersRan, QuietMove
<1>6. DuplicateOfOther'
  BY DEF DuplicateOfOther, QuietMove
<1> QED
  BY <1>1, <1>3, <1>4, <1>5, <1>6

(* The race stays in order, whatever a worker does and whenever it is stopped. *)
LEMMA RaceKept == Spec => []RaceInv
<1> USE RaceAssumption
<1>1. Init => RaceInv
  <2> SUFFICES ASSUME Init, TypeOK, HoldsCode PROVE RaceInv
    BY InitTyped
  <2>1. EmptyHasMaker
    BY DEF Init, EmptyHasMaker, NoFile, EmptyFile
  <2> QED
    BY <2>1 DEF Init, RaceInv, RanByOwner, RegisteredAlone, RunnersRan, DuplicateOfOther
<1>2. ASSUME RaceInv, TypeOK', HoldsCode', [Next]_vars
      PROVE  RaceInv'
  <2>0. TypeOK /\ HoldsCode
    BY <1>2 DEF RaceInv
  <2>1. CASE LookForCancel \/ GetWinner \/ GetNothing \/ CountWorkers \/ AllJoined \/ Package
    <3>1. UNCHANGED <<digests, ran, worker>>
      BY <2>1 DEF LookForCancel, GetWinner, GetNothing, CountWorkers, AllJoined, Package, workerVars
    <3> QED
      BY <1>2, <3>1, QuietMovesKeepRace DEF QuietMove
  <2>2. CASE TerminateWorkers
    <3>1. UNCHANGED <<digests, ran>>
      BY <2>2 DEF TerminateWorkers
    <3>2. \A o \in Workers : QuietMove(o)
      BY <2>0, <2>2 DEF TerminateWorkers, QuietMove, TypeOK, WorkerState
    <3> QED
      BY <1>2, <3>1, <3>2, QuietMovesKeepRace
  <2>3. ASSUME NEW w \in Workers, KillWorker(w)
        PROVE  RaceInv'
    <3>1. UNCHANGED <<digests, ran>> /\ Goto(w, "killed")
      BY <2>3 DEF KillWorker, Goto
    <3> QED
      BY <1>2, <2>0, <3>1, GotoMoves, QuietMovesKeepRace DEF QuietMove
  <2>4. CASE Signal \/ UNCHANGED vars
    <3>1. UNCHANGED <<digests, ran, worker>>
      BY <2>4 DEF Signal, vars, workerVars
    <3> QED
      BY <1>2, <3>1, QuietMovesKeepRace DEF QuietMove
  <2>5. ASSUME NEW w \in Workers, BeginIteration(w) \/ Answer(w)
        PROVE  RaceInv'
    <3>1. UNCHANGED <<digests, ran>> /\ worker[w].state \in {"iterating", "asking"}
      BY <2>5 DEF BeginIteration, Answer
    <3>2. worker'[w].state \in {"iterating", "asking", "exited", "registering"}
      BY <2>0, <2>5, GotoMoves DEF BeginIteration, Answer, TypeOK, WorkerState
    <3>3. \A o \in Workers \ {w} : worker'[o] = worker[o]
      BY <2>0, <2>5, GotoMoves DEF BeginIteration, Answer, TypeOK
    <3> QED
      BY <1>2, <3>1, <3>2, <3>3, QuietMovesKeepRace DEF QuietMove
  <2>6. ASSUME NEW w \in Workers, RegisterDigest(w)
        PROVE  RaceInv'
    <3> DEFINE c == worker[w].code
    <3>1. worker[w].state = "registering" /\ c \in Codes /\ ran' = ran
      BY <2>0, <2>6 DEF RegisterDigest, RegisterIn, HoldsCode
    <3>2. CASE digests[c] = NoFile
      <4>1. digests' = [digests EXCEPT ![c] = EmptyFile] /\ Goto(w, "registered")
        BY <2>6, <3>2 DEF RegisterDigest, RegisterIn
      <4>2. /\ worker'[w].state = "registered" /\ worker'[w].code = c
            /\ \A o \in Workers \ {w} : worker'[o] = worker[o]
        BY <2>0, <4>1, GotoMoves
      <4>3. digests'[c] = EmptyFile /\ \A d \in Codes \ {c} : digests'[d] = digests[d]
        BY <2>0, <3>1, <4>1 DEF TypeOK
      <4>4. NoFile \notin Workers /\ NoFile # EmptyFile
        BY RaceAssumption DEF RaceAssumption, NoFile, EmptyFile
      <4>5. RanByOwner'
        BY <1>2, <3>1, <3>2, <4>3, <4>4 DEF RaceInv, RanByOwner, TypeOK
      <4>6. RegisteredAlone'
        BY <1>2, <3>2, <4>2, <4>3, <4>4 DEF RaceInv, RegisteredAlone, HoldsCode
      <4>7. EmptyHasMaker'
        <5>1. ASSUME NEW d \in Codes \ {c}, digests'[d] = EmptyFile
              PROVE  \E o \in Workers :
                         worker'[o].code = d /\ worker'[o].state \in {"registered", "raised", "killed"}
          <6>1. PICK o \in Workers :
                    worker[o].code = d /\ worker[o].state \in {"registered", "raised", "killed"}
            BY <1>2, <4>3, <5>1 DEF RaceInv, EmptyHasMaker
          <6>2. o # w
            BY <3>1, <6>1
          <6> QED
            BY <4>2, <6>1, <6>2
        <5> QED
          BY <4>2, <5>1 DEF EmptyHasMaker
      <4>8. RunnersRan'
        BY <1>2, <3>1, <4>2 DEF RaceInv, RunnersRan
      <4>9. DuplicateOfOther'
        BY <1>2, <3>2, <4>2, <4>3, <4>4 DEF RaceInv, DuplicateOfOther, HoldsCode
      <4> QED
        BY <1>2, <4>5, <4>6, <4>7, <4>8, <4>9 DEF RaceInv
    <3>3. CASE digests[c] # NoFile
      <4>1. digests' = digests /\ Goto(w, IF digests[c] = w THEN "iterating" ELSE "duplicate")
        BY <2>6, <3>3 DEF RegisterDigest, RegisterIn
      <4>2. /\ worker'[w].state = IF digests[c] = w THEN "iterating" ELSE "duplicate"
            /\ worker'[w].code = c
            /\ \A o \in Workers \ {w} : worker'[o] = worker[o]
        BY <2>0, <4>1, GotoMoves
      <4>3. digests[c] \in {EmptyFile} \cup Workers
        BY <2>0, <3>1, <3>3 DEF TypeOK
      <4>4. QuietMove(w)
        BY <3>1, <4>2, <4>3 DEF QuietMove
      <4> QED
        BY <1>2, <3>1, <4>1, <4>2, <4>4, QuietMovesKeepRace DEF QuietMove
    <3> QED
      BY <3>2, <3>3
  <2>7. ASSUME NEW w \in Workers, RunCandidate(w)
        PROVE  RaceInv'
    <3> DEFINE c == worker[w].code
    <3>1. /\ worker[w].state = "registered" /\ c \in Codes
          /\ digests' = [digests EXCEPT ![c] = w]
          /\ ran' = [ran EXCEPT ![c] = Append(@, w)] /\ Goto(w, "running")
      BY <2>0, <2>7 DEF RunCandidate, HoldsCode
    <3>2. /\ worker'[w].state = "running" /\ worker'[w].code = c
          /\ \A o \in Workers \ {w} : worker'[o] = worker[o]
      BY <2>0, <3>1, GotoMoves
    <3>3. digests'[c] = w /\ \A d \in Codes \ {c} : digests'[d] = digests[d]
      BY <2>0, <3>1 DEF TypeOK
    <3>4. digests[c] = EmptyFile
      BY <1>2, <3>1 DEF RaceInv, RegisteredAlone
    <3>5. EmptyFile \notin Workers
      BY RaceAssumption DEF RaceAssumption
    <3>6. ran[c] = <<>> /\ ran'[c] = <<w>> /\ \A d \in Codes \ {c} : ran'[d] = ran[d]
      <4>1. ran[c] = <<>>
        BY <1>2, <3>1, <3>4, <3>5 DEF RaceInv, RanByOwner
      <4>2. ran'[c] = Append(<<>>, w) /\ \A d \in Codes \ {c} : ran'[d] = ran[d]
        BY <2>0, <3>1, <4>1 DEF TypeOK
      <4> QED
        BY <4>1, <4>2
    <3>7. RegisteredAlone'
      BY <1>2, <3>1, <3>2, <3>3 DEF RaceInv, RegisteredAlone, HoldsCode
    <3>8. EmptyHasMaker'
      BY <1>2, <3>1, <3>2, <3>3, <3>5 DEF RaceInv, EmptyHasMaker
    <3>9. RunnersRan'
      <4>1. ASSUME NEW o \in Workers \ {w}, worker[o].state \in {"running", "passed", "flushing"}
            PROVE  ran'[worker[o].code] = <<o>>
        <5>1. ran[worker[o].code] = <<o>> /\ worker[o].code \in Codes
          BY <1>2, <4>1 DEF RaceInv, RunnersRan, HoldsCode
        <5>2. <<o>> # <<>>
          OBVIOUS
        <5> QED
          BY <3>6, <5>1, <5>2
      <4> QED
        BY <1>2, <3>2, <3>6, <4>1 DEF RaceInv, RunnersRan
    <3>10. DuplicateOfOther'
      BY <1>2, <3>1, <3>2, <3>3 DEF RaceInv, DuplicateOfOther, HoldsCode
    <3>11. RanByOwner'
      BY <1>2, <3>1, <3>3, <3>6 DEF RaceInv, RanByOwner
    <3> QED
      BY <1>2, <3>7, <3>8, <3>9, <3>10, <3>11 DEF RaceInv
  <2>8. ASSUME NEW w \in Workers, KillCandidate(w)
        PROVE  RaceInv'
    <3>1. UNCHANGED <<digests, ran>> /\ Goto(w, "iterating") /\ worker[w].state = "running"
      BY <2>8 DEF KillCandidate
    <3> QED
      BY <1>2, <2>0, <3>1, GotoMoves, QuietMovesKeepRace DEF QuietMove
  <2>9. ASSUME NEW w \in Workers, CandidateEnds(w)
        PROVE  RaceInv'
    <3>1. UNCHANGED <<digests, ran>>
      BY <2>9 DEF CandidateEnds
    <3>2. CASE worker[w].state = "running"
      <4>1. Goto(w, IF worker[w].code \in Passing THEN "passed" ELSE "iterating")
        BY <2>9, <3>2 DEF CandidateEnds
      <4> QED
        BY <1>2, <2>0, <3>1, <3>2, <4>1, GotoMoves, QuietMovesKeepRace DEF QuietMove
    <3>3. CASE worker[w].state # "running"
      BY <1>2, <2>9, <3>1, <3>3, QuietMovesKeepRace DEF CandidateEnds, QuietMove
    <3> QED
      BY <3>2, <3>3
  <2>10. ASSUME NEW w \in Workers, PutWinner(w)
         PROVE  RaceInv'
    <3>1. UNCHANGED <<digests, ran>> /\ worker[w].state = "passed" /\ worker[w].code \in Passing
      BY <1>2, <2>10 DEF PutWinner, RaceInv, RunnersRan
    <3>2. Goto(w, "flushing") \/ Goto(w, "exited")
      BY <2>10, Zenon DEF PutWinner
    <3> QED
      BY <1>2, <2>0, <3>1, <3>2, GotoMoves, QuietMovesKeepRace DEF QuietMove
  <2>11. ASSUME NEW w \in Workers, FlushWinner(w)
         PROVE  RaceInv'
    <3>1. UNCHANGED <<digests, ran>> /\ worker[w].state = "flushing" /\ Goto(w, "exited")
      BY <2>11 DEF FlushWinner
    <3> QED
      BY <1>2, <2>0, <3>1, GotoMoves, QuietMovesKeepRace DEF QuietMove
  <2>12. ASSUME NEW w \in Workers, RaiseInWorker(w)
         PROVE  RaceInv'
    <3>1. UNCHANGED <<digests, ran>> /\ Goto(w, "raised")
      BY <2>12 DEF RaiseInWorker
    <3> QED
      BY <1>2, <2>0, <3>1, GotoMoves, QuietMovesKeepRace DEF QuietMove
  <2> QED
    BY <1>2, <2>1, <2>2, <2>3, <2>4, <2>5, <2>6, <2>7, <2>8, <2>9, <2>10, <2>11, <2>12
    DEF Next, Orchestrate, WorkOn
<1>3. Spec => [](TypeOK /\ HoldsCode)
  BY TypeAndHands
<1> QED
  BY <1>1, <1>2, <1>3, PTL DEF Spec

-----------------------------------------------------------------------------
(* "Atomically register a digest": a program is started once at most, by one worker or by
   two, however the workers' attempts to create its file and to write into it interleave. *)
THEOREM OnceOnly == Spec => []ProgramRunsOnce
<1>1. ASSUME RaceInv, NEW c \in Codes
      PROVE  Len(ran[c]) <= 1
  <2>1. CASE ran[c] = <<>>
    BY <2>1
  <2>2. CASE ran[c] = <<digests[c]>>
    BY <2>2
  <2> QED
    BY <1>1, <2>1, <2>2 DEF RaceInv, RanByOwner
<1>2. RaceInv => ProgramRunsOnce
  BY <1>1 DEF ProgramRunsOnce
<1> QED
  BY <1>2, RaceKept, PTL

(* A worker that exits because its program is another's leaves it to one that has it or
   that made its file. *)
THEOREM DuplicatesGiveWay == Spec => []GivesWayToOwner
<1>1. ASSUME RaceInv
      PROVE  GivesWayToOwner
  <2> SUFFICES ASSUME NEW w \in Workers, worker[w].state = "duplicate",
                      digests[worker[w].code] = EmptyFile
               PROVE  \E o \in Workers \ {w} :
                          /\ worker[o].code = worker[w].code
                          /\ worker[o].state \in {"registered", "raised", "killed"}
    BY <1>1, RaceAssumption DEF RaceInv, DuplicateOfOther, GivesWayToOwner
  <2>1. worker[w].code \in Codes
    BY <1>1 DEF RaceInv, HoldsCode
  <2>2. PICK o \in Workers :
            /\ worker[o].code = worker[w].code
            /\ worker[o].state \in {"registered", "raised", "killed"}
    BY <1>1, <2>1 DEF RaceInv, EmptyHasMaker
  <2> QED
    BY <2>2
<1> QED
  BY <1>1, RaceKept, PTL

(* Every winner, in the queue or taken, passed in a run of the worker it names. *)
IsTrueWinner(entry) == entry.code \in Passing /\ ran[entry.code] = <<entry.worker>>

WinnersRan ==
    /\ \A i \in 1 .. Len(winner_queue) : IsTrueWinner(winner_queue[i])
    /\ winner # None => IsTrueWinner(winner)

(* The queue and the winner are right in every step. *)
LEMMA WinnersRanKept == Spec => []WinnersRan
<1> USE RaceAssumption
<1>1. Init => WinnersRan
  BY DEF Init, WinnersRan
<1>2. ASSUME RaceInv, WinnersRan, [Next]_vars
      PROVE  WinnersRan'
  <2>1. \A code \in Passing : ran[code] # <<>> => ran'[code] = ran[code]
    <3>1. ASSUME NEW w \in Workers, RunCandidate(w), NEW code \in Passing, ran[code] # <<>>
          PROVE  ran'[code] = ran[code]
      <4>1. digests[worker[w].code] = EmptyFile /\ worker[w].code \in Codes
        BY <1>2, <3>1 DEF RunCandidate, RaceInv, RegisteredAlone, HoldsCode
      <4>2. ran[worker[w].code] = <<>>
        BY <1>2, <4>1, RaceAssumption DEF RaceAssumption, RaceInv, RanByOwner
      <4>3. ran' = [ran EXCEPT ![worker[w].code] = Append(@, w)] /\ ran \in [Codes -> Seq(Workers)]
        BY <1>2, <3>1 DEF RunCandidate, RaceInv, TypeOK
      <4>4. code \in Codes /\ code # worker[w].code
        BY <3>1, <4>2, RaceAssumption DEF RaceAssumption
      <4> QED
        BY <4>3, <4>4
    <3>2. (\E w \in Workers : RunCandidate(w)) \/ ran' = ran
      BY <1>2 DEF Next, Orchestrate, WorkOn, vars, LookForCancel, GetWinner, GetNothing, CountWorkers,
                TerminateWorkers, KillWorker, AllJoined, Package, Signal, BeginIteration, Answer,
                RegisterDigest, RegisterIn, CandidateEnds, KillCandidate, PutWinner,
                FlushWinner, RaiseInWorker, workerVars
    <3> QED
      BY <3>1, <3>2
  <2>2. ASSUME NEW entry, IsTrueWinner(entry)
        PROVE  entry.code \in Passing /\ ran'[entry.code] = <<entry.worker>>
    <3>1. entry.code \in Passing /\ ran[entry.code] = <<entry.worker>>
      BY <2>2 DEF IsTrueWinner
    <3>2. <<entry.worker>> # <<>>
      OBVIOUS
    <3> QED
      BY <2>1, <3>1, <3>2, Zenon
  <2>3. CASE GetWinner
    <3>1. /\ winner_queue # <<>> /\ winner' = Head(winner_queue)
          /\ winner_queue' = Tail(winner_queue)
      BY <2>3 DEF GetWinner
    <3>2. winner_queue \in Seq(Winner) /\ Len(winner_queue) >= 1
      BY <1>2, <3>1 DEF RaceInv, TypeOK
    <3>3. /\ winner' = winner_queue[1]
          /\ Len(winner_queue') = Len(winner_queue) - 1
          /\ \A i \in 1 .. Len(winner_queue') : winner_queue'[i] = winner_queue[i + 1]
      BY <3>1, <3>2
    <3>4. \A i \in 1 .. Len(winner_queue) :
              /\ winner_queue[i].code \in Passing
              /\ ran'[winner_queue[i].code] = <<winner_queue[i].worker>>
      BY <1>2, <2>2, Zenon DEF WinnersRan
    <3>5. winner'.code \in Passing /\ ran'[winner'.code] = <<winner'.worker>>
      <4>1. 1 \in 1 .. Len(winner_queue)
        BY <3>2
      <4>2. winner_queue[1].code \in Passing /\ ran'[winner_queue[1].code] = <<winner_queue[1].worker>>
        BY <3>4, <4>1, Zenon
      <4> QED
        BY <3>3, <4>2
    <3>6. \A i \in 1 .. Len(winner_queue') : i + 1 \in 1 .. Len(winner_queue)
      BY <3>2, <3>3
    <3> QED
      BY <3>3, <3>4, <3>5, <3>6 DEF WinnersRan, IsTrueWinner
  <2>4. ASSUME NEW w \in Workers, FlushWinner(w)
        PROVE  WinnersRan'
    <3> DEFINE entry == [worker |-> w, code |-> worker[w].code]
    <3>1. /\ worker[w].state = "flushing" /\ winner' = winner
          /\ winner_queue' = Append(winner_queue, entry)
      BY <2>4 DEF FlushWinner, mainVars
    <3>2. IsTrueWinner(entry)
      BY <1>2, <3>1 DEF RaceInv, RunnersRan, IsTrueWinner
    <3>3. /\ Len(winner_queue') = Len(winner_queue) + 1
          /\ \A i \in 1 .. Len(winner_queue) : winner_queue'[i] = winner_queue[i]
          /\ winner_queue'[Len(winner_queue) + 1] = entry
          /\ Len(winner_queue) \in Nat
      BY <1>2, <3>1 DEF RaceInv, TypeOK
    <3>4. \A i \in 1 .. Len(winner_queue') : IsTrueWinner(winner_queue'[i])
      BY <1>2, <3>2, <3>3 DEF WinnersRan
    <3>5. \A i \in 1 .. Len(winner_queue') :
              /\ winner_queue'[i].code \in Passing
              /\ ran'[winner_queue'[i].code] = <<winner_queue'[i].worker>>
      BY <2>2, <3>4, Zenon
    <3>6. winner' # None => winner'.code \in Passing /\ ran'[winner'.code] = <<winner'.worker>>
      BY <1>2, <2>2, <3>1 DEF WinnersRan
    <3> QED
      BY <3>5, <3>6 DEF WinnersRan, IsTrueWinner
  <2>5. CASE UNCHANGED <<winner_queue, winner>>
    <3>1. winner_queue' = winner_queue /\ winner' = winner
      BY <2>5
    <3>2. \A i \in 1 .. Len(winner_queue) :
              /\ winner_queue[i].code \in Passing
              /\ ran'[winner_queue[i].code] = <<winner_queue[i].worker>>
      BY <1>2, <2>2, Zenon DEF WinnersRan
    <3>3. winner # None => winner.code \in Passing /\ ran'[winner.code] = <<winner.worker>>
      BY <1>2, <2>2, Zenon DEF WinnersRan
    <3> QED
      BY <3>1, <3>2, <3>3 DEF WinnersRan, IsTrueWinner
  <2>6. \/ GetWinner
        \/ \E w \in Workers : FlushWinner(w)
        \/ UNCHANGED <<winner_queue, winner>>
    BY <1>2 DEF Next, Orchestrate, WorkOn, vars, LookForCancel, GetNothing, CountWorkers,
                TerminateWorkers, KillWorker, AllJoined, Package, Signal, BeginIteration, Answer,
                RegisterDigest, RegisterIn, RunCandidate, CandidateEnds, KillCandidate, PutWinner,
                RaiseInWorker, mainVars, shared
  <2> QED
    BY <2>3, <2>4, <2>5, <2>6
<1> QED
  BY <1>1, <1>2, RaceKept, PTL DEF Spec

(* The program that is packed passed in a run of the worker that is named for it, and the
   digest is that worker's. *)
THEOREM TrueWinner == Spec => []WinnerRanIt
<1>1. ASSUME RaceInv, WinnersRan, winner # None
      PROVE  /\ winner.code \in Passing
             /\ Started(winner.worker, winner.code)
             /\ digests[winner.code] = winner.worker
  <2>1. winner.code \in Passing /\ winner.code \in Codes /\ ran[winner.code] = <<winner.worker>>
    BY <1>1, RaceAssumption DEF RaceAssumption, WinnersRan, IsTrueWinner
  <2>2. ran[winner.code] = <<digests[winner.code]>>
    <3>1. ran[winner.code] # <<>>
      BY <2>1
    <3> QED
      BY <1>1, <2>1, <3>1 DEF RaceInv, RanByOwner
  <2>3. 1 \in DOMAIN ran[winner.code] /\ ran[winner.code][1] = winner.worker
    BY <2>1
  <2> QED
    BY <2>1, <2>2, <2>3 DEF Started
<1>2. RaceInv /\ WinnersRan => WinnerRanIt
  BY <1>1 DEF WinnerRanIt
<1> QED
  BY <1>2, RaceKept, WinnersRanKept, PTL

-----------------------------------------------------------------------------
(* The pipeline runs the race as it is: what is proved of the race holds in it. *)
THEOREM PipelineRunsRace == PipelineSpec => Spec
<1>1. PipelineInit => Init
  BY DEF PipelineInit
<1>2. [PipelineNext]_allVars => [Next]_vars
  BY DEF PipelineNext, Pipeline, Race, ExtractionRaises, ExtractSubgraphs, HandleOne, KernelGenerated,
         DispatchRaises, LoadKernels, NothingToCompose, Compose, ComposeRaises, WriteComposed,
         Composed, allVars
<1> QED
  BY <1>1, <1>2, PTL DEF PipelineSpec, Spec

(* A winner stops the race, which then is over for one of two reasons. *)
WinnerStops ==
    winner # None =>
        /\ main \in {"stopping", "joining", "packing", "done"}
        /\ reason \in {"pass", "packaging_failure"}

LEMMA WinnerStopsRace == Spec => []WinnerStops
<1>1. Init => WinnerStops
  BY DEF Init, WinnerStops
<1>2. WinnerStops /\ [Next]_vars => WinnerStops'
  BY DEF WinnerStops, Next, Orchestrate, WorkOn, vars, LookForCancel, GetWinner, GetNothing,
         CountWorkers, TerminateWorkers, KillWorker, AllJoined, Package, Signal, BeginIteration,
         Answer, RegisterDigest, RegisterIn, RunCandidate, CandidateEnds, KillCandidate, PutWinner,
         FlushWinner, RaiseInWorker, mainVars, shared
<1> QED
  BY <1>1, <1>2, PTL DEF Spec

(* When the race is over, nothing of its outcome changes. *)
LEMMA RaceIsOver ==
    ASSUME [Next]_vars, main = "done"
    PROVE  UNCHANGED mainVars
BY DEF Next, Orchestrate, WorkOn, vars, LookForCancel, GetWinner, GetNothing,
       CountWorkers, TerminateWorkers, KillWorker, AllJoined, Package, Signal, BeginIteration,
       Answer, RegisterDigest, RegisterIn, RunCandidate, CandidateEnds, KillCandidate, PutWinner,
       FlushWinner, RaiseInWorker, mainVars, shared

(* The stages after the race have its winner, and none of their data is there before. *)
StagesOK ==
    /\ stage \in {"dispatching", "composing"} \/ success =>
          main = "done" /\ winner # None /\ reason = "pass"
    /\ stage = "extracting" => subgraphs = {}
    /\ stage \in {"extracting", "dispatching"} => kernels = {} /\ ~verify_passed
    /\ stage = "composing" => kernels # {}
    /\ stage # "done" => ~success

(* Of two subgraphs that share a directory, a model has given the id. *)
SubgraphsOK ==
    /\ subgraphs \subseteq Subgraph
    /\ \A g \in subgraphs : g.id \in Ids \/ g.id = g.signature
    /\ \A g, h \in subgraphs : g.signature = h.signature => g = h
    /\ DOMAIN thread = subgraphs
    /\ DOMAIN kernel_py = Directories

(* The directory of a subgraph that has a kernel holds a kernel of its id ... *)
FilesOK ==
    \A g \in Threads({"success"}) :
        kernel_py[g.id] \in Threads({"success"}) /\ kernel_py[g.id].id = g.id

(* ... and so does the composition. *)
KernelsOK ==
    \A k \in kernels :
        k.entry \in subgraphs /\ k.code \in Threads({"success"}) /\ k.code.id = k.entry.id

AttemptsOK ==
    /\ verify_passed => attempt \in passed
    /\ success => kernels # {} /\ (verify => composed \in passed)

PipelineInv == StagesOK /\ SubgraphsOK /\ FilesOK /\ KernelsOK /\ AttemptsOK

(* What the model answers is grouped so. *)
LEMMA GroupedApart ==
    ASSUME NEW data \in Answers
    PROVE  /\ Grouped(data) \subseteq Subgraph
           /\ \A g \in Grouped(data) : g.id \in Ids \/ g.id = g.signature
           /\ \A g, h \in Grouped(data) : g.signature = h.signature => g = h
<1>1. PICK n \in 0 .. MaxSubgraphs : data \in [1 .. n -> Items]
  BY DEF Answers
<1> DEFINE First(i) == \A j \in 1 .. (i - 1) : data[j].signature # data[i].signature
           Entry(i) == [id |-> SubgraphId(data[i]), signature |-> data[i].signature]
<1>2. n \in Nat
  BY PipelineAssumption DEF PipelineAssumption
<1>3. \A g \in Grouped(data) : \E i \in 1 .. n : First(i) /\ g = Entry(i)
  BY <1>1 DEF Grouped
<1>4. \A i \in 1 .. n : Entry(i) \in Subgraph /\ (Entry(i).id \in Ids \/ Entry(i).id = Entry(i).signature)
  BY <1>1 DEF Items, Subgraph, Directories, SubgraphId
<1>5. \A i, j \in 1 .. n : First(i) /\ First(j) /\ Entry(i).signature = Entry(j).signature => i = j
  BY <1>2
<1> HIDE DEF First, Entry
<1> QED
  BY <1>3, <1>4, <1>5

LEMMA PipelineInvKept == PipelineSpec => []PipelineInv
<1>1. PipelineInit => PipelineInv
  BY DEF PipelineInit, PipelineInv, StagesOK, SubgraphsOK, FilesOK, KernelsOK, AttemptsOK, Threads
<1>2. ASSUME PipelineInv, WinnerStops, [PipelineNext]_allVars
      PROVE  PipelineInv'
  <2> USE DEF PipelineInv
  <2>1. CASE Race \/ UNCHANGED allVars
    <3>1. UNCHANGED pipelineVars /\ [Next]_vars
      BY <2>1 DEF Race, allVars
    <3>2. main = "done" => UNCHANGED mainVars
      BY <3>1, RaceIsOver
    <3>3. StagesOK'
      BY <1>2, <3>1, <3>2 DEF StagesOK, mainVars, pipelineVars, dispatchVars, composeVars
    <3>4. SubgraphsOK' /\ FilesOK' /\ KernelsOK' /\ AttemptsOK'
      BY <1>2, <3>1 DEF SubgraphsOK, FilesOK, KernelsOK, AttemptsOK, Threads, pipelineVars, dispatchVars,
                        composeVars
    <3> QED
      BY <3>3, <3>4
  <2>2. CASE ExtractSubgraphs
    <3>1. PICK data \in Answers : subgraphs' = Grouped(data)
      BY <2>2 DEF ExtractSubgraphs
    <3>2. /\ stage = "extracting" /\ stage' = "dispatching"
          /\ main = "done" /\ winner # None /\ reason = "pass"
          /\ thread' = [g \in subgraphs' |-> "submitted"]
          /\ UNCHANGED <<vars, kernel_py, composeVars>>
      BY <1>2, <2>2 DEF ExtractSubgraphs, WinnerStops
    <3>3. StagesOK'
      BY <1>2, <3>2 DEF StagesOK, vars, composeVars
    <3>4. SubgraphsOK'
      BY <1>2, <3>1, <3>2, GroupedApart DEF SubgraphsOK
    <3>5. FilesOK'
      BY <3>2 DEF FilesOK, Threads
    <3>6. KernelsOK' /\ AttemptsOK'
      BY <1>2, <3>2 DEF KernelsOK, AttemptsOK, StagesOK, composeVars
    <3> QED
      BY <3>3, <3>4, <3>5, <3>6
  <2>3. ASSUME NEW g \in subgraphs, HandleOne(g)
        PROVE  PipelineInv'
    <3>1. StagesOK' /\ AttemptsOK'
      BY <1>2, <2>3 DEF HandleOne, StagesOK, AttemptsOK, vars, composeVars
    <3>2. SubgraphsOK' /\ Threads({"success"})' = Threads({"success"})
      BY <1>2, <2>3 DEF HandleOne, SubgraphsOK, Threads
    <3>3. FilesOK' /\ KernelsOK'
      BY <1>2, <2>3, <3>2 DEF HandleOne, FilesOK, KernelsOK, composeVars
    <3> QED
      BY <3>1, <3>2, <3>3
  <2>4. ASSUME NEW g \in subgraphs, KernelGenerated(g)
        PROVE  PipelineInv'
    <3>1. StagesOK' /\ AttemptsOK'
      BY <1>2, <2>4 DEF KernelGenerated, StagesOK, AttemptsOK, vars, composeVars
    <3>2. SubgraphsOK'
      BY <1>2, <2>4 DEF KernelGenerated, SubgraphsOK
    <3>3. kernels' = {}
      BY <1>2, <2>4 DEF KernelGenerated, StagesOK, composeVars
    <3>4. CASE /\ thread' = [thread EXCEPT ![g] = "success"]
               /\ kernel_py' = [kernel_py EXCEPT ![g.id] = g]
      <4>1. Threads({"success"})' = Threads({"success"}) \cup {g}
        BY <1>2, <2>4, <3>4 DEF KernelGenerated, SubgraphsOK, Threads
      <4>2. g.id \in Directories
        BY <1>2 DEF SubgraphsOK, Subgraph
      <4> QED
        BY <1>2, <3>1, <3>2, <3>3, <3>4, <4>1, <4>2 DEF FilesOK, KernelsOK, SubgraphsOK
    <3>5. CASE /\ \E end \in {"failed", "raised"} : thread' = [thread EXCEPT ![g] = end]
               /\ UNCHANGED kernel_py
      <4>1. Threads({"success"})' = Threads({"success"})
        BY <1>2, <2>4, <3>5 DEF KernelGenerated, SubgraphsOK, Threads
      <4> QED
        BY <1>2, <3>1, <3>2, <3>3, <3>5, <4>1 DEF FilesOK, KernelsOK
    <3> QED
      BY <2>4, <3>4, <3>5 DEF KernelGenerated
  <2>5. CASE LoadKernels
    <3>1. /\ UNCHANGED <<vars, dispatchVars, attempt, verify_passed, composed, success, passed>>
          /\ stage = "dispatching" /\ stage' = "composing" /\ Threads({"success"}) # {}
          /\ kernels' = {[entry |-> g, code |-> kernel_py[g.id]] : g \in Threads({"success"})}
      BY <2>5 DEF LoadKernels
    <3>2. Threads({"success"})' = Threads({"success"}) /\ SubgraphsOK' /\ FilesOK'
      BY <1>2, <3>1 DEF Threads, SubgraphsOK, FilesOK, dispatchVars
    <3>3. KernelsOK'
      BY <1>2, <3>1, <3>2 DEF KernelsOK, FilesOK, dispatchVars, Threads
    <3>4. StagesOK' /\ AttemptsOK'
      BY <1>2, <3>1 DEF StagesOK, AttemptsOK, vars
    <3> QED
      BY <3>2, <3>3, <3>4
  <2>6. CASE Compose
    <3>1. UNCHANGED <<vars, stage, dispatchVars, kernels, verify, composed, success>>
      BY <2>6 DEF Compose
    <3>2. SubgraphsOK' /\ FilesOK' /\ KernelsOK'
      BY <1>2, <3>1 DEF SubgraphsOK, FilesOK, KernelsOK, Threads, dispatchVars
    <3>3. StagesOK' /\ AttemptsOK'
      BY <1>2, <2>6 DEF Compose, StagesOK, AttemptsOK, vars
    <3> QED
      BY <3>2, <3>3
  <2>7. CASE WriteComposed
    <3>1. UNCHANGED <<vars, dispatchVars, kernels, verify, attempt, verify_passed, passed>>
      BY <2>7 DEF WriteComposed, Composed
    <3>2. SubgraphsOK' /\ FilesOK' /\ KernelsOK'
      BY <1>2, <3>1 DEF SubgraphsOK, FilesOK, KernelsOK, Threads, dispatchVars
    <3>3. StagesOK' /\ AttemptsOK'
      BY <1>2, <2>7 DEF WriteComposed, Composed, StagesOK, AttemptsOK, vars
    <3> QED
      BY <3>2, <3>3
  <2>8. CASE ExtractionRaises \/ DispatchRaises \/ NothingToCompose \/ ComposeRaises
    <3>1. /\ UNCHANGED <<vars, dispatchVars, kernels, verify, attempt, verify_passed, composed, passed>>
          /\ stage' = "done" /\ success' = FALSE
      BY <2>8 DEF ExtractionRaises, DispatchRaises, NothingToCompose, ComposeRaises, Raise
    <3>2. SubgraphsOK' /\ FilesOK' /\ KernelsOK'
      BY <1>2, <3>1 DEF SubgraphsOK, FilesOK, KernelsOK, Threads, dispatchVars
    <3>3. StagesOK' /\ AttemptsOK'
      BY <1>2, <3>1 DEF StagesOK, AttemptsOK, vars
    <3> QED
      BY <3>2, <3>3
  <2> QED
    BY <1>2, <2>1, <2>2, <2>3, <2>4, <2>5, <2>6, <2>7, <2>8 DEF PipelineNext, Pipeline
<1>3. PipelineSpec => []WinnerStops
  BY PipelineRunsRace, WinnerStopsRace, PTL
<1> QED
  BY <1>1, <1>2, <1>3, PTL DEF PipelineSpec

(* The code composed for a subgraph is its own kernel, unless the model has given its id
   to another one as well. *)
THEOREM KernelsStayOwn == PipelineSpec => []KernelsAreOwn
<1>1. PipelineInv => KernelsAreOwn
  BY PipelineAssumption
     DEF PipelineInv, SubgraphsOK, KernelsOK, KernelsAreOwn, Threads, Subgraph, PipelineAssumption
<1> QED
  BY <1>1, PipelineInvKept, PTL

(* A result called a success is the text of an attempt that passed, or of one that nobody
   asked to verify, and comes from a race with a winner. *)
THEOREM SuccessHasPassed == PipelineSpec => []SuccessPassed
<1>1. PipelineInv => SuccessPassed
  BY DEF PipelineInv, StagesOK, KernelsOK, AttemptsOK, SuccessPassed
<1> QED
  BY <1>1, PipelineInvKept, PTL
=============================================================================
