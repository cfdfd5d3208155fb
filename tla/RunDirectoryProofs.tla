------------------------- MODULE RunDirectoryProofs -------------------------
(***************************************************************************)
(* The files of any number of directories, over any number of commands and *)
(* for logs of any length.                                                 *)
(*                                                                         *)
(* The invariant says what a command that is writing has written so far:   *)
(* the files before next are complete, and whatever it wrote whole, in     *)
(* this attempt or the one before, is of the run state it still holds.     *)
(* As run.json is the first, no file can get ahead of it.                  *)
(***************************************************************************)
EXTENDS RunDirectory, SequenceTheorems, TLAPS

(* A file nobody wrote is not there. *)
Unwritten == \A d \in Dirs, file \in FileNames :
                disk[d][file].writer = 0 => disk[d][file] = NoFile

(* The command that is running has written only to its directory, and only while writing. *)
WritesInTurn ==
    /\ pc # "idle" => command # 0
    /\ \A d \in Dirs, file \in FileNames :
        /\ disk[d][file].writer <= command
        /\ pc # "idle" /\ disk[d][file].writer = command
             => pc = "writing" /\ d = runDir

WrittenAgrees ==
    pc = "writing" =>
        /\ \A i \in 1..Len(Files) : i < next => disk[runDir][Files[i]] = Complete
        /\ \A file \in FileNames :
              disk[runDir][file].whole /\ disk[runDir][file].writer = command
                => disk[runDir][file].state = state

DiskInv == TypeOK /\ RunJsonIsNewest /\ Unwritten /\ WritesInTurn /\ WrittenAgrees

(* Between commands too, a chain's event log is not ahead of its run.json. *)
ChainOnDisk ==
    \A d \in Dirs : chain[d] /\ disk[d]["run"].whole
        => IsPrefix(disk[d]["tool_events"].state.log, disk[d]["run"].state.log)

ChainInMemory ==
    pc # "idle" /\ chain[runDir]
        => IsPrefix(disk[runDir]["tool_events"].state.log, state.log)

ChainInv == ChainOnDisk /\ ChainInMemory
-----------------------------------------------------------------------------
(* The names of the files, their order, and how many a command writes. *)
LEMMA FileFacts ==
    /\ Len(Files) = 5
    /\ FileNames = {"run", "tool_events", "claims", "transcript", "verdict"}
    /\ Files[1] = "run" /\ Files[2] = "tool_events"
    /\ \A i \in 1..5 : Files[i] \in FileNames
    /\ \A i, j \in 1..5 : Files[i] = Files[j] => i = j
    /\ LastFile \in {4, 5}
<1>1. Files = <<"run", "tool_events", "claims", "transcript", "verdict">>
  BY DEF Files
<1>2. /\ Len(Files) = 5
      /\ Files[1] = "run" /\ Files[2] = "tool_events" /\ Files[3] = "claims"
      /\ Files[4] = "transcript" /\ Files[5] = "verdict"
      /\ DOMAIN Files = 1..5
  BY <1>1
<1>3. 1..5 = {1, 2, 3, 4, 5}
  OBVIOUS
<1>4. FileNames = {Files[1], Files[2], Files[3], Files[4], Files[5]}
  BY <1>2, <1>3 DEF FileNames, ToSet
<1>5. \A i \in 1..5 : Files[i] \in FileNames
  BY <1>2, <1>3, <1>4
<1>6. \A i, j \in 1..5 : Files[i] = Files[j] => i = j
  BY <1>2, <1>3
<1>7. LastFile \in {4, 5}
  BY <1>2 DEF LastFile
<1> QED BY <1>2, <1>4, <1>5, <1>6, <1>7

(* A log is a prefix of another one if it is not longer and agrees with it. *)
LEMMA PrefixMeaning ==
    ASSUME NEW s \in Seq(Commands), NEW t \in Seq(Commands)
    PROVE  IsPrefix(s, t) <=>
              Len(s) <= Len(t) /\ \A i \in 1..Len(s) : s[i] = t[i]
<1> DEFINE n == Len(s)
           a == SubSeq(s, 1, n)
           b == SubSeq(t, 1, n)
<1>1. n \in Nat /\ Len(t) \in Nat
  BY LenProperties
<1>2. \A i \in 1..n : s[i] \in Commands
  BY ElementOfSeq
<1>3. /\ a \in Seq(Commands) /\ Len(a) = n
      /\ \A i \in 1..n : a[i] = s[i]
  <2>1. /\ a \in Seq(Commands)
        /\ Len(a) = IF 1 <= n THEN n - 1 + 1 ELSE 0
        /\ \A i \in 1..(n - 1 + 1) : a[i] = s[1 + i - 1]
    BY <1>1, <1>2, SubSeqProperties
  <2> QED BY <2>1, <1>1
<1>4. ASSUME n <= Len(t)
      PROVE  /\ b \in Seq(Commands) /\ Len(b) = n
             /\ \A i \in 1..n : b[i] = t[i]
  <2>1. \A i \in 1..n : t[i] \in Commands
    BY <1>1, <1>4, ElementOfSeq
  <2>2. /\ b \in Seq(Commands)
        /\ Len(b) = IF 1 <= n THEN n - 1 + 1 ELSE 0
        /\ \A i \in 1..(n - 1 + 1) : b[i] = t[1 + i - 1]
    BY <1>1, <2>1, SubSeqProperties
  <2> QED BY <2>2, <1>1
<1>5. ASSUME n <= Len(t)
      PROVE  a = b <=> \A i \in 1..n : s[i] = t[i]
  <2>1. ASSUME \A i \in 1..n : s[i] = t[i]
        PROVE  a = b
    BY <1>3, <1>4, <1>5, <2>1, SeqEqual
  <2> QED BY <1>3, <1>4, <1>5, <2>1
<1> QED BY <1>5 DEF IsPrefix

(* Every log is a prefix of itself, and the empty one of every log. *)
LEMMA PrefixTrivial ==
    ASSUME NEW s \in Seq(Commands)
    PROVE  IsPrefix(s, s) /\ IsPrefix(<<>>, s)
<1>1. <<>> \in Seq(Commands) /\ Len(<<>>) = 0 /\ Len(s) \in Nat
  BY EmptySeq, LenProperties
<1>2. IsPrefix(s, s)
  <2>1. Len(s) <= Len(s) /\ \A i \in 1..Len(s) : s[i] = s[i]
    BY <1>1
  <2> QED BY <2>1, PrefixMeaning
<1>3. IsPrefix(<<>>, s)
  <2>1. Len(<<>>) <= Len(s) /\ \A i \in 1..Len(<<>>) : <<>>[i] = s[i]
    BY <1>1
  <2> QED BY <1>1, <2>1, PrefixMeaning
<1> QED BY <1>2, <1>3

(* A log that grows keeps its prefixes. *)
LEMMA PrefixOfAppend ==
    ASSUME NEW s \in Seq(Commands), NEW t \in Seq(Commands),
           NEW c \in Commands, IsPrefix(s, t)
    PROVE  IsPrefix(s, Append(t, c))
<1>1. /\ Append(t, c) \in Seq(Commands)
      /\ Len(Append(t, c)) = Len(t) + 1
      /\ \A i \in 1..Len(t) : Append(t, c)[i] = t[i]
  BY AppendProperties
<1>2. Len(s) \in Nat /\ Len(t) \in Nat
  BY LenProperties
<1>3. Len(s) <= Len(t) /\ \A i \in 1..Len(s) : s[i] = t[i]
  BY PrefixMeaning
<1>4. Len(s) <= Len(Append(t, c)) /\ \A i \in 1..Len(s) : s[i] = Append(t, c)[i]
  BY <1>1, <1>2, <1>3
<1> QED BY <1>1, <1>4, PrefixMeaning

(* What is left of a log in a torn file is a log, and a prefix of it. *)
LEMMA PrefixLeft ==
    ASSUME NEW s \in Seq(Commands), NEW n \in 0..Len(s)
    PROVE  SubSeq(s, 1, n) \in Seq(Commands) /\ IsPrefix(SubSeq(s, 1, n), s)
<1>1. Len(s) \in Nat
  BY LenProperties
<1>2. \A i \in 1..n : s[i] \in Commands
  BY <1>1, ElementOfSeq
<1>3. /\ SubSeq(s, 1, n) \in Seq(Commands)
      /\ Len(SubSeq(s, 1, n)) = IF 1 <= n THEN n - 1 + 1 ELSE 0
      /\ \A i \in 1..(n - 1 + 1) : SubSeq(s, 1, n)[i] = s[1 + i - 1]
  BY <1>1, <1>2, SubSeqProperties
<1>4. /\ Len(SubSeq(s, 1, n)) = n
      /\ \A i \in 1..n : SubSeq(s, 1, n)[i] = s[i]
  BY <1>3, <1>1
<1>5. /\ Len(SubSeq(s, 1, n)) <= Len(s)
      /\ \A i \in 1..Len(SubSeq(s, 1, n)) : SubSeq(s, 1, n)[i] = s[i]
  BY <1>1, <1>4
<1>6. IsPrefix(SubSeq(s, 1, n), s)
  BY <1>3, <1>5, PrefixMeaning
<1> QED BY <1>3, <1>6
-----------------------------------------------------------------------------
(* What a write may leave behind are contents, and those of the command's writer. *)
LEMMA ContentsWritten ==
    ASSUME TypeOK, pc = "writing", command # 0, next <= LastFile
    PROVE  /\ Complete \in Content
           /\ \A lines \in LinesLeft :
                 /\ Torn(lines) \in Content
                 /\ Torn(lines).writer = command
                 /\ ~Torn(lines).whole
                 /\ IsPrefix(Torn(lines).state.log, state.log)
<1>1. command \in Commands /\ state \in RunState /\ state.log \in Seq(Commands)
  BY DEF TypeOK, RunState
<1>2. Complete \in Content
  BY <1>1 DEF Complete, Content
<1>3. ASSUME NEW lines \in LinesLeft
      PROVE  /\ Torn(lines) \in Content
             /\ Torn(lines).writer = command
             /\ ~Torn(lines).whole
             /\ IsPrefix(Torn(lines).state.log, state.log)
  <2>1. lines \in 0..Len(state.log)
    BY <1>1, LenProperties DEF LinesLeft
  <2>2. /\ SubSeq(state.log, 1, lines) \in Seq(Commands)
        /\ IsPrefix(SubSeq(state.log, 1, lines), state.log)
    BY <1>1, <2>1, PrefixLeft
  <2> QED BY <1>1, <2>2 DEF Torn, Content, RunState
<1> QED BY <1>2, <1>3

(* One file of the command's directory changes, and nothing else on the disk. *)
LEMMA StoreEffect ==
    ASSUME TypeOK, next <= LastFile, NEW c \in Content, Store(c)
    PROVE  /\ disk' \in [Dirs -> [FileNames -> Content]]
           /\ disk'[runDir][Files[next]] = c
           /\ \A d \in Dirs, file \in FileNames :
                 ~(d = runDir /\ file = Files[next]) => disk'[d][file] = disk[d][file]
<1>1. next \in 1..5
  BY FileFacts DEF TypeOK
<1>2. Files[next] \in FileNames
  BY <1>1, FileFacts
<1> QED BY <1>2 DEF TypeOK, Store

(* What a running command may do to the disk: write a file, whole or in part. *)
DiskStep == \/ UNCHANGED disk
            \/ Store(Complete)
            \/ \E lines \in LinesLeft : Store(Torn(lines))

(* What holds of the disk after any of these, with the run state the command still holds. *)
DiskKept ==
    /\ disk' \in [Dirs -> [FileNames -> Content]]
    /\ RunJsonIsNewest'
    /\ Unwritten'
    /\ \A d \in Dirs, file \in FileNames :
          /\ disk'[d][file].writer <= command
          /\ disk'[d][file].writer = command => d = runDir
    /\ \A i \in 1..Len(Files) : i < next => disk'[runDir][Files[i]] = Complete
    /\ \A file \in FileNames :
          disk'[runDir][file].whole /\ disk'[runDir][file].writer = command
            => disk'[runDir][file].state = state

(* A write keeps run.json the newest file: it is written first, or is there already. *)
LEMMA StoreKeeps ==
    ASSUME DiskInv, pc = "writing", next <= LastFile, NEW c \in Content, Store(c),
           c.writer = command, c.whole => c.state = state
    PROVE  DiskKept
<1>1. /\ next \in 1..5 /\ command \in Nat /\ command # 0 /\ runDir \in Dirs
      /\ Files[next] \in FileNames /\ "run" \in FileNames /\ Files[1] = "run"
  BY FileFacts, BoundsAssumption DEF DiskInv, TypeOK, WritesInTurn, Commands
<1>2. /\ disk' \in [Dirs -> [FileNames -> Content]]
      /\ disk'[runDir][Files[next]] = c
      /\ \A d \in Dirs, file \in FileNames :
            ~(d = runDir /\ file = Files[next]) => disk'[d][file] = disk[d][file]
  BY StoreEffect DEF DiskInv
<1>3. \A d \in Dirs, file \in FileNames :
         /\ disk[d][file].writer <= command
         /\ disk[d][file].writer = command => d = runDir
  BY DEF DiskInv, WritesInTurn
<1>4. \A i \in 1..Len(Files) : i < next => disk[runDir][Files[i]] = Complete
  BY DEF DiskInv, WrittenAgrees
<1>5. \A file \in FileNames :
         disk[runDir][file].whole /\ disk[runDir][file].writer = command
           => disk[runDir][file].state = state
  BY DEF DiskInv, WrittenAgrees
<1>6. \A d \in Dirs, file \in FileNames :
         /\ disk'[d][file].writer <= command
         /\ disk'[d][file].writer = command => d = runDir
  BY <1>1, <1>2, <1>3
<1>7. \A i \in 1..Len(Files) : i < next => disk'[runDir][Files[i]] = Complete
  BY <1>1, <1>2, <1>4, FileFacts
<1>8. \A file \in FileNames :
         disk'[runDir][file].whole /\ disk'[runDir][file].writer = command
           => disk'[runDir][file].state = state
  BY <1>1, <1>2, <1>5
<1>9. Unwritten'
  BY <1>1, <1>2 DEF DiskInv, Unwritten
<1>10. disk'[runDir]["run"].writer = command
  <2>1. CASE next = 1
    BY <2>1, <1>1, <1>2
  <2>2. CASE next > 1
    BY <2>2, <1>1, <1>7, FileFacts DEF Complete
  <2> QED BY <1>1, <2>1, <2>2
<1>11. RunJsonIsNewest'
  <2> SUFFICES ASSUME NEW d \in Dirs, NEW file \in FileNames
               PROVE  /\ disk'[d][file].writer <= disk'[d]["run"].writer
                      /\ disk'[d][file].whole /\ disk'[d]["run"].whole
                            /\ disk'[d][file].writer = disk'[d]["run"].writer
                           => disk'[d][file].state = disk'[d]["run"].state
    BY DEF RunJsonIsNewest
  <2>1. CASE d = runDir
    BY <2>1, <1>1, <1>6, <1>8, <1>10
  <2>2. CASE d # runDir
    <3>1. disk'[d][file] = disk[d][file] /\ disk'[d]["run"] = disk[d]["run"]
      BY <2>2, <1>1, <1>2
    <3> QED BY <3>1 DEF DiskInv, RunJsonIsNewest
  <2> QED BY <2>1, <2>2
<1> QED BY <1>2, <1>6, <1>7, <1>8, <1>9, <1>11 DEF DiskKept

LEMMA DiskStepKeeps ==
    ASSUME DiskInv, pc = "writing", next <= LastFile, DiskStep
    PROVE  DiskKept
<1>1. command # 0 /\ TypeOK
  BY DEF DiskInv, WritesInTurn
<1>2. /\ Complete \in Content
      /\ \A lines \in LinesLeft :
            Torn(lines) \in Content /\ Torn(lines).writer = command /\ ~Torn(lines).whole
  BY <1>1, ContentsWritten
<1>3. CASE UNCHANGED disk
  BY <1>3 DEF DiskInv, DiskKept, TypeOK, RunJsonIsNewest, Unwritten, WritesInTurn, WrittenAgrees
<1>4. CASE Store(Complete)
  <2>1. Complete.writer = command /\ Complete.state = state
    BY DEF Complete
  <2> QED BY <1>2, <1>4, <2>1, StoreKeeps
<1>5. ASSUME NEW lines \in LinesLeft, Store(Torn(lines))
      PROVE  DiskKept
  BY <1>2, <1>5, StoreKeeps
<1> QED BY <1>3, <1>4, <1>5 DEF DiskStep

(* A write leaves the log in the event file behind the one in memory, and the chains in order. *)
LEMMA DiskStepKeepsChains ==
    ASSUME DiskInv, ChainInv, pc = "writing", next <= LastFile, DiskStep
    PROVE  /\ \A d \in Dirs : chain[d] /\ disk'[d]["run"].whole
                 => IsPrefix(disk'[d]["tool_events"].state.log, disk'[d]["run"].state.log)
           /\ chain[runDir] => IsPrefix(disk'[runDir]["tool_events"].state.log, state.log)
<1> DEFINE TE == disk[runDir]["tool_events"]
           TEn == disk'[runDir]["tool_events"]
<1>1. /\ next \in 1..5 /\ runDir \in Dirs /\ TypeOK /\ command # 0
      /\ {"run", "tool_events"} \subseteq FileNames /\ "run" # "tool_events"
      /\ Files[1] = "run" /\ Files[2] = "tool_events"
      /\ \A i, j \in 1..5 : Files[i] = Files[j] => i = j
  BY FileFacts DEF DiskInv, TypeOK, WritesInTurn
<1>2. /\ Complete \in Content
      /\ \A lines \in LinesLeft :
            /\ Torn(lines) \in Content /\ ~Torn(lines).whole
            /\ IsPrefix(Torn(lines).state.log, state.log)
  BY <1>1, ContentsWritten
<1>3. IsPrefix(state.log, state.log)
  BY <1>1, PrefixTrivial DEF TypeOK, RunState
<1>4. chain[runDir] => IsPrefix(TE.state.log, state.log)
  BY DEF ChainInv, ChainInMemory
<1>5. CASE UNCHANGED disk
  BY <1>5, <1>4 DEF ChainInv, ChainOnDisk
<1>6. ASSUME NEW c \in Content, Store(c), IsPrefix(c.state.log, state.log),
             c.whole => c = Complete
      PROVE  /\ \A d \in Dirs : chain[d] /\ disk'[d]["run"].whole
                   => IsPrefix(disk'[d]["tool_events"].state.log, disk'[d]["run"].state.log)
             /\ chain[runDir] => IsPrefix(TEn.state.log, state.log)
  <2>1. /\ disk'[runDir][Files[next]] = c
        /\ \A d \in Dirs, file \in FileNames :
              ~(d = runDir /\ file = Files[next]) => disk'[d][file] = disk[d][file]
    BY <1>1, <1>6, StoreEffect
  <2>2. chain[runDir] => IsPrefix(TEn.state.log, state.log)
    BY <1>1, <1>4, <1>6, <2>1
  <2>3. ASSUME NEW d \in Dirs, d # runDir
        PROVE  chain[d] /\ disk'[d]["run"].whole
                 => IsPrefix(disk'[d]["tool_events"].state.log, disk'[d]["run"].state.log)
    <3>1. /\ disk'[d]["run"] = disk[d]["run"]
          /\ disk'[d]["tool_events"] = disk[d]["tool_events"]
      BY <1>1, <2>1, <2>3
    <3> QED BY <3>1 DEF ChainInv, ChainOnDisk
  <2>4. ASSUME chain[runDir], disk'[runDir]["run"].whole
        PROVE  IsPrefix(TEn.state.log, disk'[runDir]["run"].state.log)
    <3>1. CASE next = 1
      <4>1. disk'[runDir]["run"] = Complete
        BY <3>1, <1>1, <1>6, <2>1, <2>4
      <4> QED BY <4>1, <2>2, <2>4 DEF Complete
    <3>2. CASE next > 1
      <4>1. disk[runDir]["run"] = Complete
        BY <3>2, <1>1, FileFacts DEF DiskInv, WrittenAgrees
      <4>2. disk'[runDir]["run"] = Complete
        BY <3>2, <4>1, <1>1, <2>1
      <4> QED BY <4>2, <2>2, <2>4 DEF Complete
    <3> QED BY <1>1, <3>1, <3>2
  <2> QED BY <2>2, <2>3, <2>4
<1>7. CASE Store(Complete)
  BY <1>2, <1>3, <1>6, <1>7 DEF Complete
<1>8. ASSUME NEW lines \in LinesLeft, Store(Torn(lines))
      PROVE  /\ \A d \in Dirs : chain[d] /\ disk'[d]["run"].whole
                   => IsPrefix(disk'[d]["tool_events"].state.log, disk'[d]["run"].state.log)
             /\ chain[runDir] => IsPrefix(TEn.state.log, state.log)
  BY <1>2, <1>6, <1>8
<1> QED BY <1>5, <1>7, <1>8 DEF DiskStep
-----------------------------------------------------------------------------
(* What a command does when it is not writing leaves the disk alone. *)
LEMMA StartKeeps ==
    ASSUME DiskInv, ChainInv, NEW d \in Dirs, StartFresh(d) \/ \E from \in Dirs : StartReplay(d, from)
    PROVE  (DiskInv /\ ChainInv)'
<1>1. /\ TypeOK /\ command \in Nat /\ command + 1 \in Commands
      /\ {"run", "tool_events"} \subseteq FileNames
      /\ NewState \in RunState
  BY FileFacts, EmptySeq, BoundsAssumption
  DEF DiskInv, TypeOK, Commands, StartFresh, StartReplay, StartCommand, NewState, RunState
<1>2. /\ pc' = "running" /\ command' = command + 1 /\ runDir' = d /\ saved' = FALSE
      /\ UNCHANGED <<disk, next, fatal>>
  BY DEF StartFresh, StartReplay, StartCommand
<1>3. ASSUME NEW s \in RunState, NEW own \in BOOLEAN, StartCommand(d, s, own),
             own => /\ disk[d]["run"].whole
                    /\ s = disk[d]["run"].state
      PROVE  (DiskInv /\ ChainInv)'
  <2>1. /\ state' = s
        /\ chain' = [chain EXCEPT ![d] = IF own THEN @ ELSE Unused(d)]
    BY <1>3 DEF StartCommand
  <2>2. TypeOK'
    <3>1. Unused(d) \in BOOLEAN
      BY DEF Unused
    <3> QED BY <1>1, <1>2, <1>3, <2>1, <3>1 DEF TypeOK
  <2>3. RunJsonIsNewest' /\ Unwritten' /\ WrittenAgrees'
    BY <1>2 DEF DiskInv, RunJsonIsNewest, Unwritten, WrittenAgrees
  <2>4. WritesInTurn'
    <3>1. \A e \in Dirs, file \in FileNames :
             disk[e][file].writer \in Nat /\ disk[e][file].writer <= command
      BY <1>1 DEF DiskInv, WritesInTurn, TypeOK, Content, Commands
    <3> QED BY <1>1, <1>2, <3>1 DEF WritesInTurn
  <2>5. \A e \in Dirs : chain'[e] => chain[e] \/ (e = d /\ Unused(d))
    BY <1>1, <2>1 DEF TypeOK
  <2>6. Unused(d) => /\ ~disk[d]["run"].whole
                     /\ disk[d]["tool_events"].state.log = <<>>
    BY <1>1 DEF Unused, Exists, DiskInv, Unwritten, NoFile, NewState
  <2>7. ChainOnDisk'
    BY <1>2, <2>5, <2>6 DEF ChainInv, ChainOnDisk
  <2>8. ChainInMemory'
    <3>1. s.log \in Seq(Commands)
      BY DEF RunState
    <3>2. CASE own /\ chain[d]
      BY <1>2, <1>3, <2>1, <3>2 DEF ChainInv, ChainOnDisk, ChainInMemory
    <3>3. CASE Unused(d)
      <4>1. IsPrefix(disk[d]["tool_events"].state.log, s.log)
        BY <2>6, <3>1, <3>3, PrefixTrivial
      <4> QED BY <1>2, <2>1, <4>1 DEF ChainInMemory
    <3>4. CASE ~(own /\ chain[d]) /\ ~Unused(d)
      <4>1. chain'[d] = IF own THEN chain[d] ELSE Unused(d)
        BY <1>1, <2>1 DEF TypeOK
      <4>2. ~chain'[d]
        BY <3>4, <4>1
      <4> QED BY <1>2, <4>2 DEF ChainInMemory
    <3> QED BY <3>2, <3>3, <3>4
  <2> QED BY <2>2, <2>3, <2>4, <2>7, <2>8 DEF DiskInv, ChainInv
<1>4. CASE StartFresh(d)
  <2>1. StartCommand(d, NewState, FALSE)
    BY <1>4 DEF StartFresh
  <2> QED BY <1>1, <1>3, <2>1
<1>5. ASSUME NEW from \in Dirs, StartReplay(d, from)
      PROVE  (DiskInv /\ ChainInv)'
  <2>1. disk[from]["run"].state \in RunState
    BY <1>1 DEF TypeOK, Content
  <2>2. /\ disk[from]["run"].whole
        /\ StartCommand(d, disk[from]["run"].state, from = d)
    BY <1>5 DEF StartReplay
  <2> QED BY <2>1, <2>2, <1>3
<1> QED BY <1>4, <1>5

LEMMA RunningKeeps ==
    ASSUME DiskInv, ChainInv, LogCall \/ DecideVerdict \/ BeginPersist
    PROVE  (DiskInv /\ ChainInv)'
<1>1. /\ TypeOK /\ pc = "running" /\ state.log \in Seq(Commands) /\ state.verdict \in Commands \cup {0}
      /\ command \in Commands /\ runDir \in Dirs /\ "tool_events" \in FileNames
      /\ disk[runDir]["tool_events"].state.log \in Seq(Commands)
      /\ UNCHANGED <<disk, command, runDir, saved, chain>>
  BY FileFacts DEF DiskInv, WritesInTurn, TypeOK, RunState, Content, LogCall, DecideVerdict, BeginPersist
<1>2. RunJsonIsNewest' /\ Unwritten' /\ ChainOnDisk'
  BY <1>1 DEF DiskInv, ChainInv, RunJsonIsNewest, Unwritten, ChainOnDisk
<1>3. CASE LogCall \/ DecideVerdict
  <2>1. /\ state'.log = Append(state.log, command)
        /\ state'.verdict \in Commands \cup {0}
        /\ state' = [log |-> Append(state.log, command), verdict |-> state'.verdict]
        /\ UNCHANGED <<pc, next, fatal>>
    <3>1. state = [log |-> state.log, verdict |-> state.verdict]
      BY <1>1 DEF TypeOK, RunState
    <3> QED BY <1>1, <1>3, <3>1 DEF LogCall, DecideVerdict
  <2>2. Append(state.log, command) \in Seq(Commands)
    BY <1>1, AppendProperties
  <2>3. TypeOK'
    BY <1>1, <2>1, <2>2 DEF TypeOK, RunState
  <2>4. WritesInTurn' /\ WrittenAgrees'
    BY <1>1, <2>1 DEF DiskInv, WritesInTurn, WrittenAgrees
  <2>5. ChainInMemory'
    <3>1. ASSUME chain[runDir]
          PROVE  IsPrefix(disk[runDir]["tool_events"].state.log, Append(state.log, command))
      <4>1. IsPrefix(disk[runDir]["tool_events"].state.log, state.log)
        BY <1>1, <3>1 DEF ChainInv, ChainInMemory
      <4> QED BY <1>1, <4>1, PrefixOfAppend
    <3> QED BY <1>1, <2>1, <3>1 DEF ChainInMemory
  <2> QED BY <1>2, <2>3, <2>4, <2>5 DEF DiskInv, ChainInv
<1>4. CASE BeginPersist
  <2>1. pc' = "writing" /\ next' = 1 /\ fatal' \in BOOLEAN /\ UNCHANGED state
    BY <1>4 DEF BeginPersist
  <2>2. TypeOK'
    BY <1>1, <2>1, FileFacts DEF TypeOK
  <2>3. WritesInTurn'
    BY <1>1, <2>1 DEF DiskInv, WritesInTurn
  <2>4. WrittenAgrees'
    BY <1>1, <2>1 DEF DiskInv, WritesInTurn, WrittenAgrees
  <2>5. ChainInMemory'
    BY <1>1, <2>1 DEF ChainInv, ChainInMemory
  <2> QED BY <1>2, <2>2, <2>3, <2>4, <2>5 DEF DiskInv, ChainInv
<1> QED BY <1>3, <1>4

(* The locals of a command that has exited. *)
LEMMA ExitTyped ==
    ASSUME Exit
    PROVE  /\ state' \in RunState
           /\ pc' \in {"idle", "running", "writing"}
           /\ next' \in 1..(Len(Files) + 1)
           /\ fatal' \in BOOLEAN
<1>1. NewState \in RunState
  BY EmptySeq DEF NewState, RunState
<1>2. state' \in RunState /\ pc' \in {"idle", "running", "writing"}
  BY <1>1 DEF Exit
<1>3. next' \in 1..(Len(Files) + 1)
  BY FileFacts DEF Exit
<1>4. fatal' \in BOOLEAN
  BY Zenon DEF Exit
<1> QED BY <1>2, <1>3, <1>4

(* A command that writes goes on, starts again at the first file, or exits. *)
LEMMA WritingKeeps ==
    ASSUME DiskInv, ChainInv, pc = "writing", next <= LastFile, DiskStep,
           UNCHANGED <<command, runDir, saved, chain>>,
           \/ /\ UNCHANGED <<state, pc>>
              /\ fatal' \in BOOLEAN
              /\ \/ next' = 1
                 \/ next' = next + 1 /\ disk'[runDir][Files[next]] = Complete
           \/ Exit
    PROVE  (DiskInv /\ ChainInv)'
<1>1. DiskKept
  BY DiskStepKeeps
<1>2. /\ \A d \in Dirs : chain[d] /\ disk'[d]["run"].whole
            => IsPrefix(disk'[d]["tool_events"].state.log, disk'[d]["run"].state.log)
      /\ chain[runDir] => IsPrefix(disk'[runDir]["tool_events"].state.log, state.log)
  BY DiskStepKeepsChains
<1>3. RunJsonIsNewest' /\ Unwritten' /\ ChainOnDisk'
  BY <1>1, <1>2 DEF DiskKept, ChainOnDisk
<1>4. next \in 1..5 /\ TypeOK /\ command # 0 /\ LastFile \in {4, 5} /\ Len(Files) = 5
  BY FileFacts DEF DiskInv, WritesInTurn, TypeOK
<1>5. CASE Exit
  <2>2. TypeOK'
    BY <1>1, <1>4, <1>5, ExitTyped DEF TypeOK, DiskKept
  <2>3. WritesInTurn' /\ WrittenAgrees' /\ ChainInMemory'
    BY <1>1, <1>5 DEF Exit, DiskKept, WritesInTurn, WrittenAgrees, ChainInMemory
  <2> QED BY <1>3, <2>2, <2>3 DEF DiskInv, ChainInv
<1>6. CASE /\ UNCHANGED <<state, pc>>
           /\ fatal' \in BOOLEAN
           /\ \/ next' = 1
              \/ next' = next + 1 /\ disk'[runDir][Files[next]] = Complete
  <2>1. TypeOK'
    BY <1>1, <1>4, <1>6 DEF TypeOK, DiskKept
  <2>2. WritesInTurn'
    BY <1>1, <1>4, <1>6 DEF DiskKept, WritesInTurn
  <2>3. WrittenAgrees'
    <3>1. Complete' = Complete
      BY <1>6 DEF Complete
    <3>2. \A i \in 1..Len(Files) : i < next' => disk'[runDir][Files[i]] = Complete
      BY <1>1, <1>4, <1>6 DEF DiskKept
    <3> QED BY <1>1, <1>6, <3>1, <3>2 DEF DiskKept, WrittenAgrees
  <2>4. ChainInMemory'
    BY <1>2, <1>6 DEF ChainInMemory
  <2> QED BY <1>3, <2>1, <2>2, <2>3, <2>4 DEF DiskInv, ChainInv
<1> QED BY <1>5, <1>6

(* Having written all, the command exits, and its directory starts a chain. *)
LEMMA EndKeeps ==
    ASSUME DiskInv, ChainInv, EndPersist
    PROVE  (DiskInv /\ ChainInv)'
<1>1. /\ pc = "writing" /\ next > LastFile /\ Exit /\ saved' = TRUE
      /\ chain' = [chain EXCEPT ![runDir] = TRUE]
      /\ UNCHANGED <<disk, command, runDir>>
  BY DEF EndPersist
<1>2. /\ TypeOK /\ LastFile \in {4, 5} /\ Len(Files) = 5
      /\ Files[1] = "run" /\ Files[2] = "tool_events" /\ next \in 1..6
  BY FileFacts DEF DiskInv, TypeOK
<1>3. saved' \in BOOLEAN /\ chain' \in [Dirs -> BOOLEAN]
  BY <1>1, <1>2 DEF TypeOK
<1>4. TypeOK'
  BY <1>1, <1>2, <1>3, ExitTyped DEF TypeOK
<1>5. RunJsonIsNewest' /\ Unwritten' /\ WritesInTurn' /\ WrittenAgrees' /\ ChainInMemory'
  BY <1>1 DEF DiskInv, Exit, RunJsonIsNewest, Unwritten, WritesInTurn, WrittenAgrees, ChainInMemory
<1>6. ChainOnDisk'
  <2>1. disk[runDir]["run"] = Complete /\ disk[runDir]["tool_events"] = Complete
    BY <1>1, <1>2 DEF DiskInv, WrittenAgrees
  <2>2. IsPrefix(state.log, state.log)
    BY <1>2, PrefixTrivial DEF TypeOK, RunState
  <2>3. \A d \in Dirs : d # runDir => chain'[d] = chain[d]
    BY <1>1, <1>2 DEF TypeOK
  <2> QED BY <1>1, <2>1, <2>2, <2>3 DEF ChainInv, ChainOnDisk, Complete
<1> QED BY <1>4, <1>5, <1>6 DEF DiskInv, ChainInv

(* A command that dies before it writes leaves the disk as it was. *)
LEMMA CrashKeeps ==
    ASSUME DiskInv, ChainInv, Crash
    PROVE  (DiskInv /\ ChainInv)'
<1>1. pc # "idle" /\ Exit /\ UNCHANGED <<command, runDir, saved, chain>>
  BY DEF Crash
<1>2. CASE UNCHANGED disk
  <2>2. TypeOK'
    BY <1>1, <1>2, ExitTyped DEF DiskInv, TypeOK
  <2>3. RunJsonIsNewest' /\ Unwritten' /\ WritesInTurn' /\ WrittenAgrees'
    BY <1>1, <1>2 DEF DiskInv, Exit, RunJsonIsNewest, Unwritten, WritesInTurn, WrittenAgrees
  <2>4. ChainOnDisk' /\ ChainInMemory'
    BY <1>1, <1>2 DEF ChainInv, Exit, ChainOnDisk, ChainInMemory
  <2> QED BY <2>2, <2>3, <2>4 DEF DiskInv, ChainInv
<1>3. CASE pc = "writing" /\ next <= LastFile /\ StopWriting
  <2>1. DiskStep
    BY <1>3 DEF StopWriting, DiskStep
  <2> QED BY <1>1, <1>3, <2>1, WritingKeeps
<1> QED BY <1>2, <1>3 DEF Crash

LEMMA InvariantStep == DiskInv /\ ChainInv /\ [Next]_vars => (DiskInv /\ ChainInv)'
<1> SUFFICES ASSUME DiskInv, ChainInv, [Next]_vars
             PROVE  (DiskInv /\ ChainInv)'
  OBVIOUS
<1>1. ASSUME NEW d \in Dirs, StartFresh(d) \/ \E from \in Dirs : StartReplay(d, from)
      PROVE  (DiskInv /\ ChainInv)'
  BY <1>1, StartKeeps
<1>2. CASE LogCall \/ DecideVerdict \/ BeginPersist
  BY <1>2, RunningKeeps
<1>3. CASE WriteFile
  <2>1. /\ pc = "writing" /\ next <= LastFile /\ Store(Complete) /\ next' = next + 1
        /\ UNCHANGED <<command, runDir, state, pc, fatal, saved, chain>>
    BY <1>3 DEF WriteFile
  <2>2. DiskStep
    BY <2>1 DEF DiskStep
  <2>3. disk'[runDir][Files[next]] = Complete
    BY <2>1, ContentsWritten, StoreEffect DEF DiskInv, WritesInTurn
  <2>4. fatal' \in BOOLEAN
    BY <2>1 DEF DiskInv, TypeOK
  <2> QED BY <2>1, <2>2, <2>3, <2>4, WritingKeeps
<1>4. CASE WriteFails
  <2>1. /\ pc = "writing" /\ next <= LastFile /\ StopWriting
        /\ UNCHANGED <<command, runDir, saved, chain>>
        /\ Exit \/ (next' = 1 /\ fatal' = TRUE /\ UNCHANGED <<state, pc>>)
    BY <1>4 DEF WriteFails
  <2>2. DiskStep
    BY <2>1 DEF StopWriting, DiskStep
  <2> QED BY <2>1, <2>2, WritingKeeps
<1>5. CASE EndPersist
  BY <1>5, EndKeeps
<1>6. CASE Crash
  BY <1>6, CrashKeeps
<1>7. CASE UNCHANGED vars
  BY <1>7
  DEF vars, DiskInv, ChainInv, TypeOK, RunJsonIsNewest, Unwritten, WritesInTurn, WrittenAgrees,
      Complete, ChainOnDisk, ChainInMemory
<1> QED BY <1>1, <1>2, <1>3, <1>4, <1>5, <1>6, <1>7 DEF Next

LEMMA InvariantInit == Init => DiskInv /\ ChainInv
<1> SUFFICES ASSUME Init
             PROVE  DiskInv /\ ChainInv
  OBVIOUS
<1>1. /\ NewState \in RunState /\ NoFile \in Content /\ NoFile.writer = 0 /\ ~NoFile.whole
      /\ 0 \in Commands \cup {0} /\ {"run", "tool_events"} \subseteq FileNames /\ Len(Files) = 5
  BY EmptySeq, FileFacts DEF NewState, RunState, NoFile, Content
<1>2. \A d \in Dirs, file \in FileNames : disk[d][file] = NoFile
  BY DEF Init
<1>3. TypeOK
  <2>1. /\ disk \in [Dirs -> [FileNames -> Content]] /\ command \in Commands \cup {0}
        /\ runDir \in Dirs /\ state \in RunState /\ next \in 1..(Len(Files) + 1)
    BY <1>1 DEF Init
  <2>2. /\ pc \in {"idle", "running", "writing"} /\ fatal \in BOOLEAN /\ saved \in BOOLEAN
        /\ chain \in [Dirs -> BOOLEAN]
    BY Zenon DEF Init
  <2> QED BY <2>1, <2>2 DEF TypeOK
<1>4. RunJsonIsNewest /\ Unwritten /\ WritesInTurn /\ WrittenAgrees
  BY <1>1, <1>2 DEF Init, RunJsonIsNewest, Unwritten, WritesInTurn, WrittenAgrees
<1>5. ChainOnDisk /\ ChainInMemory
  BY <1>1, <1>2 DEF Init, ChainOnDisk, ChainInMemory
<1> QED BY <1>3, <1>4, <1>5 DEF DiskInv, ChainInv

LEMMA InvariantHolds == Spec => [](DiskInv /\ ChainInv)
BY InvariantInit, InvariantStep, PTL DEF Spec
-----------------------------------------------------------------------------
(* Contents, run state and position are what they should be, and logs are sequences of commands. *)
THEOREM RunFilesTyped == Spec => []TypeOK
<1>1. DiskInv => TypeOK
  BY DEF DiskInv
<1> QED BY <1>1, InvariantHolds, PTL

(***************************************************************************)
(* Whatever crashed or failed before, in any number of commands, no file   *)
(* of a directory is ahead of the run.json a replay continues from.        *)
(***************************************************************************)
THEOREM RunJsonStaysNewest == Spec => []RunJsonIsNewest
<1>1. DiskInv => RunJsonIsNewest
  BY DEF DiskInv
<1> QED BY <1>1, InvariantHolds, PTL

(***************************************************************************)
(* A chain of replays reads in its directory's event log only calls its    *)
(* own run has made, however often it crashed, for logs of any length.     *)
(***************************************************************************)
THEOREM HistoryStaysOwn == Spec => []HistoryIsOwn
<1>1. ChainInv => HistoryIsOwn
  BY DEF ChainInv, ChainInMemory, HistoryIsOwn
<1> QED BY <1>1, InvariantHolds, PTL

(* A command that ends by itself has left all its files, of one and the same run state. *)
THEOREM SavedRunIsOnDisk == Spec => SavedIsOnDisk
<1> DEFINE AllWritten ==
      ~saved /\ saved' => \A i \in 1..LastFile : disk'[runDir][Files[i]] = Complete
<1>1. DiskInv /\ [Next]_vars => [AllWritten]_vars
  <2> SUFFICES ASSUME DiskInv, [Next]_vars, ~saved, saved'
               PROVE  AllWritten
    OBVIOUS
  <2>1. EndPersist
    BY DEF Next, vars, StartFresh, StartReplay, StartCommand, LogCall, DecideVerdict,
           BeginPersist, WriteFile, WriteFails, Crash
  <2>2. /\ LastFile \in {4, 5} /\ Len(Files) = 5 /\ next \in 1..6 /\ next > LastFile
        /\ pc = "writing" /\ UNCHANGED disk
    BY <2>1, FileFacts DEF DiskInv, TypeOK, EndPersist
  <2> QED BY <2>2 DEF DiskInv, WrittenAgrees
<1> QED BY <1>1, InvariantHolds, PTL DEF Spec, SavedIsOnDisk
=============================================================================
