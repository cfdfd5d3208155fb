---------------------------- MODULE RunDirectory ----------------------------
(***************************************************************************)
(* The files of run directories, over several commands, one at a time      *)
(* (verifier/agentic/persistence.py, _run_one_entry in agentic_run.py).    *)
(*                                                                         *)
(* A command keeps its run state in memory and writes it when its loop has *)
(* returned or raised, one file after the other, each truncated and then   *)
(* filled.  The process may die at any time; a write may fail.             *)
(***************************************************************************)
EXTENDS Integers, SequencesExt

CONSTANTS
    Dirs,        \* the run directories in use
    MaxCommands, \* bound on the commands ever started
    MaxLog       \* bound on the length of a run's event log

ASSUME BoundsAssumption == MaxCommands \in Nat /\ MaxLog \in Nat

(* Mutant: the event log is written before run.json, which a replay continues from. *)
FilesEventsFirst == <<"tool_events", "run", "claims", "transcript", "verdict">>

(* In the order persist_run writes them; the last one only with a verdict. *)
Files == <<"run", "tool_events", "claims", "transcript", "verdict">>
FileNames == ToSet(Files)

VARIABLES
    disk,    \* the contents of each directory
    command, \* number of the command running, or last run
    runDir,  \* where it writes
    state,   \* its run state
    pc,      \* "idle", "running" or "writing"
    next,    \* the file persist_run writes next
    fatal,   \* the run state is being written because something raised
    saved,   \* the last command has ended with all written
    chain    \* see below

vars == <<disk, command, runDir, state, pc, next, fatal, saved, chain>>

Commands == 1..MaxCommands

(***************************************************************************)
(* Of a run state, the log and the verdict, told apart by the commands     *)
(* that made them: two events with one id are not one event.               *)
(***************************************************************************)
NewState == [log |-> <<>>, verdict |-> 0]
RunState == [log : Seq(Commands), verdict : Commands \cup {0}]

(* A file holds what of a run state its writer put there, whole or torn. *)
Content == [writer : Commands \cup {0}, whole : BOOLEAN, state : RunState]
NoFile == [writer |-> 0, whole |-> FALSE, state |-> NewState]

Exists(d, file) == disk[d][file].writer # 0
Unused(d) == \A file \in FileNames : ~Exists(d, file)

Init ==
    /\ disk = [d \in Dirs |-> [file \in FileNames |-> NoFile]]
    /\ command = 0
    /\ runDir \in Dirs
    /\ state = NewState
    /\ pc = "idle"
    /\ next = 1
    /\ fatal = FALSE
    /\ saved = FALSE
    /\ chain = [d \in Dirs |-> TRUE]
-----------------------------------------------------------------------------
(***************************************************************************)
(* chain is not in the code.  It is TRUE of a directory in which, since it *)
(* was unused or last written in full, only replays of its own run were    *)
(* started.                                                                *)
(***************************************************************************)
StartCommand(d, initial, ownRun) ==
    /\ pc = "idle"
    /\ command < MaxCommands
    /\ pc' = "running"
    /\ command' = command + 1
    /\ runDir' = d
    /\ state' = initial
    /\ saved' = FALSE
    /\ chain' = [chain EXCEPT ![d] = IF ownRun THEN @ ELSE Unused(d)]
    /\ UNCHANGED <<disk, next, fatal>>

StartFresh(d) == StartCommand(d, NewState, FALSE)

(***************************************************************************)
(* --replay-run names the run.json of any directory; the command writes to *)
(* the one --run-dir names, or else the agents, as a fresh run does.       *)
(* load_run_state raises at a file that is missing or torn, before         *)
(* anything is written.                                                    *)
(***************************************************************************)
StartReplay(d, from) ==
    /\ disk[from]["run"].whole
    /\ StartCommand(d, disk[from]["run"].state, from = d)

LogCall ==
    /\ pc = "running"
    /\ Len(state.log) < MaxLog
    /\ state' = [state EXCEPT !.log = Append(@, command)]
    /\ UNCHANGED <<disk, command, runDir, pc, next, fatal, saved, chain>>

DecideVerdict ==
    /\ pc = "running"
    /\ Len(state.log) < MaxLog
    /\ state' = [log |-> Append(state.log, command), verdict |-> command]
    /\ UNCHANGED <<disk, command, runDir, pc, next, fatal, saved, chain>>

(* The loop has returned, or an agent has raised: the state is written either way. *)
BeginPersist ==
    /\ pc = "running"
    /\ pc' = "writing"
    /\ next' = 1
    /\ fatal' \in BOOLEAN
    /\ UNCHANGED <<disk, command, runDir, state, saved, chain>>
-----------------------------------------------------------------------------
(* persist_run *)

Complete == [writer |-> command, whole |-> TRUE, state |-> state]

(***************************************************************************)
(* A torn file cannot be read as JSON, but a tool_events.jsonl that was    *)
(* torn between two lines can, line by line.                               *)
(***************************************************************************)
Torn(lines) ==
    [writer |-> command, whole |-> FALSE,
     state  |-> [log |-> SubSeq(state.log, 1, lines), verdict |-> 0]]

LinesLeft == IF Files[next] = "tool_events" THEN 0..Len(state.log) ELSE {0}

Store(content) == disk' = [disk EXCEPT ![runDir][Files[next]] = content]

LastFile == IF state.verdict = 0 THEN Len(Files) - 1 ELSE Len(Files)

WriteFile ==
    /\ pc = "writing"
    /\ next <= LastFile
    /\ Store(Complete)
    /\ next' = next + 1
    /\ UNCHANGED <<command, runDir, state, pc, fatal, saved, chain>>

(* The process ends, and with it what is not on the disk. *)
Exit ==
    /\ pc' = "idle"
    /\ state' = NewState
    /\ next' = 1
    /\ fatal' = FALSE

EndPersist ==
    /\ pc = "writing"
    /\ next > LastFile
    /\ Exit
    /\ saved' = TRUE
    /\ chain' = [chain EXCEPT ![runDir] = TRUE]
    /\ UNCHANGED <<disk, command, runDir>>

StopWriting == \/ UNCHANGED disk
               \/ \E lines \in LinesLeft : Store(Torn(lines))

(* Mutant: the second attempt goes on behind the file that failed. *)
WriteFailsAndSkips ==
    /\ pc = "writing"
    /\ next <= LastFile
    /\ StopWriting
    /\ IF fatal
       THEN Exit
       ELSE next' = next + 1 /\ fatal' = TRUE /\ UNCHANGED <<state, pc>>
    /\ UNCHANGED <<command, runDir, saved, chain>>

(***************************************************************************)
(* The write raises.  The first time that is caught like an error of the   *)
(* run itself, and all files are written again; then the command gives up. *)
(***************************************************************************)
WriteFails ==
    /\ pc = "writing"
    /\ next <= LastFile
    /\ StopWriting
    /\ IF fatal
       THEN Exit
       ELSE next' = 1 /\ fatal' = TRUE /\ UNCHANGED <<state, pc>>
    /\ UNCHANGED <<command, runDir, saved, chain>>

(* The process is killed, between two steps or in the middle of a write. *)
Crash ==
    /\ pc # "idle"
    /\ UNCHANGED disk \/ (pc = "writing" /\ next <= LastFile /\ StopWriting)
    /\ Exit
    /\ UNCHANGED <<command, runDir, saved, chain>>

Next ==
    \/ \E d \in Dirs : StartFresh(d) \/ \E from \in Dirs : StartReplay(d, from)
    \/ LogCall \/ DecideVerdict
    \/ BeginPersist \/ WriteFile \/ WriteFails \/ EndPersist
    \/ Crash

Spec == Init /\ [][Next]_vars
-----------------------------------------------------------------------------
TypeOK ==
    /\ disk \in [Dirs -> [FileNames -> Content]]
    /\ command \in Commands \cup {0}
    /\ runDir \in Dirs
    /\ state \in RunState
    /\ pc \in {"idle", "running", "writing"}
    /\ next \in 1..(Len(Files) + 1)
    /\ fatal \in BOOLEAN
    /\ saved \in BOOLEAN
    /\ chain \in [Dirs -> BOOLEAN]

(***************************************************************************)
(* Whatever crashed before, no file of a directory is of a later command   *)
(* than run.json, the one a replay continues from (persist_run writes it   *)
(* first), and whole files of one command agree on its run.                *)
(***************************************************************************)
RunJsonIsNewest ==
    \A d \in Dirs, file \in FileNames :
        /\ disk[d][file].writer <= disk[d]["run"].writer
        /\ disk[d][file].whole /\ disk[d]["run"].whole
              /\ disk[d][file].writer = disk[d]["run"].writer
             => disk[d][file].state = disk[d]["run"].state

(***************************************************************************)
(* While a chain of replays uses its directory, what                       *)
(* retrieve_experiment_history reads there (tools/history.py) are calls    *)
(* the run itself has made, under their own ids, crashes and torn files    *)
(* included.  Anywhere else they may be another run's.                     *)
(***************************************************************************)
HistoryIsOwn ==
    pc = "running" /\ chain[runDir]
       => IsPrefix(disk[runDir]["tool_events"].state.log, state.log)

(***************************************************************************)
(* A command that ends by itself has left its run on the disk, all of it,  *)
(* even if the first attempt to write it failed half-way.                  *)
(***************************************************************************)
SavedIsOnDisk ==
    [][~saved /\ saved' => \A i \in 1..LastFile : disk'[runDir][Files[i]] = Complete]_vars
=============================================================================
