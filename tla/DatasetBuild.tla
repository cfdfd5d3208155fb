---------------------------- MODULE DatasetBuild ----------------------------
(* kv-build: one agent, and so one WorkerManager with one queue and one event, searches
   for the kernels of problem after problem, and every result is saved as an entry of the
   dataset, over the entry the problem had (src/verifier/build_dataset.py, dataset.py).
   An entry counts as one when it has a meta.json.  The command may be stopped at any
   time, also by an exception of save_entry. *)
EXTENDS WorkerManager

VARIABLES
    builder,    \* where main is
    job,        \* the problem it is at
    written,    \* how many files of the entry were written
    entries     \* per problem and file, what is in the file

builderVars == <<builder, job, written, entries>>
buildVars == <<builder, job, written, entries, vars>>

Jobs == 1 .. MaxCalls

(* The files in the order save_entry writes them; problem.txt and the seeds are copied
   like the test.  error.txt is written only for a failure that left some output. *)
Files == <<"kernel.py", "test.py", "meta.json", "error.txt">>
FileNames == Range(Files)

(* A file of an earlier command is old; one that is being written is torn. *)
Content == {"none", "torn", "old", "new"}

NoEntry == [f \in FileNames |-> "none"]
WholeEntry == [f \in FileNames |-> "old"]

(* What an earlier command can leave: nothing, an entry, or one it was stopped in while
   it removed it. *)
Leftovers == {NoEntry, WholeEntry, [WholeEntry EXCEPT !["kernel.py"] = "none"]}

BuildTypeOK ==
    /\ TypeOK
    /\ builder \in {"ready", "searching", "removing", "saving", "stopped"}
    /\ job \in 0 .. MaxCalls
    /\ call <= job
    /\ written \in 0 .. Len(Files)
    /\ entries \in [Jobs -> [FileNames -> Content]]

BuildInit ==
    /\ Init
    /\ builder = "ready"
    /\ job = 0
    /\ written = 0
    /\ \E leftover \in Leftovers : entries = [j \in Jobs |-> leftover]

-----------------------------------------------------------------------------
(* The model is asked for a test and for seeds, and the search begins; or the generation
   raises, and the entry stays as it is. *)
Generate ==
    /\ builder = "ready"
    /\ job < MaxCalls
    /\ job' = job + 1
    /\ StartCall
    /\ builder' = "searching"
    /\ UNCHANGED <<written, entries>>

GenerationRaises ==
    /\ builder = "ready"
    /\ job < MaxCalls
    /\ job' = job + 1
    /\ UNCHANGED <<builder, written, entries, vars>>

(* The manager and its processes run; a terminated one may outlive the search. *)
Search ==
    /\ builder # "stopped"
    /\ Manage \/ \E w \in Workers : Work(w)
    /\ UNCHANGED builderVars

(* Mutant: the files are written over those of the entry. *)
SaveInPlace ==
    /\ builder = "searching"
    /\ manager = "returned"
    /\ builder' = "saving"
    /\ written' = 0
    /\ UNCHANGED <<job, entries, vars>>

(* save_entry, for a kernel that passed and for the best of those that failed. *)
BeginSave ==
    /\ builder = "searching"
    /\ manager = "returned"
    /\ builder' = "removing"
    /\ written' = 0
    /\ UNCHANGED <<job, entries, vars>>

(* rmtree takes the files as the directory lists them. *)
RemoveFile ==
    /\ builder = "removing"
    /\ \E f \in FileNames :
           /\ entries[job][f] # "none"
           /\ entries' = [entries EXCEPT ![job][f] = "none"]
    /\ UNCHANGED <<builder, job, written, vars>>

MakeDirectory ==
    /\ builder = "removing"
    /\ entries[job] = NoEntry
    /\ builder' = "saving"
    /\ UNCHANGED <<job, written, entries, vars>>

(* Opening a file empties it, then it is filled. *)
OpenFile ==
    /\ builder = "saving"
    /\ written < Len(Files)
    /\ entries[job][Files[written + 1]] # "torn"
    /\ Files[written + 1] = "error.txt" => winner = NoResult
    /\ entries' = [entries EXCEPT ![job][Files[written + 1]] = "torn"]
    /\ UNCHANGED <<builder, job, written, vars>>

FillFile ==
    /\ builder = "saving"
    /\ written < Len(Files)
    /\ entries[job][Files[written + 1]] = "torn"
    /\ entries' = [entries EXCEPT ![job][Files[written + 1]] = "new"]
    /\ written' = written + 1
    /\ UNCHANGED <<builder, job, vars>>

(* A kernel that passed has no error.txt, one that failed only if its test said a thing. *)
EndSave ==
    /\ builder = "saving"
    /\ written >= Len(Files) - 1
    /\ entries[job]["error.txt"] # "torn"
    /\ builder' = "ready"
    /\ UNCHANGED <<job, written, entries, vars>>

EndCommand ==
    /\ builder = "ready"
    /\ job = MaxCalls
    /\ builder' = "stopped"
    /\ UNCHANGED <<job, written, entries, vars>>

(* The command is killed, or a file cannot be removed or written. *)
Crash ==
    /\ builder # "stopped"
    /\ builder' = "stopped"
    /\ UNCHANGED <<job, written, entries, vars>>

-----------------------------------------------------------------------------
Build ==
    \/ Generate
    \/ GenerationRaises
    \/ BeginSave
    \/ RemoveFile
    \/ MakeDirectory
    \/ OpenFile
    \/ FillFile
    \/ EndSave
    \/ EndCommand

BuildNext == Build \/ Search \/ Crash

BuildSpec == BuildInit /\ [][BuildNext]_buildVars

(* As in FairSpec; nothing forces a crash. *)
FairBuildSpec ==
    /\ BuildSpec
    /\ WF_buildVars(Build)
    /\ WF_buildVars(Search /\ Manage)
    /\ \A w \in Workers : WF_buildVars(Search /\ Work(w))

-----------------------------------------------------------------------------
(* meta.json is what makes a directory an entry, and it holds the verdict of the tests on
   the kernel beside it.  Whenever the command is stopped, it is never beside a kernel, a
   test or an error of another build, and a new one is never beside a kernel or a test
   that is missing or torn. *)
EntryIsOfOneBuild ==
    \A j \in Jobs : \A f \in FileNames :
        /\ entries[j]["meta.json"] = "old" => entries[j][f] \in {"none", "old"}
        /\ entries[j]["meta.json"] = "new" =>
              \/ entries[j][f] = "new"
              \/ f = "error.txt" /\ entries[j][f] \in {"none", "torn"}

(* The command comes to its end, whatever raises in it, except that a search does not
   return when a terminated worker has left half a result in the queue, be it a worker of
   an earlier problem. *)
BuildEnds == <>(builder = "stopped" \/ Torn)
=============================================================================
