---------------------------- MODULE FieldOutput ----------------------------
(***************************************************************************)
(* io/field_io.cpp, io/xdmf.cpp and io/field_data.cpp: what a dump does to *)
(* the output directory, one open or close of a file at a time.  A run may *)
(* be killed between any two of these steps, the device may refuse a write *)
(* (no result of save_file or of an ofstream is looked at), and the same   *)
(* directory may be used by several runs, each of which starts at step 0.  *)
(***************************************************************************)
EXTENDS Schedule, Sequences

CONSTANTS
  OutConfigs,   \* the "io" tables a run may be given, with its step size
  LastStep,     \* bound: steps a run takes
  MaxRuns,      \* bound: runs in the same directory
  MaxFaults     \* bound: refused writes

ASSUME FieldOutputAssumption ==
  /\ LastStep \in Nat /\ MaxRuns \in Nat \ {0} /\ MaxFaults \in Nat
  /\ OutConfigs \subseteq [everyStep : Nat \cup {Absent},
                           everyTime : Nat \cup {Absent}, dt : Nat]

(* io_names of heat and scalar_wave. *)
Names == <<"U", "Error">>

(* A file is a name and a dump number; index and geometry have number 0. *)
Index == <<"view.xmf", 0>>
Geometry == <<<<"rx", 0>>, <<"ry", 0>>, <<"rz", 0>>>>
DataFiles(n) == [i \in 1 .. Len(Names) |-> <<Names[i], n>>]
Files == {Index} \cup {Geometry[i] : i \in 1 .. 3}
         \cup {<<Names[i], n>> : i \in 1 .. Len(Names), n \in 0 .. LastStep}

VARIABLES
  run,      \* which run is using the directory
  lua,      \* its configuration
  ctrl,     \* its step and time
  sched,    \* its d_interval
  pc,       \* "idle" between calls of write, "writing" inside one, or ended
  todo,     \* what is left of the call, in order
  opened,   \* the file at the head of todo has been truncated
  doc,      \* the pugi document of the call
  disk,     \* file -> contents
  failed,   \* history: the writes the device refused
  faults    \* number of refused writes

outVars == <<run, lua, ctrl, sched, pc, todo, opened, doc, disk, failed, faults>>

(* Contents: who wrote it, the step it shows, whether it was closed, and   *)
(* for the index the (dump, step) of each grid it lists.                   *)
NoFile == [run |-> 0, step |-> 0, whole |-> FALSE, grids |-> <<>>]
Whole(grids) == [run |-> run, step |-> ctrl.step, whole |-> TRUE, grids |-> grids]
Torn == [Whole(<<>>) EXCEPT !.whole = FALSE]

StepSize == IF ctrl.step = 0 THEN 0 ELSE lua.dt

(* Fault: dumps are numbered by the step. *)
Dump_Step == ctrl.step
Dump == sched.ndumps

Save(f) == [do |-> "save", file |-> f]
Load == [do |-> "load", file |-> Index]
Saves(fs) == [i \in 1 .. Len(fs) |-> Save(fs[i])]

(* Fault: the data is written before the index. *)
Plan_IndexLast(n) ==
  (IF n = 0 THEN Saves(Geometry) ELSE <<>>) \o Saves(DataFiles(n))
  \o (IF n = 0 THEN <<Save(Index)>> ELSE <<>>) \o <<Load, Save(Index)>>

(* field_io::write: xdmf::write, which creates the index at dump 0, loads  *)
(* it and saves it with one more grid; the geometry at dump 0; the fields. *)
Plan(n) ==
  (IF n = 0 THEN <<Save(Index)>> ELSE <<>>) \o <<Load, Save(Index)>>
  \o (IF n = 0 THEN Saves(Geometry) ELSE <<>>) \o Saves(DataFiles(n))

StartRun ==
  /\ lua' \in OutConfigs
  /\ ctrl' = [step |-> 0, time |-> 0]
  /\ sched' = NewSchedule
  /\ pc' = "idle" /\ todo' = <<>> /\ opened' = FALSE
  /\ doc' = NoFile

OutInit ==
  /\ run = 1
  /\ lua \in OutConfigs
  /\ ctrl = [step |-> 0, time |-> 0]
  /\ sched = NewSchedule
  /\ pc = "idle" /\ todo = <<>> /\ opened = FALSE
  /\ doc = NoFile
  /\ disk = [f \in Files |-> NoFile]
  /\ failed = {} /\ faults = 0

NextCall == [step |-> ctrl.step + 1, time |-> ctrl.time + lua.dt]

-----------------------------------------------------------------------------
(* The schedule says no: write returns false and the run takes a step. *)
Skip ==
  /\ pc = "idle" /\ ctrl.step <= LastStep
  /\ ~Fires(sched, lua, ctrl, StepSize)
  /\ ctrl' = NextCall
  /\ UNCHANGED <<run, lua, sched, pc, todo, opened, doc, disk, failed, faults>>

Begin ==
  /\ pc = "idle" /\ ctrl.step <= LastStep
  /\ Fires(sched, lua, ctrl, StepSize)
  /\ todo' = Plan(Dump)
  /\ pc' = "writing"
  /\ UNCHANGED <<run, lua, ctrl, sched, opened, doc, disk, failed, faults>>

(* Fault: an index that cannot be parsed is left alone. *)
LoadIndex_Skips ==
  /\ todo # <<>> /\ Head(todo).do = "load"
  /\ IF disk[Index].whole
     THEN /\ doc' = [disk[Index] EXCEPT !.grids = Append(@, <<Dump, ctrl.step>>)]
          /\ todo' = Tail(todo)
     ELSE /\ doc' = doc
          /\ todo' = Tail(Tail(todo))
  /\ UNCHANGED <<run, lua, ctrl, sched, pc, opened, disk, failed, faults>>

(* Reload the index and append this dump's grid to the document; an index  *)
(* that is missing or cannot be parsed ends the process.                   *)
LoadIndex ==
  /\ todo # <<>> /\ Head(todo).do = "load"
  /\ IF disk[Index].whole
     THEN /\ doc' = [disk[Index] EXCEPT !.grids = Append(@, <<Dump, ctrl.step>>)]
          /\ todo' = Tail(todo)
          /\ pc' = pc
     ELSE /\ pc' = "terminated"
          /\ todo' = <<>>
          /\ doc' = doc
  /\ UNCHANGED <<run, lua, ctrl, sched, opened, disk, failed, faults>>

Saving == todo # <<>> /\ Head(todo).do = "save"

(* save_file and ofstream both truncate the file they open. *)
Open ==
  /\ Saving /\ ~opened
  /\ disk' = [disk EXCEPT ![Head(todo).file] = Torn]
  /\ opened' = TRUE
  /\ UNCHANGED <<run, lua, ctrl, sched, pc, todo, doc, failed, faults>>

(* The document saved first at dump 0 is the header, the second the        *)
(* reloaded one.                                                           *)
Contents(f) ==
  IF f = Index /\ Len(todo) > 1 /\ todo[2].do = "load" THEN Whole(<<>>)
  ELSE IF f = Index THEN doc
  ELSE Whole(<<>>)

Close ==
  /\ Saving /\ opened
  /\ disk' = [disk EXCEPT ![Head(todo).file] = Contents(Head(todo).file)]
  /\ todo' = Tail(todo)
  /\ opened' = FALSE
  /\ UNCHANGED <<run, lua, ctrl, sched, pc, doc, failed, faults>>

(* The device refuses the open (the file stays as it was) or the write     *)
(* (the file stays torn).  Nobody looks: the call goes on.                 *)
Refuse ==
  /\ Saving /\ faults < MaxFaults
  /\ failed' = failed \cup {[run |-> run, file |-> Head(todo).file, dump |-> Dump]}
  /\ faults' = faults + 1
  /\ todo' = Tail(todo)
  /\ opened' = FALSE
  /\ UNCHANGED <<run, lua, ctrl, sched, pc, doc, disk>>

(* ++dump_interval; write returns true and the run takes a step. *)
Return ==
  /\ pc = "writing" /\ todo = <<>>
  /\ sched' = AfterDump(sched, lua, ctrl, StepSize)
  /\ ctrl' = NextCall
  /\ pc' = "idle"
  /\ UNCHANGED <<run, lua, todo, opened, doc, disk, failed, faults>>

(* The run ends, or is killed wherever it is. *)
End ==
  /\ pc = "idle" /\ ctrl.step > LastStep
  /\ pc' = "over"
  /\ UNCHANGED <<run, lua, ctrl, sched, todo, opened, doc, disk, failed, faults>>

Kill ==
  /\ pc \in {"idle", "writing"}
  /\ pc' = "killed" /\ todo' = <<>> /\ opened' = FALSE
  /\ UNCHANGED <<run, lua, ctrl, sched, doc, disk, failed, faults>>

Rerun ==
  /\ pc \in {"over", "killed", "terminated"}
  /\ run < MaxRuns
  /\ run' = run + 1
  /\ StartRun
  /\ UNCHANGED <<disk, failed, faults>>

Stay ==
  /\ pc \in {"over", "killed", "terminated"} /\ run = MaxRuns
  /\ UNCHANGED outVars

OutNext ==
  \/ Skip \/ Begin \/ LoadIndex \/ Open \/ Close \/ Refuse \/ Return
  \/ End \/ Kill \/ Rerun \/ Stay

OutSpec == OutInit /\ [][OutNext]_outVars

-----------------------------------------------------------------------------
(* No write of run r or of a later run was refused. *)
Clean(r) == \A f \in failed : f.run < r

(* The files grid g of the index refers to exist, were written to their    *)
(* end by the run that wrote the index, and show the step of the grid.     *)
OnDisk(g) ==
  /\ \A i \in 1 .. Len(Names) :
       disk[<<Names[i], g[1]>>] =
         [run |-> disk[Index].run, step |-> g[2], whole |-> TRUE, grids |-> <<>>]
  /\ \A i \in 1 .. 3 :
       disk[Geometry[i]].whole /\ disk[Geometry[i]].run = disk[Index].run

(* When write has returned, the directory shows this run: the index lists  *)
(* dumps 0, 1, ... up to the counter and every file it refers to is there, *)
(* whatever earlier runs, killed at any point, left behind.                *)
ReturnedIsDurable ==
  (pc \in {"idle", "over"} /\ Dump > 0 /\ Clean(run)) =>
    /\ disk[Index].whole /\ disk[Index].run = run
    /\ Len(disk[Index].grids) = Dump
    /\ \A i \in 1 .. Dump : disk[Index].grids[i][1] = i - 1 /\ OnDisk(disk[Index].grids[i])

(* At every moment, so also after a kill, an index that can be read refers *)
(* to missing, torn or older files in its last grid at most: the index is  *)
(* ahead of the data by one dump, and a new run replaces the old index     *)
(* before it overwrites the first of the old data.                         *)
OnlyTailIncomplete ==
  (disk[Index].whole /\ Clean(disk[Index].run)) =>
    \A i \in 1 .. Len(disk[Index].grids) - 1 : OnDisk(disk[Index].grids[i])

(* A refused save of the index loses the grid of that dump and no other,   *)
(* as long as the index is this run's; one that tears the index is noticed *)
(* at the next dump: a run never completes two dumps with an index nobody  *)
(* can read.  That the run goes on at all, SaveErrorStops denies.          *)
RefusalsContained ==
  /\ (pc \in {"idle", "over"} /\ disk[Index].whole /\ disk[Index].run = run) =>
       {disk[Index].grids[i][1] : i \in 1 .. Len(disk[Index].grids)} =
         (0 .. Dump - 1) \ {f.dump : f \in {x \in failed : x.run = run /\ x.file = Index}}
  /\ (pc = "idle" /\ Dump > 0 /\ ~disk[Index].whole) =>
       [run |-> run, file |-> Index, dump |-> Dump - 1] \in failed

(* What docs/reference/io.md says of the index: "On any load/save error    *)
(* xdmf::write aborts the entire simulation".  No result of save_file is   *)
(* looked at, so that write returns and the run goes on.                   *)
SaveErrorStops ==
  pc \in {"idle", "over"} => \A f \in failed : f.run = run => f.file # Index
=============================================================================
