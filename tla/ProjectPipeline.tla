--------------------------- MODULE ProjectPipeline ---------------------------
(***************************************************************************)
(* ProjectPipeline over the loader: from_inputs loads the inputs one after *)
(* another and keeps a pipeline for each, or none; run() takes each        *)
(* pipeline's module away to analyse it, and reports all of them or fails  *)
(* with the first.  A failed run may be called again.  One loader is the   *)
(* project's; others load what they like.                                  *)
(***************************************************************************)
EXTENDS IrLoader

CONSTANTS Inputs,      \* the paths given to from_inputs
          Project,     \* the loader that is this process
          OtherLoads,  \* bound: the paths and strategies of the other loaders
          MaxRuns      \* bound: calls of run()

ASSUME ProjectAssumption ==
  /\ Inputs \in Seq(Path) /\ Project \in Loader
  /\ OtherLoads \subseteq Path \X Strategy

VARIABLES stage,      \* "new", "loading", "ready", "running", "reported" or "refused"
          pipelines,  \* each pipeline's module, or Taken once a run took it
          next,       \* the input or pipeline a stage is at
          report,     \* the modules this run has results of, in order
          runs,
          loads,      \* history: the result of each input's load
          failed      \* history: a run failed

projectVars == <<stage, pipelines, next, report, runs, loads, failed>>
vars == <<loaderVars, projectVars>>

Taken == "taken"

ProjectInit ==
  /\ LoaderInit
  /\ stage = "new" /\ pipelines = <<>> /\ next = 1 /\ report = <<>> /\ runs = 0
  /\ loads = <<>> /\ failed = FALSE

(* The next path is loaded, once the last is in its pipeline. *)
LoadInput ==
  /\ stage \in {"new", "loading"} /\ next <= Len(Inputs)
  /\ Begin(Project, Inputs[next], "auto")
  /\ stage' = "loading"
  /\ UNCHANGED <<pipelines, next, report, runs, loads, failed>>

InputSkipped ==    \* mutant: an input that does not load is passed over
  /\ stage = "loading" /\ at[Project] = "done"
  /\ Take(Project)
  /\ loads' = Append(loads, result[Project])
  /\ pipelines' = IF result[Project].ok THEN Append(pipelines, result[Project].content)
                                        ELSE pipelines
  /\ IF next < Len(Inputs) THEN next' = next + 1 /\ UNCHANGED stage
                           ELSE stage' = "ready" /\ next' = 1
  /\ UNCHANGED <<report, runs, failed>>

(* The first input that does not load refuses the project. *)
InputLoaded ==
  /\ stage = "loading" /\ at[Project] = "done"
  /\ Take(Project)
  /\ loads' = Append(loads, result[Project])
  /\ IF ~result[Project].ok
     THEN stage' = "refused" /\ pipelines' = <<>> /\ UNCHANGED next
     ELSE /\ pipelines' = Append(pipelines, result[Project].content)
          /\ IF next < Len(Inputs) THEN next' = next + 1 /\ UNCHANGED stage
                                   ELSE stage' = "ready" /\ next' = 1
  /\ UNCHANGED <<report, runs, failed>>

Run ==
  /\ stage \in {"ready", "reported"} /\ runs < MaxRuns
  /\ stage' = "running" /\ next' = 1 /\ report' = <<>> /\ runs' = runs + 1
  /\ UNCHANGED <<loaderVars, pipelines, loads, failed>>

(* Pipeline::run: the module is taken, and the passes run without one if it was. *)
RunModule(ok) ==
  /\ stage = "running" /\ next <= Len(pipelines)
  /\ pipelines' = [pipelines EXCEPT ![next] = Taken]
  /\ IF ok THEN /\ report' = Append(report, pipelines[next])
                /\ next' = next + 1 /\ UNCHANGED <<stage, failed>>
           ELSE /\ stage' = "ready" /\ report' = <<>> /\ next' = 1 /\ failed' = TRUE
  /\ UNCHANGED <<loaderVars, runs, loads>>

Report ==
  /\ stage = "running" /\ next > Len(pipelines)
  /\ stage' = "reported" /\ next' = 1
  /\ UNCHANGED <<loaderVars, pipelines, report, runs, loads, failed>>

(* The process is killed while it loads; a new one starts over. *)
ProjectCrash ==
  /\ Crash(Project)
  /\ stage' = "new" /\ pipelines' = <<>> /\ next' = 1 /\ report' = <<>> /\ loads' = <<>>
  /\ UNCHANGED <<runs, failed>>

ProjectNext ==
  \/ LoadInput \/ InputLoaded \/ Run \/ Report \/ ProjectCrash
  \/ \E ok \in BOOLEAN : RunModule(ok)
  \/ LoaderStep(Project) /\ UNCHANGED projectVars
  \/ /\ stage \in {"new", "loading"}   \* bound: a run of the project touches no file
     /\ \/ Environment
        \/ \E l \in Loader \ {Project} :
             \/ LoaderStep(l) \/ Take(l) \/ Crash(l)
             \/ \E load \in OtherLoads : Begin(l, load[1], load[2])
     /\ UNCHANGED projectVars

ProjectSpec == ProjectInit /\ [][ProjectNext]_vars

-----------------------------------------------------------------------------
(***************************************************************************)
(* A project is built of all its inputs, each with the module its load     *)
(* gave, in their order, or not at all; and the report of a project no run *)
(* of which failed has, the first time, the analysis of every one of them. *)
(* (After a failed run, or a reported one, the modules are gone and a      *)
(* report is of passes that ran on nothing: README, section 5.)            *)
(***************************************************************************)
BuiltWhole ==
  /\ stage \in {"ready", "running", "reported"} =>
       /\ Len(pipelines) = Len(Inputs) /\ Len(loads) = Len(Inputs)
       /\ \A i \in 1 .. Len(Inputs) :
            loads[i].ok /\ pipelines[i] \in {loads[i].content, Taken}
  /\ stage = "reported" /\ ~failed /\ runs = 1 =>
       report = [i \in 1 .. Len(Inputs) |-> loads[i].content]
=============================================================================
