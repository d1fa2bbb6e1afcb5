---------------------------- MODULE ReproduceAll -----------------------------
(***************************************************************************)
(* reproduce_all.sh: run_stage runs each stage function with errexit off   *)
(* and takes the function's exit status, so a stage is judged by its last  *)
(* command alone; preflight returns explicitly at its first failing test.  *)
(*                                                                         *)
(* Commands are names; sha256sum, the scripts and the build tools are      *)
(* external, and only their exit status counts.  Whether a command fails   *)
(* is open, except where it certainly fails: nothing can be built or run   *)
(* from a tree that was not configured, and no report is verified that was *)
(* not written.  A ctest that finds no test succeeds, so ctest's status is *)
(* open even then.  Appending to SUMMARY.txt and date inside a printf are  *)
(* assumed to work once the campaign has begun.                            *)
(***************************************************************************)
EXTENDS Naturals, Sequences

Manifests == <<"dependency-manifest", "profile-manifest", "source-manifest",
               "a1-manifest", "print-verified">>

(* The stages in the order of the run_stage calls, with their commands.    *)
Stages == <<
    [label |-> "preflight", commands |-> <<"tools", "jobs", "clean-tree",
                                           "cbmc-version", "print-tools">>],
    [label |-> "manifests-before", commands |-> Manifests],
    [label |-> "release-tests",
     commands |-> <<"configure-release", "build-release", "ctest-release">>],
    [label |-> "kat-differential",
     commands |-> <<"vectors", "equivalence", "conformance">>],
    [label |-> "fuzz-seeds",
     commands |-> <<"configure-fuzz", "build-fuzz", "ctest-fuzz">>],
    [label |-> "cbmc", commands |-> <<"run-cbmc">>],
    [label |-> "streamframe", commands |-> <<"run-streamframe">>],
    [label |-> "performance",
     commands |-> <<"configure-perf", "build-perf", "benchmark", "summarize">>],
    [label |-> "manifests-after", commands |-> Manifests] >>

(* Tests that end their function with `return 2`.                          *)
Guards == {"tools", "jobs", "clean-tree", "cbmc-version"}

(* printf to the log succeeds.                                             *)
Infallible == {"print-verified", "print-tools"}

(* The commands of this run without whose success a command fails.         *)
Needs(command) ==
    CASE command = "build-release" -> {"configure-release"}
      [] command \in {"vectors", "equivalence", "conformance"} -> {"configure-release"}
      [] command = "build-fuzz"    -> {"configure-fuzz"}
      [] command = "build-perf"    -> {"configure-perf"}
      [] command = "benchmark"     -> {"build-perf"}
      [] command = "summarize"     -> {"benchmark"}
      [] OTHER                     -> {}

Labels == {Stages[k].label : k \in 1..Len(Stages)}
Commands == UNION {{Stages[k].commands[j] : j \in 1..Len(Stages[k].commands)}
                     : k \in 1..Len(Stages)}

VARIABLES stage,    \* index of current_stage, 0 for "initialization"
          step,     \* index of the command that runs next in the stage
          last,     \* did the latest command of this stage succeed?
          failures, \* history: <<stage label, command>> that exited non-zero
          summary,  \* label -> "passed" | "failed", as SUMMARY.txt grows
          status    \* "running", then the status= line: "passed" | "failed";
                    \* "aborted" when the script exits without one

vars == <<stage, step, last, failures, summary, status>>

Commands_of(k) == Stages[k].commands
Failed == {f[2] : f \in failures}

InStage == status = "running" /\ stage \in 1..Len(Stages)

TypeOK == /\ stage \in 0..(Len(Stages) + 1)
          /\ step \in 1..6
          /\ last \in BOOLEAN
          /\ failures \subseteq Labels \X Commands
          /\ summary \in [Labels -> {"none", "passed", "failed"}]
          /\ status \in {"running", "passed", "failed", "aborted"}

Init == /\ stage = 0 /\ step = 1 /\ last = TRUE
        /\ failures = {}
        /\ summary = [l \in Labels |-> "none"]
        /\ status = "running"

(* The output directory is new, logs and SUMMARY.txt are created, and only *)
(* then the exit trap is set.                                              *)
Initialize ==
    /\ status = "running" /\ stage = 0
    /\ stage' = 1
    /\ UNCHANGED <<step, last, failures, summary, status>>

(* The output path exists already, or mkdir, date or the creation of       *)
(* SUMMARY.txt fails under errexit: no trap is set yet, so nothing is      *)
(* added to the summary.                                                   *)
InitializationFails ==
    /\ status = "running" /\ stage = 0
    /\ status' = "aborted"
    /\ UNCHANGED <<stage, step, last, failures, summary>>

CommandSucceeds ==
    LET command == Commands_of(stage)[step] IN
    /\ InStage
    /\ step <= Len(Commands_of(stage))
    /\ Needs(command) \cap Failed = {}
    /\ last' = TRUE
    /\ step' = step + 1
    /\ UNCHANGED <<stage, failures, summary, status>>

MutantCommandFails ==
    LET command == Commands_of(stage)[step] IN
    /\ InStage
    /\ step <= Len(Commands_of(stage))
    /\ command \notin Infallible
    /\ last' = FALSE
    /\ failures' = failures \cup {<<Stages[stage].label, command>>}
    /\ step' = IF command \in Guards THEN step + Len(Commands_of(stage))
                                     ELSE step + 1
    /\ UNCHANGED <<stage, summary, status>>

(* errexit is off inside a stage, so the next command runs all the same;   *)
(* a preflight guard leaves the function.                                  *)
CommandFails ==
    LET command == Commands_of(stage)[step] IN
    /\ InStage
    /\ step <= Len(Commands_of(stage))
    /\ command \notin Infallible
    /\ last' = FALSE
    /\ failures' = failures \cup {<<Stages[stage].label, command>>}
    /\ step' = IF command \in Guards THEN Len(Commands_of(stage)) + 1
                                     ELSE step + 1
    /\ UNCHANGED <<stage, summary, status>>

MutantStageFails ==
    /\ InStage
    /\ step > Len(Commands_of(stage))
    /\ ~last
    /\ summary' = [summary EXCEPT ![Stages[stage].label] = "failed"]
    /\ stage' = stage + 1 /\ step' = 1 /\ last' = TRUE
    /\ UNCHANGED <<failures, status>>

MutantNoTrap ==
    /\ InStage
    /\ step > Len(Commands_of(stage))
    /\ ~last
    /\ summary' = [summary EXCEPT ![Stages[stage].label] = "failed"]
    /\ status' = "aborted"
    /\ UNCHANGED <<stage, step, last, failures>>

(* run_stage records the failure and exits; finish_on_exit adds the rest.  *)
StageFails ==
    /\ InStage
    /\ step > Len(Commands_of(stage))
    /\ ~last
    /\ summary' = [summary EXCEPT ![Stages[stage].label] = "failed"]
    /\ status' = "failed"
    /\ UNCHANGED <<stage, step, last, failures>>

MutantStagePasses ==
    /\ InStage
    /\ step > Len(Commands_of(stage))
    /\ summary' = [summary EXCEPT ![Stages[stage].label] = "passed"]
    /\ stage' = stage + 1 /\ step' = 1 /\ last' = TRUE
    /\ UNCHANGED <<failures, status>>

StagePasses ==
    /\ InStage
    /\ step > Len(Commands_of(stage))
    /\ last
    /\ summary' = [summary EXCEPT ![Stages[stage].label] = "passed"]
    /\ stage' = stage + 1 /\ step' = 1 /\ last' = TRUE
    /\ UNCHANGED <<failures, status>>

(* write_artifact_manifest runs under errexit: it ends the campaign either *)
(* way.                                                                    *)
Finish ==
    /\ status = "running" /\ stage = Len(Stages) + 1
    /\ status' \in {"passed", "failed"}
    /\ UNCHANGED <<stage, step, last, failures, summary>>

Done == status # "running" /\ UNCHANGED vars

Next == \/ Initialize \/ InitializationFails
        \/ CommandSucceeds \/ CommandFails
        \/ StageFails \/ StagePasses \/ Finish \/ Done

Spec == Init /\ [][Next]_vars /\ WF_vars(Next)

-----------------------------------------------------------------------------
FinalCommand(k) == Commands_of(k)[Len(Commands_of(k))]

(* What a campaign that reports status=passed does establish: in every     *)
(* stage the last command succeeded, every preflight guard held, the tree  *)
(* the vectors were checked in was configured, and the benchmark was       *)
(* built and run.                                                          *)
PassedMeansLastCommands ==
    status = "passed" =>
        /\ \A l \in Labels : summary[l] = "passed"
        /\ \A k \in 1..Len(Stages) :
              <<Stages[k].label, FinalCommand(k)>> \notin failures
        /\ Failed \cap (Guards \cup {"configure-release", "configure-perf",
                                     "build-perf", "benchmark"}) = {}

(* A failed stage is the last one: none after it starts, and the campaign  *)
(* reports status=failed.                                                  *)
StopsAtFailedStage ==
    \A k \in 1..Len(Stages) :
        summary[Stages[k].label] = "failed" =>
            /\ status = "failed"
            /\ \A j \in (k + 1)..Len(Stages) : summary[Stages[j].label] = "none"

(* Every campaign that has reached its first stage ends with a status=     *)
(* line, whichever of its commands fail.                                   *)
StatusWritten == stage > 0 ~> status \in {"passed", "failed"}

(* "runs each surface as a separate fail-closed stage": a stage recorded   *)
(* as passed had no failing command.                                       *)
FailClosed ==
    \A f \in failures : summary[f[1]] # "passed"
=============================================================================
