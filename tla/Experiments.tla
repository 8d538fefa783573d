----------------------------- MODULE Experiments -----------------------------
(***************************************************************************)
(* run_all.sh, run_experiment.sh and res/analyze.py: every listed design   *)
(* is run in both builds, prover and verifier in the background, their     *)
(* output goes to one log per design and build, and the logs are turned    *)
(* into result.csv.  Logs and table outlive an invocation of run_all.sh.   *)
(*                                                                         *)
(* A log is the sequence of the verifiers' reports in it (the prover's     *)
(* output is discarded): the invocation that left it and whether all its   *)
(* lines are there.  An invocation is not interrupted here.                *)
(***************************************************************************)
EXTENDS Naturals, Sequences, SequencesExt

CONSTANTS
  Designs,
  Invocations,    (* how often run_all.sh is called                        *)
  NoLog           (* in place of the contents of a log that does not exist *)

VARIABLES
  invocation,
  listed,         (* the designs of input/design.f                         *)
  todo,           (* those not read from it yet                            *)
  current,        (* the design and build that are run                     *)
  proc,           (* the two background processes                          *)
  logs,           (* logs[d][b]: a sequence of reports, or NoLog           *)
  failed_runs,
  table,          (* the rows of result.csv                                *)
  raw,            (* result_raw.csv exists                                 *)
  status,         (* exit status of run_all.sh                             *)
  pc

runs == <<listed, todo, current, failed_runs>>
results == <<table, raw, status>>
vars == <<invocation, runs, proc, logs, results, pc>>

Builds == {"non_opt", "opt"}
Parties == {"prover", "verifier"}
Reports == [invocation : Nat, whole : BOOLEAN]
Report(n, whole) == [invocation |-> n, whole |-> whole]

ASSUME ExperimentsAssumption == NoLog \notin Seq(Reports)

Init ==
  /\ invocation = 0
  /\ listed = {} /\ todo = {} /\ current = <<>> /\ failed_runs = 0
  /\ proc = [p \in Parties |-> "ended"]
  /\ logs = [d \in Designs |-> [b \in Builds |-> NoLog]]
  /\ table = {} /\ raw = FALSE /\ status = 0
  /\ pc = "idle"

(* run_all.sh is called, with any design file.                             *)
Start ==
  /\ pc = "idle" /\ invocation < Invocations
  /\ invocation' = invocation + 1
  /\ listed' \in SUBSET Designs
  /\ todo' = listed'
  /\ failed_runs' = 0
  /\ pc' = "next"
  /\ UNCHANGED <<current, proc, logs, table, raw, status>>

Emptied_kept(log) == IF log = NoLog THEN <<>> ELSE log      (* faulty      *)
Emptied(log) == <<>>

Launch(d, b) ==
  /\ current' = <<d, b>>
  /\ proc' = [p \in Parties |-> "running"]

(* Both logs of the next design are emptied, its standard build is run.    *)
NextDesign ==
  /\ pc = "next"
  /\ \E d \in todo :
       /\ todo' = todo \ {d}
       /\ logs' = [logs EXCEPT ![d] = [b \in Builds |-> Emptied(@[b])]]
       /\ Launch(d, "non_opt")
  /\ pc' = "wait"
  /\ UNCHANGED <<invocation, listed, failed_runs, results>>

(* A party reaches the end of main.                                        *)
PartyReports(p) ==
  /\ proc[p] = "running"
  /\ proc' = [proc EXCEPT ![p] = "ended"]
  /\ logs' = IF p = "prover" THEN logs
             ELSE [logs EXCEPT ![current[1]][current[2]] =
                     Append(@, Report(invocation, TRUE))]
  /\ UNCHANGED <<invocation, runs, results, pc>>

(* It ends earlier, with or without a part of the report.                  *)
PartyFails(p) ==
  /\ proc[p] = "running"
  /\ proc' = [proc EXCEPT ![p] = "failed"]
  /\ logs' \in {logs} \cup
       IF p = "prover" THEN {}
       ELSE {[logs EXCEPT ![current[1]][current[2]] =
                Append(@, Report(invocation, FALSE))]}
  /\ UNCHANGED <<invocation, runs, results, pc>>

(* The exit status of `wait' without arguments.                            *)
WaitStatus == 0

(* run_experiment.sh returns, run_variant returns its status.              *)
Wait ==
  /\ pc = "wait"
  /\ \A p \in Parties : proc[p] # "running"
  /\ failed_runs' = failed_runs + (IF WaitStatus = 0 THEN 0 ELSE 1)
  /\ IF current[2] = "non_opt"
     THEN Launch(current[1], "opt") /\ UNCHANGED pc
     ELSE pc' = "next" /\ UNCHANGED <<current, proc>>
  /\ UNCHANGED <<invocation, listed, todo, logs, results>>

AllRun ==
  /\ pc = "next" /\ todo = {}
  /\ IF failed_runs > 0
     THEN status' = 1 /\ pc' = "idle"
     ELSE pc' = "analyze" /\ UNCHANGED status
  /\ UNCHANGED <<invocation, runs, proc, logs, table, raw>>

-----------------------------------------------------------------------------
Logged(b) == {d \in Designs : logs[d][b] # NoLog}

(* extract_fields takes the last occurrence of each label; the labels at   *)
(* the end of a report are missing when it broke off.                      *)
HasFields(log) == \E m \in DOMAIN log : log[m].whole
Fields(log) ==
  [first |-> Last(log).invocation,
   last  |-> log[SelectLastInSeq(log, LAMBDA r : r.whole)].invocation]

Analyzable ==
  /\ Logged("non_opt") # {} /\ Logged("opt") # {}
  /\ Logged("non_opt") = Logged("opt")
  /\ \A d \in Logged("opt"), b \in Builds : HasFields(logs[d][b])

Row(d) == [design |-> d, fields |-> [b \in Builds |-> Fields(logs[d][b])]]

(* build_rows raises AnalysisError: a log or field is missing or, whatever *)
(* logs there are, a total cost is zero.                                   *)
AnalysisFails ==
  /\ pc = "analyze"
  /\ status' = 1
  /\ pc' = "idle"
  /\ UNCHANGED <<invocation, runs, proc, logs, table, raw>>

(* The rows are written, then the plot, which may fail.                    *)
Tabulate ==
  /\ pc = "analyze"
  /\ Analyzable
  /\ table' = {Row(d) : d \in Logged("opt")}
  /\ \E plotted \in BOOLEAN :
       raw' = ~ plotted /\ status' = IF plotted THEN 0 ELSE 1
  /\ pc' = "idle"
  /\ UNCHANGED <<invocation, runs, proc, logs>>

Next ==
  \/ Start \/ NextDesign
  \/ \E p \in Parties : PartyReports(p) \/ PartyFails(p)
  \/ Wait \/ AllRun \/ AnalysisFails \/ Tabulate

Spec == Init /\ [][Next]_vars

-----------------------------------------------------------------------------
(* When run_all.sh returns 0, result.csv has a row for every listed design *)
(* and every number in it was measured in this invocation, although logs   *)
(* and table of earlier ones are still there and any party may have failed *)
(* at any moment, in the middle of its report included.                    *)
TableIsFresh ==
  pc = "idle" /\ invocation > 0 /\ status = 0 =>
    \A d \in listed :
      \E row \in table :
        /\ row.design = d
        /\ \A b \in Builds : /\ row.fields[b].first = invocation
                             /\ row.fields[b].last = invocation

(* A run that failed never changes the table: result.csv changes only to   *)
(* one in which every listed design has the reports of both builds.        *)
NoRowForFailure ==
  [][table' # table =>
       \A d \in listed, b \in Builds :
         Report(invocation, TRUE) \in ToSet(logs[d][b])]_vars
=============================================================================
