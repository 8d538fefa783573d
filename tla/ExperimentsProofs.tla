-------------------------- MODULE ExperimentsProofs --------------------------
(***************************************************************************)
(* Theorems about module Experiments, for every set of designs and number  *)
(* of calls.                                                               *)
(***************************************************************************)
EXTENDS Experiments, TLAPS

Logs == Seq(Reports) \cup {NoLog}

(* The type invariant.                                                     *)
Types ==
  /\ invocation \in Nat
  /\ listed \in SUBSET Designs
  /\ todo \in SUBSET listed
  /\ current \in {<<>>} \cup (Designs \X Builds)
  /\ failed_runs = 0
  /\ proc \in [Parties -> {"running", "ended", "failed"}]
  /\ logs \in [Designs -> [Builds -> Logs]]
  /\ pc \in {"idle", "next", "wait", "analyze"}

Busy == pc # "idle"

(* A log that this call has emptied holds no report but the one of this    *)
(* call's verifier.                                                        *)
Fresh(d, b) ==
  \/ logs[d][b] = <<>>
  \/ \E whole \in BOOLEAN : logs[d][b] = <<Report(invocation, whole)>>

(* The designs this call has taken from the list have fresh logs; the log  *)
(* of the build that is run is empty as long as the verifier runs, that of *)
(* the build to come until its turn.  Processes run only under `wait'.     *)
Measured ==
  /\ Busy => \A d \in listed \ todo, b \in Builds : Fresh(d, b)
  /\ pc = "analyze" => todo = {}
  /\ pc # "wait" => \A p \in Parties : proc[p] # "running"
  /\ pc = "wait" =>
       /\ current \in (listed \ todo) \X Builds
       /\ proc["verifier"] = "running" => logs[current[1]][current[2]] = <<>>
       /\ current[2] = "non_opt" => logs[current[1]]["opt"] = <<>>

IInv == Types /\ Measured /\ TableIsFresh

-----------------------------------------------------------------------------
(* A log of one whole report gives this report's fields.                   *)
LEMMA SingleReport ==
  ASSUME NEW n \in Nat, NEW whole \in BOOLEAN,
         HasFields(<<Report(n, whole)>>)
  PROVE  Fields(<<Report(n, whole)>>) = [first |-> n, last |-> n]
<1> DEFINE log == <<Report(n, whole)>>
           I == {m \in 1 .. Len(log) : log[m].whole}
<1>1. Len(log) = 1 /\ log[1] = Report(n, whole)
  OBVIOUS
<1>2. DOMAIN log = {1}
  OBVIOUS
<1>3. log[1].whole
  BY <1>2 DEF HasFields
<1>4. I = {1}
  BY <1>1, <1>3
<1>5. Max(I) = 1
  BY <1>4 DEF Max
<1>6. SelectLastInSeq(log, LAMBDA r : r.whole) = 1
  BY <1>4, <1>5 DEF SelectLastInSeq
<1>7. Last(log) = Report(n, whole)
  BY <1>1 DEF Last
<1>8. log[1].invocation = n
  BY <1>1 DEF Report
<1> QED
  BY <1>1, <1>6, <1>7, <1>8 DEF Fields

(* The fields of a fresh log that has all of them are this call's, and its *)
(* report is a whole one.                                                  *)
LEMMA FreshFields ==
  ASSUME Types, NEW d \in Designs, NEW b \in Builds,
         Fresh(d, b), HasFields(logs[d][b])
  PROVE  /\ logs[d][b] = <<Report(invocation, TRUE)>>
         /\ Fields(logs[d][b]) = [first |-> invocation, last |-> invocation]
<1>1. logs[d][b] # <<>>
  BY DEF HasFields
<1>2. PICK whole \in BOOLEAN : logs[d][b] = <<Report(invocation, whole)>>
  BY <1>1 DEF Fresh
<1>3. whole
  BY <1>2 DEF HasFields, Report
<1> QED
  BY <1>2, <1>3, SingleReport DEF Types

LEMMA FreshExists ==
  ASSUME Types, NEW d \in Designs, NEW b \in Builds, Fresh(d, b)
  PROVE  logs[d][b] # NoLog
<1>1. \A whole \in BOOLEAN : Report(invocation, whole) \in Reports
  BY DEF Report, Reports, Types
<1>2. CASE logs[d][b] = <<>>
  <2>1. <<>> \in Seq(Reports)
    OBVIOUS
  <2> QED
    BY <1>2, <2>1, ExperimentsAssumption
<1>3. CASE \E whole \in BOOLEAN : logs[d][b] = <<Report(invocation, whole)>>
  <2>1. PICK whole \in BOOLEAN : logs[d][b] = <<Report(invocation, whole)>>
    BY <1>3
  <2>2. <<Report(invocation, whole)>> \in Seq(Reports)
    BY <1>1
  <2> QED
    BY <2>1, <2>2, ExperimentsAssumption
<1> QED
  BY <1>2, <1>3 DEF Fresh

-----------------------------------------------------------------------------
LEMMA InitIInv == Init => IInv
<1> SUFFICES ASSUME Init PROVE IInv
  OBVIOUS
<1>1. Types
  BY DEF Init, Types, Logs
<1>2. Measured
  BY DEF Init, Measured, Busy
<1>3. TableIsFresh
  BY DEF Init, TableIsFresh
<1> QED
  BY <1>1, <1>2, <1>3 DEF IInv

LEMMA StartStep ==
  ASSUME IInv, Start
  PROVE  IInv'
<1> USE DEF Start
<1>1. Types'
  BY DEF IInv, Types
<1>2. Measured'
  BY DEF IInv, Types, Measured, Busy
<1>3. TableIsFresh'
  BY DEF TableIsFresh
<1> QED
  BY <1>1, <1>2, <1>3 DEF IInv

LEMMA NextDesignStep ==
  ASSUME IInv, NextDesign
  PROVE  IInv'
<1>1. PICK d \in todo :
        /\ todo' = todo \ {d}
        /\ logs' = [logs EXCEPT ![d] = [b \in Builds |-> Emptied(@[b])]]
        /\ Launch(d, "non_opt")
  BY DEF NextDesign
<1>2. d \in listed /\ d \in Designs
  BY DEF IInv, Types
<1>3. logs' = [logs EXCEPT ![d] = [b \in Builds |-> <<>>]]
  BY <1>1 DEF Emptied
<1>4. pc = "next" /\ pc' = "wait"
      /\ UNCHANGED <<invocation, listed, failed_runs>>
  BY DEF NextDesign
<1>5. current' = <<d, "non_opt">>
      /\ proc' = [p \in Parties |-> "running"]
  BY <1>1 DEF Launch
<1>6. Types'
  <2>1. logs' \in [Designs -> [Builds -> Logs]]
    <3>1. [b \in Builds |-> <<>>] \in [Builds -> Logs]
      BY DEF Logs
    <3> QED
      BY <1>2, <1>3, <3>1 DEF IInv, Types
  <2>2. todo' \in SUBSET listed'
    BY <1>1, <1>4 DEF IInv, Types
  <2>3. current' \in Designs \X Builds
    BY <1>2, <1>5 DEF Builds
  <2>4. proc' \in [Parties -> {"running", "ended", "failed"}]
    BY <1>5
  <2> QED
    BY <1>4, <2>1, <2>2, <2>3, <2>4 DEF IInv, Types
<1>7. \A b \in Builds : logs'[d][b] = <<>>
  BY <1>2, <1>3 DEF IInv, Types
<1>8. \A c \in Designs, b \in Builds : c # d => logs'[c][b] = logs[c][b]
  BY <1>3 DEF IInv, Types
<1>9. Measured'
  <2>1. ASSUME NEW c \in (listed \ todo)', NEW b \in Builds
        PROVE  Fresh(c, b)'
    <3>1. CASE c = d
      BY <3>1, <1>7 DEF Fresh
    <3>2. CASE c # d
      <4>1. c \in listed \ todo /\ c \in Designs
        BY <3>2, <1>1, <1>4 DEF IInv, Types
      <4>2. Fresh(c, b)
        BY <4>1, <1>4 DEF IInv, Measured, Busy
      <4> QED
        BY <3>2, <4>1, <4>2, <1>4, <1>8 DEF Fresh
    <3> QED
      BY <3>1, <3>2
  <2>2. current' \in (listed' \ todo') \X Builds
    BY <1>1, <1>2, <1>4, <1>5 DEF Builds
  <2>3. \A b \in Builds : logs'[current'[1]][b] = <<>>
    BY <1>5, <1>7
  <2>4. current'[2] \in Builds /\ "opt" \in Builds
    BY <2>2 DEF Builds
  <2> QED
    BY <1>4, <2>1, <2>2, <2>3, <2>4 DEF Measured
<1> QED
  BY <1>4, <1>6, <1>9 DEF IInv, TableIsFresh

(* What both ways for a party to end have in common: a report of this call *)
(* is put into the log of the build that is run, by the verifier, or the   *)
(* logs stay.                                                              *)
LEMMA PartyEnds ==
  ASSUME IInv, NEW p \in Parties, NEW out \in {"ended", "failed"},
         NEW whole \in BOOLEAN,
         proc[p] = "running",
         proc' = [proc EXCEPT ![p] = out],
         \/ logs' = logs
         \/ /\ p = "verifier"
            /\ logs' = [logs EXCEPT ![current[1]][current[2]] =
                          Append(@, Report(invocation, whole))],
         UNCHANGED <<invocation, runs, results, pc>>
  PROVE  IInv'
<1> DEFINE d == current[1]
           b == current[2]
           r == Report(invocation, whole)
<1>1. pc = "wait"
  BY DEF IInv, Measured
<1>2. d \in listed \ todo /\ d \in Designs /\ b \in Builds
  BY <1>1 DEF IInv, Types, Measured
<1>3. r \in Reports
  BY DEF IInv, Types, Report, Reports
<1>4. proc' \in [Parties -> {"running", "ended", "failed"}]
  BY DEF IInv, Types
<1>5. CASE logs' = logs
  <2>1. Types'
    BY <1>4, <1>5 DEF IInv, Types, runs
  <2>2. proc'["verifier"] = "running" => proc["verifier"] = "running"
    BY DEF IInv, Types, Parties
  <2>3. Measured'
    BY <1>1, <1>5, <2>2 DEF IInv, Measured, Fresh, Busy, runs
  <2> QED
    BY <1>1, <2>1, <2>3 DEF IInv, TableIsFresh
<1>6. CASE /\ p = "verifier"
           /\ logs' = [logs EXCEPT ![d][b] = Append(@, r)]
  <2>1. logs[d][b] = <<>>
    BY <1>1, <1>6 DEF IInv, Measured
  <2>2. logs[d] \in [Builds -> Logs]
    BY <1>2 DEF IInv, Types
  <2>3. Append(logs[d][b], r) = <<r>>
    BY <2>1
  <2>4. /\ logs' \in [Designs -> [Builds -> Logs]]
        /\ logs'[d][b] = <<r>>
        /\ \A c \in Designs, e \in Builds :
             <<c, e>> # <<d, b>> => logs'[c][e] = logs[c][e]
    BY <1>2, <1>3, <1>6, <2>2, <2>3 DEF IInv, Types, Logs
  <2>5. Types'
    BY <1>4, <2>4 DEF IInv, Types, runs
  <2>6. proc'["verifier"] # "running"
    BY <1>6 DEF IInv, Types, Parties
  <2>7. b = "non_opt" => logs'[d]["opt"] = <<>>
    BY <1>1, <1>2, <2>4 DEF IInv, Measured, Builds
  <2>8. ASSUME NEW c \in listed \ todo, NEW e \in Builds
        PROVE  Fresh(c, e)'
    <3>1. Fresh(c, e) /\ c \in Designs
      BY <1>1 DEF IInv, Measured, Busy, Types
    <3>2. CASE <<c, e>> = <<d, b>>
      BY <3>2, <2>4 DEF Fresh
    <3>3. CASE <<c, e>> # <<d, b>>
      BY <3>1, <3>3, <2>4 DEF Fresh
    <3> QED
      BY <3>2, <3>3
  <2>9. Measured'
    BY <1>1, <2>6, <2>7, <2>8 DEF IInv, Measured, runs
  <2> QED
    BY <1>1, <2>5, <2>9 DEF IInv, TableIsFresh
<1> QED
  BY <1>5, <1>6

LEMMA PartyReportsStep ==
  ASSUME IInv, NEW p \in Parties, PartyReports(p)
  PROVE  IInv'
<1>1. \/ logs' = logs
      \/ /\ p = "verifier"
         /\ logs' = [logs EXCEPT ![current[1]][current[2]] =
                       Append(@, Report(invocation, TRUE))]
  BY DEF PartyReports, Parties
<1>2. /\ proc[p] = "running"
      /\ proc' = [proc EXCEPT ![p] = "ended"]
      /\ UNCHANGED <<invocation, runs, results, pc>>
  BY DEF PartyReports
<1> QED
  BY <1>1, <1>2, PartyEnds

LEMMA PartyFailsStep ==
  ASSUME IInv, NEW p \in Parties, PartyFails(p)
  PROVE  IInv'
<1>1. \/ logs' = logs
      \/ /\ p = "verifier"
         /\ logs' = [logs EXCEPT ![current[1]][current[2]] =
                       Append(@, Report(invocation, FALSE))]
  BY DEF PartyFails, Parties
<1>2. /\ proc[p] = "running"
      /\ proc' = [proc EXCEPT ![p] = "failed"]
      /\ UNCHANGED <<invocation, runs, results, pc>>
  BY DEF PartyFails
<1> QED
  BY <1>1, <1>2, PartyEnds

LEMMA WaitStep ==
  ASSUME IInv, Wait
  PROVE  IInv'
<1>1. /\ pc = "wait"
      /\ failed_runs' = failed_runs
      /\ UNCHANGED <<invocation, listed, todo, logs, results>>
  BY DEF Wait, WaitStatus, IInv, Types
<1>2. /\ current \in (listed \ todo) \X Builds
      /\ current \in Designs \X Builds
      /\ current[2] = "non_opt" => logs[current[1]]["opt"] = <<>>
  BY <1>1 DEF IInv, Types, Measured
<1>3. CASE current[2] = "non_opt"
  <2>1. /\ current' = <<current[1], "opt">>
        /\ proc' = [p \in Parties |-> "running"]
        /\ pc' = pc
    BY <1>3 DEF Wait, Launch
  <2>2. Types'
    BY <1>1, <1>2, <2>1 DEF IInv, Types, Builds
  <2>3. Measured'
    BY <1>1, <1>2, <1>3, <2>1 DEF IInv, Measured, Fresh, Busy, Builds
  <2> QED
    BY <1>1, <2>1, <2>2, <2>3 DEF IInv, TableIsFresh
<1>4. CASE current[2] # "non_opt"
  <2>1. pc' = "next" /\ UNCHANGED <<current, proc>>
    BY <1>4 DEF Wait
  <2>2. Types'
    BY <1>1, <2>1 DEF IInv, Types
  <2>3. \A p \in Parties : proc[p] # "running"
    BY DEF Wait
  <2>4. Measured'
    BY <1>1, <2>1, <2>3 DEF IInv, Measured, Fresh, Busy
  <2> QED
    BY <2>1, <2>2, <2>4 DEF IInv, TableIsFresh
<1> QED
  BY <1>3, <1>4

LEMMA AllRunStep ==
  ASSUME IInv, AllRun
  PROVE  IInv'
<1>1. failed_runs = 0
  BY DEF IInv, Types
<1>2. /\ pc = "next" /\ todo = {} /\ pc' = "analyze"
      /\ UNCHANGED <<invocation, runs, proc, logs>>
  BY <1>1 DEF AllRun
<1>3. Types'
  BY <1>2 DEF IInv, Types, runs
<1>4. Measured'
  BY <1>2 DEF IInv, Measured, Fresh, Busy, runs
<1> QED
  BY <1>2, <1>3, <1>4 DEF IInv, TableIsFresh

LEMMA AnalysisFailsStep ==
  ASSUME IInv, AnalysisFails
  PROVE  IInv'
<1>1. /\ pc = "analyze" /\ pc' = "idle" /\ status' = 1
      /\ UNCHANGED <<invocation, runs, proc, logs>>
  BY DEF AnalysisFails
<1>2. Types'
  BY <1>1 DEF IInv, Types, runs
<1>3. Measured'
  BY <1>1 DEF IInv, Measured, Busy
<1> QED
  BY <1>1, <1>2, <1>3 DEF IInv, TableIsFresh

(* When the table is written, the logs of the listed designs hold one      *)
(* whole report each, of this call.                                        *)
LEMMA TabulatedLogs ==
  ASSUME IInv, Tabulate, NEW d \in listed, NEW b \in Builds
  PROVE  /\ d \in Logged("opt")
         /\ logs[d][b] = <<Report(invocation, TRUE)>>
         /\ Fields(logs[d][b]) = [first |-> invocation, last |-> invocation]
<1>1. pc = "analyze" /\ todo = {} /\ d \in Designs
  BY DEF Tabulate, IInv, Types, Measured
<1>2. \A e \in Builds : Fresh(d, e)
  BY <1>1 DEF IInv, Measured, Busy
<1>3. logs[d]["opt"] # NoLog
  BY <1>1, <1>2, FreshExists DEF IInv, Builds
<1>4. d \in Logged("opt")
  BY <1>1, <1>3 DEF Logged
<1>5. HasFields(logs[d][b])
  BY <1>4 DEF Tabulate, Analyzable
<1> QED
  BY <1>1, <1>2, <1>4, <1>5, FreshFields DEF IInv

LEMMA TabulateStep ==
  ASSUME IInv, Tabulate
  PROVE  IInv'
<1>1. /\ pc = "analyze" /\ pc' = "idle"
      /\ UNCHANGED <<invocation, runs, proc, logs>>
      /\ table' = {Row(d) : d \in Logged("opt")}
  BY DEF Tabulate
<1>2. Types'
  BY <1>1 DEF IInv, Types, runs
<1>3. Measured'
  BY <1>1 DEF IInv, Measured, Busy
<1>4. TableIsFresh'
  <2>1. SUFFICES ASSUME NEW d \in listed
                 PROVE  \E row \in table' :
                          /\ row.design = d
                          /\ \A b \in Builds :
                               /\ row.fields[b].first = invocation
                               /\ row.fields[b].last = invocation
    BY <1>1 DEF TableIsFresh, runs
  <2>2. Row(d) \in table'
    BY <1>1, TabulatedLogs DEF Builds
  <2>3. Row(d).design = d
    BY DEF Row
  <2>4. \A b \in Builds :
          Row(d).fields[b] = [first |-> invocation, last |-> invocation]
    BY TabulatedLogs DEF Row
  <2> QED
    BY <2>2, <2>3, <2>4
<1> QED
  BY <1>2, <1>3, <1>4 DEF IInv

LEMMA StepIInv == IInv /\ [Next]_vars => IInv'
<1> SUFFICES ASSUME IInv, [Next]_vars PROVE IInv'
  OBVIOUS
<1>1. CASE Start
  BY <1>1, StartStep
<1>2. CASE NextDesign
  BY <1>2, NextDesignStep
<1>3. CASE \E p \in Parties : PartyReports(p)
  BY <1>3, PartyReportsStep
<1>4. CASE \E p \in Parties : PartyFails(p)
  BY <1>4, PartyFailsStep
<1>5. CASE Wait
  BY <1>5, WaitStep
<1>6. CASE AllRun
  BY <1>6, AllRunStep
<1>7. CASE AnalysisFails
  BY <1>7, AnalysisFailsStep
<1>8. CASE Tabulate
  BY <1>8, TabulateStep
<1>9. CASE UNCHANGED vars
  BY <1>9 DEF IInv, Types, Measured, Fresh, Busy, TableIsFresh, vars, runs,
    results
<1> QED
  BY <1>1, <1>2, <1>3, <1>4, <1>5, <1>6, <1>7, <1>8, <1>9 DEF Next

(* When run_all.sh returns 0, the table has a row for every listed design  *)
(* with numbers of this call only, whatever logs and table earlier calls   *)
(* left and whichever parties failed.                                      *)
THEOREM SuccessLeavesFreshTable == Spec => []TableIsFresh
<1>1. IInv => TableIsFresh
  BY DEF IInv
<1> QED
  BY <1>1, InitIInv, StepIInv, PTL DEF Spec

(* The table is written only when the verifiers of both builds of every    *)
(* listed design have reported in full in this call.                       *)
THEOREM TableNeedsReports == Spec => NoRowForFailure
<1>1. ASSUME IInv, [Next]_vars, table' # table
      PROVE  \A d \in listed, b \in Builds :
               Report(invocation, TRUE) \in ToSet(logs[d][b])
  <2>1. Tabulate
    BY <1>1 DEF Next, Start, NextDesign, PartyReports, PartyFails, Wait,
      AllRun, AnalysisFails, vars, results
  <2> SUFFICES ASSUME NEW d \in listed, NEW b \in Builds
               PROVE  Report(invocation, TRUE) \in ToSet(logs[d][b])
    OBVIOUS
  <2>2. logs[d][b] = <<Report(invocation, TRUE)>>
    BY <1>1, <2>1, TabulatedLogs
  <2>3. DOMAIN <<Report(invocation, TRUE)>> = {1}
    OBVIOUS
  <2>4. <<Report(invocation, TRUE)>>[1] = Report(invocation, TRUE)
    OBVIOUS
  <2> QED
    BY <2>2, <2>3, <2>4 DEF ToSet
<1> QED
  BY <1>1, InitIInv, StepIInv, PTL DEF Spec, NoRowForFailure
=============================================================================
