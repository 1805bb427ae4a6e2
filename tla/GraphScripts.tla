----------------------------- MODULE GraphScripts -----------------------------
(***************************************************************************)
(* cpu_graphs.py, dropped_graphs.py and memory_graphs.py, run one after    *)
(* the other, and the notebook that reads what cpu_graphs.py has saved.    *)
(*                                                                         *)
(* A script is a loop of benchmarks inside the with statements of a group  *)
(* and a controller.  Any of them may raise, which ends the script after   *)
(* the with statements are left; so may the writing of a file, when a part *)
(* of the rows is written.  The files of raw data are opened to be         *)
(* appended to: they hold the rows of all runs so far, of those too that   *)
(* were aborted.  The notebook tells the rates apart by counting lines; it *)
(* reads copies of the files, made by hand, which are taken to be current. *)
(*                                                                         *)
(* What was measured is abstracted to where it comes from (Row), and a     *)
(* mean or a deviation to the rows it is computed from.                    *)
(***************************************************************************)
EXTENDS Integers, Sequences, SequencesExt

CONSTANTS
    NumRates,   \* how many spans_per_second each script goes through
    Trials,     \* the values --trials is given
    TRIALS,     \* the notebook's idea of it
    Seconds,    \* the lengths of result.memory_list
    MaxRuns     \* bound: scripts that are run

NoArg == -1     \* --trials is left out: args.trials is None

Scripts == {"cpu", "dropped", "memory"}

ASSUME GraphScriptsAssumption ==
    /\ NumRates \in [Scripts -> Nat \ {0}]
    /\ Trials \subseteq Nat \ {0} /\ TRIALS \in Nat \ {0}
    /\ Seconds \subseteq Nat /\ MaxRuns \in Nat

VARIABLES
    runs,      \* the scripts so far, each with its --trials; the last is this one
    pc,        \* what it does next
    group,     \* the satellites: none, running, or orphaned by their constructor
    rate,      \* the rate of the loop, by number
    trial,     \* the loop variable of the trials
    temp,      \* the lists of a rate (of all rates in dropped_graphs.py)
    averaged,  \* the lists over the rates: what each entry averages
    files,     \* the files of raw data
    figures    \* what was drawn and saved

(* History.                                                                *)
VARIABLE failed   \* failed[n]: the runs of script n that failed to save rows

vars == <<runs, pc, group, rate, trial, temp, averaged, files, figures, failed>>

script == Last(runs)

Row(n) == [run |-> Len(runs), rate |-> rate, nth |-> n]

Kinds == {"traced", "untraced"}
Empty == [k \in Kinds |-> <<>>]

(* graphs/raw_data_traced.txt, _untraced.txt, raw_data.txt and one file    *)
(* raw_data_{sps}sps.txt per rate.                                         *)
File(k) == <<k, 0>>
MemoryFile(r) == <<"memory", r>>
Files == {File(k) : k \in Kinds \cup {"dropped"}}
             \cup {MemoryFile(r) : r \in 1 .. NumRates["memory"]}

Init == /\ runs = <<>>
        /\ pc = "shell"
        /\ group = "none"
        /\ rate = 1 /\ trial = 0
        /\ temp = Empty /\ averaged = Empty
        /\ files = [f \in Files |-> <<>>]
        /\ figures = {}
        /\ failed = [name \in Scripts |-> {}]

Goto(from, to) == pc = from /\ pc' = to

Save(f, rows) == files' = [files EXCEPT ![f] = @ \o rows]

-----------------------------------------------------------------------------
(* Somebody runs a script.  Only cpu_graphs.py takes --trials.             *)
RunScript == /\ Goto("shell", "group")
             /\ Len(runs) < MaxRuns
             /\ \E name \in Scripts, n \in Trials \cup {NoArg} :
                    /\ name = "cpu" \/ n = NoArg
                    /\ runs' = Append(runs, [name |-> name, trials |-> n])
             /\ rate' = 1 /\ trial' = 0
             /\ temp' = Empty /\ averaged' = Empty
             /\ UNCHANGED <<group, files, figures, failed>>

(* ... or kills the satellites that a failed constructor has left.         *)
KillOrphans == /\ pc = "shell" /\ group = "orphaned"
               /\ group' = "none"
               /\ UNCHANGED <<runs, pc, rate, trial, temp, averaged, files, figures, failed>>

(* A constructor that raises DeadSatellites is not inside the with: the    *)
(* satellites that live are not shut down, and keep their ports.           *)
EnterGroup == /\ \/ /\ group = "none"
                    /\ group' = "running"
                    /\ Goto("group", "controller")
                 \/ /\ group' \in {group, "orphaned"}
                    /\ Goto("group", "shell")
              /\ UNCHANGED <<runs, rate, trial, temp, averaged, files, figures, failed>>

(* The calibration may fail like a benchmark; range(None) does when the    *)
(* group and the controller are there already.                             *)
EnterController == /\ \/ Goto("controller", "trial")
                      \/ Goto("controller", "unwind")
                   /\ UNCHANGED <<runs, group, rate, trial, temp, averaged, files, figures, failed>>

RangeNone == /\ Goto("trial", "unwind")
             /\ script.name = "cpu" /\ script.trials = NoArg
             /\ UNCHANGED <<runs, group, rate, trial, temp, averaged, files, figures, failed>>

-----------------------------------------------------------------------------
(* The results of a benchmark, as rows: one, or one a second of memory.    *)
Results == IF script.name = "memory"
           THEN {[n \in 1 .. k |-> Row(n)] : k \in Seconds}
           ELSE {<<Row(trial + 1)>>}

TrialsLeft == script.name = "cpu" => trial < script.trials

AfterTraced == IF script.name = "cpu" THEN "untraced"
               ELSE IF script.name = "dropped" THEN "next" ELSE "save_memory"

BenchmarkTraced == /\ Goto("trial", AfterTraced) /\ TrialsLeft
                   /\ \E r \in Results : temp' = [temp EXCEPT !["traced"] = @ \o r]
                   /\ UNCHANGED <<runs, group, rate, trial, averaged, files, figures, failed>>

BenchmarkUntraced == /\ Goto("untraced", "trial")
                     /\ trial' = trial + 1
                     /\ \E r \in Results : temp' = [temp EXCEPT !["untraced"] = @ \o r]
                     /\ UNCHANGED <<runs, group, rate, averaged, files, figures, failed>>

\* Fault: the exception is caught and the next trial begun.
BenchmarkSkips == /\ \/ Goto("trial", "trial") /\ TrialsLeft
                     \/ Goto("untraced", "trial")
                  /\ trial' = trial + 1
                  /\ UNCHANGED <<runs, group, rate, temp, averaged, files, figures, failed>>

BenchmarkRaises == /\ \/ Goto("trial", "unwind") /\ TrialsLeft
                      \/ Goto("untraced", "unwind")
                   /\ UNCHANGED <<runs, group, rate, trial, temp, averaged, files, figures, failed>>

(* cpu_graphs.py saves the two lists of a rate after its trials and then   *)
(* computes the means and deviations ...                                   *)
SaveTraced == /\ Goto("trial", "save_untraced")
              /\ ~TrialsLeft /\ script.trials # NoArg
              /\ Save(File("traced"), temp["traced"])
              /\ UNCHANGED <<runs, group, rate, trial, temp, averaged, figures, failed>>

SaveUntraced == /\ Goto("save_untraced", "next")
                /\ Save(File("untraced"), temp["untraced"])
                /\ averaged' = [k \in Kinds |-> Append(averaged[k], temp[k])]
                /\ UNCHANGED <<runs, group, rate, trial, temp, figures, failed>>

(* ... and memory_graphs.py draws a curve and saves its samples.           *)
SaveMemory == /\ Goto("save_memory", "next")
              /\ averaged' = [averaged EXCEPT !["traced"] = Append(@, temp["traced"])]
              /\ Save(MemoryFile(rate), temp["traced"])
              /\ UNCHANGED <<runs, group, rate, trial, temp, figures, failed>>

(* A file cannot be opened or written, or the script is interrupted, when  *)
(* the first n rows are in the file and perhaps all of them.               *)
SavePart(f, rows) == \E n \in 0 .. Len(rows) : Save(f, SubSeq(rows, 1, n))

SaveRaises ==
    /\ \/ /\ Goto("trial", "unwind")
          /\ ~TrialsLeft /\ script.trials # NoArg
          /\ SavePart(File("traced"), temp["traced"])
       \/ /\ Goto("save_untraced", "unwind")
          /\ SavePart(File("untraced"), temp["untraced"])
       \/ /\ Goto("save_memory", "unwind")
          /\ SavePart(MemoryFile(rate), temp["traced"])
       \/ /\ Goto("save", "shell") /\ script.name = "dropped"
          /\ SavePart(File("dropped"), temp["traced"])
    /\ failed' = [failed EXCEPT ![script.name] = @ \cup {Len(runs)}]
    /\ UNCHANGED <<runs, group, rate, trial, temp, averaged, figures>>

\* Fault: the lists of a rate are not emptied.
KeepTemp == temp

\* Fault: all lists are.
ResetAll == Empty

(* dropped_graphs.py has one list for all rates.                           *)
ResetTemp == IF script.name = "dropped" THEN temp ELSE Empty

NextRate == /\ pc = "next"
            /\ IF rate < NumRates[script.name]
               THEN /\ pc' = "trial"
                    /\ rate' = rate + 1
                    /\ trial' = 0
                    /\ temp' = ResetTemp
               ELSE pc' = "leave" /\ UNCHANGED <<rate, trial, temp>>
            /\ UNCHANGED <<runs, group, averaged, files, figures, failed>>

-----------------------------------------------------------------------------
\* Fault: the figures are drawn in a finally clause.
LeaveAndDraw == /\ \/ Goto("leave", "save")
                   \/ Goto("unwind", "save")
                /\ group' = "none"
                /\ UNCHANGED <<runs, rate, trial, temp, averaged, files, figures, failed>>

\* Fault: the group is shut down at the end of the loop, without a with.
LeaveRunning == /\ \/ Goto("leave", "save") /\ group' = "none"
                   \/ Goto("unwind", "shell") /\ UNCHANGED group
                /\ UNCHANGED <<runs, rate, trial, temp, averaged, files, figures, failed>>

(* Controller.__exit__ does nothing, the group's shuts down, and neither   *)
(* swallows the exception.                                                 *)
Leave == /\ \/ Goto("leave", "save")
            \/ Goto("unwind", "shell")
         /\ group' = "none"
         /\ UNCHANGED <<runs, rate, trial, temp, averaged, files, figures, failed>>

(* dropped_graphs.py saves its rows only now.                              *)
SaveDropped == /\ Goto("save", "draw")
               /\ Save(File("dropped"),
                       IF script.name = "dropped" THEN temp["traced"] ELSE <<>>)
               /\ UNCHANGED <<runs, group, rate, trial, temp, averaged, figures, failed>>

Points(rows) == [i \in DOMAIN rows |-> <<rows[i]>>]

Figure(name, curves) == [run |-> Len(runs), name |-> name, curves |-> curves]

cpu_difference == [i \in DOMAIN averaged["traced"] |->
                      averaged["traced"][i] \o averaged["untraced"][i]]

Plots ==
    CASE script.name = "cpu" -> {Figure("sps_vs_cpu_comparison",
                                        <<averaged["traced"], averaged["untraced"]>>),
                                 Figure("sps_vs_cpu", <<cpu_difference>>)}
      [] script.name = "dropped" -> {Figure("sps_vs_dropped", <<Points(temp["traced"])>>)}
      [] script.name = "memory" -> {Figure("runtime_vs_memory", <<averaged["traced"]>>)}

(* The script draws and saves its figures ...                              *)
Draw == /\ Goto("draw", "shell")
        /\ figures' = figures \cup Plots
        /\ UNCHANGED <<runs, group, rate, trial, temp, averaged, files, failed>>

(* ... or not all of its figures: cpu_graphs.py saves the comparison first. *)
DrawRaises == /\ Goto("draw", "shell")
              /\ \/ UNCHANGED figures
                 \/ /\ script.name = "cpu"
                    /\ figures' = figures \cup
                           {f \in Plots : f.name = "sps_vs_cpu_comparison"}
              /\ UNCHANGED <<runs, group, rate, trial, temp, averaged, files, failed>>

ScriptStep == \/ EnterGroup \/ EnterController \/ RangeNone
              \/ BenchmarkTraced \/ BenchmarkUntraced \/ BenchmarkRaises
              \/ SaveTraced \/ SaveUntraced \/ SaveMemory \/ SaveRaises
              \/ NextRate \/ Leave \/ SaveDropped \/ Draw \/ DrawRaises

Next == RunScript \/ KillOrphans \/ ScriptStep

(* A script goes on, its benchmarks being taken to return or raise; nobody *)
(* need run another.                                                       *)
Spec == Init /\ [][Next]_vars /\ WF_vars(ScriptStep)

-----------------------------------------------------------------------------
(* The notebook's read_file: a fold over the lines of a file.              *)
ReadLine(acc, row) ==
    IF acc.line_number % TRIALS = 0
    THEN [line_number |-> acc.line_number + 1,
          lists |-> IF acc.line_number # 0 THEN Append(acc.lists, acc.temp) ELSE acc.lists,
          temp |-> <<row>>]
    ELSE [acc EXCEPT !.line_number = @ + 1, !.temp = Append(@, row)]

ReadLines(rows) ==
    FoldLeft(ReadLine, [line_number |-> 0, lists |-> <<>>, temp |-> <<>>], rows).lists

read_file(f) == ReadLines(files[File(f)])

(* What the difference of the notebook pairs.                              *)
notebook_difference == [i \in DOMAIN read_file("traced") |->
                           <<read_file("traced")[i], read_file("untraced")[i]>>]

-----------------------------------------------------------------------------
(* PROPERTIES *)

OfOneRate(rows) == \A i, j \in DOMAIN rows : rows[i].run = rows[j].run
                                             /\ rows[i].rate = rows[j].rate

(* If cpu_graphs.py was always run with the notebook's number of trials    *)
(* and never failed to save a rate, then every point of the notebook       *)
(* averages the trials of one rate of one run, and no two points the same, *)
(* however many runs, complete and aborted by a benchmark, have appended   *)
(* to the file (cpu_graphs.py 75-78, read_file).  The last rate in the     *)
(* file is not in the notebook's lists.                                    *)
RatesNotMixed ==
    failed["cpu"] = {}
    /\ (\A r \in DOMAIN runs : runs[r].name = "cpu" => runs[r].trials \in {TRIALS, NoArg}) =>
        LET lists == read_file("traced") IN
        /\ \A i \in DOMAIN lists : Len(lists[i]) = TRIALS /\ OfOneRate(lists[i])
        /\ IsInjective(lists)
        /\ files[File("traced")] # <<>> => Len(lists) = (Len(files[File("traced")]) \div TRIALS) - 1

Traced == files[File("traced")]
Untraced == files[File("untraced")]

(* A row of a rate of which the script has saved the traced rows only.     *)
HalfSaved(row) == /\ pc = "save_untraced"
                  /\ row.run = Len(runs) /\ row.rate = rate

(* Line by line the two files have the two benchmarks of one trial, up to  *)
(* the first run that failed to save them: a failure or an interrupt       *)
(* between cpu_graphs.py 75 and 83 shifts whatever later runs append.      *)
(* Even then no untraced row is without its traced one.  A benchmark that  *)
(* raises does no harm, between the two of a trial or elsewhere, so that,  *)
(* if no save ever failed, the differences of the notebook exist and are   *)
(* those of one trial's two benchmarks, for any --trials.                  *)
DifferencePairs ==
    /\ Range(Untraced) \subseteq Range(Traced)
    /\ \A i \in DOMAIN Traced :
           (\A r \in failed["cpu"] : Traced[i].run < r) /\ ~HalfSaved(Traced[i]) =>
               i \in DOMAIN Untraced /\ Untraced[i] = Traced[i]
    /\ failed["cpu"] = {} /\ pc # "save_untraced" =>
           \A i \in DOMAIN notebook_difference :
               notebook_difference[i][1] = notebook_difference[i][2]

(* A figure is never drawn from a part of the rates or of the trials,      *)
(* though any benchmark may raise and any save fail: there is no figure of *)
(* a run that was aborted before its loops were done.                      *)
FiguresWhole ==
    \A f \in figures :
        LET s == runs[f.run]
            n == NumRates[s.name]
        IN  CASE f.name = "sps_vs_cpu_comparison" ->
                     \A k \in 1 .. 2 : f.curves[k] = [r \in 1 .. n |-> [i \in 1 .. s.trials |->
                                                 [run |-> f.run, rate |-> r, nth |-> i]]]
              [] f.name = "sps_vs_cpu" ->
                     /\ Len(f.curves[1]) = n
                     /\ \A r \in 1 .. n : Len(f.curves[1][r]) = 2 * s.trials
                                          /\ OfOneRate(f.curves[1][r])
              [] OTHER -> Len(f.curves[1]) = n

(* In the file of dropped_graphs.py every run starts at the first rate,    *)
(* goes on rate by rate, and is whole unless it failed to save: one that   *)
(* was aborted by a benchmark left no row.  In a file of memory_graphs.py  *)
(* every run of its rate starts again at second 1 and goes on second by    *)
(* second, also behind one that failed to save.                            *)
FilesWhole ==
    /\ LET rows == files[File("dropped")] IN
       \A i \in DOMAIN rows :
           /\ rows[i].rate > 1 =>
                  i > 1 /\ rows[i - 1] = [rows[i] EXCEPT !.rate = @ - 1]
           /\ rows[i].rate < NumRates["dropped"] /\ rows[i].run \notin failed["dropped"] =>
                  i < Len(rows) /\ rows[i + 1] = [rows[i] EXCEPT !.rate = @ + 1]
    /\ \A r \in 1 .. NumRates["memory"] :
           LET rows == files[MemoryFile(r)] IN
           \A i \in DOMAIN rows :
               /\ rows[i].rate = r
               /\ rows[i].nth > 1 =>
                      i > 1 /\ rows[i - 1] = [rows[i] EXCEPT !.nth = @ - 1]

(* Every script ends, and leaves no satellites running that its with       *)
(* statement has entered (satellite.py 106-110).                           *)
ScriptEnds == pc # "shell" ~> pc = "shell" /\ group # "running"
=============================================================================
