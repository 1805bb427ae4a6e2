-------------------------- MODULE GraphScriptsProofs --------------------------
(***************************************************************************)
(* Proofs about the graph scripts and the notebook, for any rates, trials  *)
(* and number of runs, complete and aborted:                               *)
(*                                                                         *)
(*   Inv        the files of traced and of untraced rows agree as long as  *)
(*              no run has failed to save its rows;                        *)
(*   Drawn      the lists of a script hold the rows of the rates and       *)
(*              trials done, each once and in order, so that figures and   *)
(*              files are whole;                                           *)
(*   Paired     the two files belong together line by line up to the       *)
(*              first run that failed to save, and no untraced row is      *)
(*              without its traced one;                                    *)
(*   RatesKept  under the notebook's number of trials the traced file is   *)
(*              a sequence of whole rates, so that read_file, whose fold   *)
(*              over the lines is unrolled first, tells them apart;        *)
(*                                                                         *)
(* and about a figure in the notebook's output, for any sizes, keys and    *)
(* number of changes and of events:                                        *)
(*                                                                         *)
(*   FigureInv  one draw at a time is under way, and whatever the queues   *)
(*              hold, a change, a size, a full image and a copy of the     *)
(*              canvas that are still missing are on their way;            *)
(*   OutputKept the canvas is copied after every image that is drawn on    *)
(*              it, also after the figure has been closed.                 *)
(***************************************************************************)
EXTENDS GraphScripts, NotebookFigure, SequenceTheorems, SumTheorems, TLAPS

(* The traced file is a rate ahead of the untraced one between the two     *)
(* saves, and never else, until a run fails to save its rows.              *)
FilesAgree ==
    failed["cpu"] = {} =>
        files[File("traced")] = IF pc = "save_untraced"
                                THEN files[File("untraced")] \o temp["untraced"]
                                ELSE files[File("untraced")]

(* The lists of a rate agree, but for the trial that is under way.         *)
TempAgrees ==
    /\ pc \in {"group", "controller"} => temp = Empty
    /\ pc = "trial" /\ script.name = "cpu" => temp["traced"] = temp["untraced"]
    /\ pc = "untraced" =>
          /\ script.name = "cpu"
          /\ temp["traced"] = temp["untraced"] \o <<Row(trial + 1)>>
    /\ pc = "save_untraced" =>
          script.name = "cpu" /\ temp["traced"] = temp["untraced"]

Inv == /\ files = [f \in Files |-> files[f]]
       /\ temp = [k \in Kinds |-> temp[k]]
       /\ failed = [name \in Scripts |-> failed[name]]
       /\ FilesAgree
       /\ TempAgrees

(* There are no rows before the first run.                                 *)
LEMMA InvInit == Init => Inv
BY DEF Init, Inv, FilesAgree, TempAgrees, Empty, Files, File, Kinds

(* Appending to one file leaves the others alone.                          *)
LEMMA SaveOne == ASSUME files = [f \in Files |-> files[f]], NEW f, NEW rows, Save(f, rows)
                 PROVE  /\ files' = [g \in Files |-> files'[g]]
                        /\ f \in Files => files'[f] = files[f] \o rows
                        /\ \A g \in Files : g # f => files'[g] = files[g]
BY DEF Save

(* The files of a rate or of dropped spans are not those of CPU usage.     *)
LEMMA FilesDiffer == /\ \A k \in Kinds \cup {"dropped"} : File(k) \in Files
                     /\ \A k \in Kinds : File(k) # File("dropped")
                     /\ File("traced") # File("untraced")
                     /\ \A k \in Kinds : \A r : File(k) # MemoryFile(r)
BY DEF Files, File, MemoryFile, Kinds

(* The rows of a benchmark, for cpu_graphs.py.                             *)
LEMMA OneRow == ASSUME script.name = "cpu", NEW r \in Results
                PROVE  r = <<Row(trial + 1)>>
BY DEF Results

(* Steps that touch no file, and the lists only as said.                   *)
LEMMA KeepFiles == ASSUME Inv, UNCHANGED <<files, failed>>, pc # "save_untraced", pc' # "save_untraced",
                          temp' = [k \in Kinds |-> temp'[k]], TempAgrees'
                   PROVE  Inv'
BY DEF Inv, FilesAgree

(* A run that fails to save is put down among the failed ones.             *)
LEMMA FailedGrows ==
    ASSUME Inv, SaveRaises
    PROVE  /\ failed' = [name \in Scripts |-> failed'[name]]
           /\ \A name \in Scripts :
                  failed'[name] = IF name = script.name THEN failed[name] \cup {Len(runs)}
                                                        ELSE failed[name]
BY DEF Inv, SaveRaises

(* It has saved a part of the rows, and only cpu_graphs.py to the files of *)
(* CPU usage.                                                              *)
LEMMA PartSaved ==
    ASSUME Inv, SaveRaises
    PROVE  \E f, rows :
               /\ Save(f, rows)
               /\ script.name # "cpu" => f \notin {File("traced"), File("untraced")}
<1> USE DEF Goto
<1>1. CASE pc = "trial" /\ ~TrialsLeft
  BY <1>1 DEF SaveRaises, SavePart, TrialsLeft
<1>2. CASE pc = "save_untraced"
  BY <1>2 DEF SaveRaises, SavePart, Inv, TempAgrees
<1>3. CASE pc = "save_memory"
  BY <1>3, FilesDiffer DEF SaveRaises, SavePart, Kinds
<1>4. CASE pc = "save"
  BY <1>4, FilesDiffer DEF SaveRaises, SavePart, Kinds
<1> QED
  BY <1>1, <1>2, <1>3, <1>4 DEF SaveRaises

(* Every step of a script, and between scripts, keeps the invariant.       *)
LEMMA InvStep == Inv /\ [Next]_vars => Inv'
<1> SUFFICES ASSUME Inv, [Next]_vars
             PROVE  Inv'
  OBVIOUS
<1> USE DEF Goto
<1>1. CASE RunScript
  <2>1. temp' = Empty /\ UNCHANGED <<files, failed>> /\ pc = "shell" /\ pc' = "group"
    BY <1>1 DEF RunScript
  <2>2. temp' = [k \in Kinds |-> temp'[k]] /\ TempAgrees'
    BY <2>1 DEF Empty, TempAgrees
  <2> QED
    BY <2>1, <2>2, KeepFiles
<1>2. CASE KillOrphans
  BY <1>2, KeepFiles DEF KillOrphans, Inv, TempAgrees, Row, script
<1>3. CASE EnterGroup
  BY <1>3, KeepFiles DEF EnterGroup, Inv, TempAgrees, Row, script
<1>4. CASE EnterController
  <2>1. temp["traced"] = temp["untraced"]
    BY <1>4 DEF EnterController, Inv, TempAgrees, Empty, Kinds
  <2> QED
    BY <1>4, <2>1, KeepFiles DEF EnterController, Inv, TempAgrees, Row, script
<1>5. CASE RangeNone \/ BenchmarkRaises
  BY <1>5, KeepFiles DEF RangeNone, BenchmarkRaises, Inv, TempAgrees
<1>6. CASE BenchmarkTraced
  <2>1. PICK r \in Results : temp' = [temp EXCEPT !["traced"] = @ \o r]
    BY <1>6 DEF BenchmarkTraced
  <2>2. UNCHANGED <<runs, rate, trial, files, failed>> /\ pc = "trial" /\ pc' = AfterTraced
    BY <1>6 DEF BenchmarkTraced
  <2>3. /\ temp' = [k \in Kinds |-> temp'[k]]
        /\ temp'["traced"] = temp["traced"] \o r
        /\ temp'["untraced"] = temp["untraced"]
    BY <2>1 DEF Inv, Kinds
  <2>4. CASE script.name = "cpu"
    <3>1. pc' = "untraced" /\ r = <<Row(trial + 1)>>
      BY <2>2, <2>4, OneRow DEF AfterTraced
    <3>2. script' = script /\ Row(trial + 1)' = Row(trial + 1)
      BY <2>2 DEF script, Row
    <3>3. TempAgrees'
      BY <2>2, <2>3, <2>4, <3>1, <3>2 DEF Inv, TempAgrees
    <3> QED
      BY <2>2, <2>3, <3>1, <3>3, KeepFiles
  <2>5. CASE script.name # "cpu"
    <3>1. pc' \in {"next", "save_memory"}
      BY <2>2, <2>5 DEF AfterTraced
    <3>2. TempAgrees'
      BY <3>1 DEF TempAgrees
    <3> QED
      BY <2>2, <2>3, <3>1, <3>2, KeepFiles
  <2> QED
    BY <2>4, <2>5
<1>7. CASE BenchmarkUntraced
  <2>1. PICK r \in Results : temp' = [temp EXCEPT !["untraced"] = @ \o r]
    BY <1>7 DEF BenchmarkUntraced
  <2>2. /\ UNCHANGED <<runs, rate, files, failed>> /\ pc = "untraced" /\ pc' = "trial"
        /\ script.name = "cpu" /\ temp["traced"] = temp["untraced"] \o <<Row(trial + 1)>>
    BY <1>7 DEF BenchmarkUntraced, Inv, TempAgrees
  <2>3. r = <<Row(trial + 1)>>
    BY <2>2, OneRow
  <2>4. /\ temp' = [k \in Kinds |-> temp'[k]]
        /\ temp'["traced"] = temp'["untraced"]
    BY <2>1, <2>2, <2>3 DEF Inv, Kinds
  <2>5. TempAgrees'
    BY <2>2, <2>4 DEF TempAgrees
  <2> QED
    BY <2>2, <2>4, <2>5, KeepFiles
<1>8. CASE SaveTraced
  <2>1. /\ UNCHANGED <<runs, temp, failed>> /\ pc = "trial" /\ pc' = "save_untraced"
        /\ script.name = "cpu" /\ Save(File("traced"), temp["traced"])
    BY <1>8 DEF SaveTraced, TrialsLeft
  <2>2. temp["traced"] = temp["untraced"] /\ script' = script
    BY <2>1 DEF Inv, TempAgrees, script
  <2>3. /\ files' = [g \in Files |-> files'[g]]
        /\ files'[File("traced")] = files[File("traced")] \o temp["traced"]
        /\ files'[File("untraced")] = files[File("untraced")]
    BY <2>1, SaveOne, FilesDiffer DEF Inv, Kinds
  <2>4. failed["cpu"] = {} => files[File("traced")] = files[File("untraced")]
    BY <2>1 DEF Inv, FilesAgree
  <2>5. FilesAgree' /\ TempAgrees'
    BY <2>1, <2>2, <2>3, <2>4 DEF FilesAgree, TempAgrees
  <2> QED
    BY <2>1, <2>3, <2>5 DEF Inv
<1>9. CASE SaveUntraced
  <2>1. /\ UNCHANGED <<temp, failed>> /\ pc = "save_untraced" /\ pc' = "next"
        /\ Save(File("untraced"), temp["untraced"])
    BY <1>9 DEF SaveUntraced
  <2>2. /\ files' = [g \in Files |-> files'[g]]
        /\ files'[File("untraced")] = files[File("untraced")] \o temp["untraced"]
        /\ files'[File("traced")] = files[File("traced")]
    BY <2>1, SaveOne, FilesDiffer DEF Inv, Kinds
  <2>3. failed["cpu"] = {} =>
            files[File("traced")] = files[File("untraced")] \o temp["untraced"]
    BY <2>1 DEF Inv, FilesAgree
  <2>4. FilesAgree' /\ TempAgrees'
    BY <2>1, <2>2, <2>3 DEF FilesAgree, TempAgrees
  <2> QED
    BY <2>1, <2>2, <2>4 DEF Inv
<1>10. ASSUME NEW f, NEW rows, Save(f, rows), f # File("traced"), f # File("untraced"),
              UNCHANGED <<temp, failed>>, pc \in {"save_memory", "save"}, pc' \in {"next", "draw"}
       PROVE  Inv'
  <2>1. /\ files' = [g \in Files |-> files'[g]]
        /\ UNCHANGED <<files[File("traced")], files[File("untraced")]>>
    BY <1>10, SaveOne, FilesDiffer DEF Inv, Kinds
  <2>2. FilesAgree' /\ TempAgrees'
    BY <1>10, <2>1 DEF Inv, FilesAgree, TempAgrees
  <2> QED
    BY <1>10, <2>1, <2>2 DEF Inv
<1>11. CASE SaveMemory
  <2>1. MemoryFile(rate) # File("traced") /\ MemoryFile(rate) # File("untraced")
    BY FilesDiffer DEF Kinds
  <2> QED
    BY <1>10, <1>11, <2>1 DEF SaveMemory
<1>12. CASE SaveDropped
  <2>1. File("dropped") # File("traced") /\ File("dropped") # File("untraced")
    BY FilesDiffer DEF Kinds
  <2> QED
    BY <1>10, <1>12, <2>1 DEF SaveDropped
<1>13. CASE NextRate
  <2>1. UNCHANGED <<runs, files, failed>> /\ pc = "next" /\ pc' \in {"trial", "leave"}
    BY <1>13 DEF NextRate
  <2>2. script' = script
    BY <2>1 DEF script
  <2>3. CASE temp' = ResetTemp /\ pc' = "trial"
    <3>1. /\ temp' = [k \in Kinds |-> temp'[k]]
          /\ script.name = "cpu" => temp'["traced"] = temp'["untraced"]
      BY <2>3 DEF ResetTemp, Inv, Empty, Kinds
    <3>2. TempAgrees'
      BY <2>2, <2>3, <3>1 DEF TempAgrees
    <3> QED
      BY <2>1, <3>1, <3>2, KeepFiles
  <2>4. CASE UNCHANGED temp /\ pc' = "leave"
    BY <2>1, <2>4, KeepFiles DEF Inv, TempAgrees
  <2> QED
    BY <1>13, <2>3, <2>4 DEF NextRate
<1>14. CASE Leave \/ Draw \/ DrawRaises
  BY <1>14, KeepFiles DEF Leave, Draw, DrawRaises, Inv, TempAgrees
<1>15. CASE UNCHANGED vars
  BY <1>15 DEF vars, Inv, FilesAgree, TempAgrees, Row, script
<1>16. CASE SaveRaises
  <2>1. PICK f, rows : /\ Save(f, rows)
                       /\ script.name # "cpu" => f \notin {File("traced"), File("untraced")}
    BY <1>16, PartSaved
  <2>2. UNCHANGED temp /\ pc' \in {"unwind", "shell"}
    BY <1>16 DEF SaveRaises
  <2>3. /\ files' = [g \in Files |-> files'[g]]
        /\ \A g \in Files : g # f => files'[g] = files[g]
    <3>1. files = [g \in Files |-> files[g]]
      BY DEF Inv
    <3>2. files' = [g \in Files |-> files'[g]]
      BY <2>1, <3>1, SaveOne
    <3>3. \A g \in Files : g # f => files'[g] = files[g]
      BY <2>1, <3>1, SaveOne
    <3> QED
      BY <3>2, <3>3
  <2>4. FilesAgree'
    <3>1. CASE script.name = "cpu"
      <4>1. failed'["cpu"] # {}
        BY <1>16, <3>1, FailedGrows DEF Scripts
      <4> QED
        BY <4>1 DEF FilesAgree
    <3>2. CASE script.name # "cpu"
      <4>1. UNCHANGED <<files[File("traced")], files[File("untraced")], failed["cpu"]>>
        BY <1>16, <2>1, <2>3, <3>2, FilesDiffer, FailedGrows DEF Kinds, Scripts
      <4>2. pc # "save_untraced"
        BY <3>2 DEF Inv, TempAgrees
      <4> QED
        BY <2>2, <4>1, <4>2 DEF Inv, FilesAgree
    <3> QED
      BY <3>1, <3>2
  <2>5. TempAgrees'
    BY <2>2 DEF TempAgrees
  <2>6. failed' = [name \in Scripts |-> failed'[name]]
    BY <1>16, FailedGrows
  <2> QED
    BY <2>2, <2>3, <2>4, <2>5, <2>6 DEF Inv
<1> QED
  BY <1>1, <1>2, <1>3, <1>4, <1>5, <1>6, <1>7, <1>8, <1>9, <1>11, <1>12, <1>13, <1>14, <1>15,
     <1>16
     DEF Next, ScriptStep

-----------------------------------------------------------------------------
(* The rows of n trials of a rate, of n rates of t trials each, and of the *)
(* single benchmarks of n rates.                                           *)
RowsOf(run, r, n) == [i \in 1 .. n |-> [run |-> run, rate |-> r, nth |-> i]]
RateRows(run, t, n) == [r \in 1 .. n |-> RowsOf(run, r, t)]
FirstRows(run, n) == [r \in 1 .. n |-> [run |-> run, rate |-> r, nth |-> 1]]

AllRows == [run : Nat, rate : Nat, nth : Nat]

RunType == [name : Scripts, trials : Trials \cup {NoArg}]

(* A script is in its loop or has left it with all rates done.             *)
Busy == pc \notin {"shell", "unwind"}
LoopLeft == {"leave", "save", "draw"}
DoneRates == IF pc \in {"next"} \cup LoopLeft THEN rate ELSE rate - 1

(* Where the loop over the rates is.                                       *)
Position ==
    /\ runs # <<>>
    /\ rate \in 1 .. NumRates[script.name]
    /\ trial \in Nat
    /\ pc \in LoopLeft => rate = NumRates[script.name]
    /\ pc \in {"group", "controller"} => rate = 1 /\ trial = 0 /\ temp = Empty
    /\ pc \in {"untraced", "save_untraced"} => script.name = "cpu"
    /\ pc = "save_memory" => script.name = "memory"

(* What the lists of each script hold: the rows of the rates and trials    *)
(* done, each once and in order.                                           *)
CpuLists ==
    script.name = "cpu" =>
        /\ \A k \in Kinds : averaged[k] = RateRows(Len(runs), script.trials, DoneRates)
        /\ pc \in {"group", "controller", "trial"} =>
              /\ \A k \in Kinds : temp[k] = RowsOf(Len(runs), rate, trial)
              /\ script.trials # NoArg => trial <= script.trials
        /\ pc = "untraced" =>
              /\ temp["traced"] = RowsOf(Len(runs), rate, trial + 1)
              /\ temp["untraced"] = RowsOf(Len(runs), rate, trial)
              /\ script.trials # NoArg /\ trial < script.trials
        /\ pc = "save_untraced" =>
              /\ \A k \in Kinds : temp[k] = RowsOf(Len(runs), rate, script.trials)
              /\ script.trials # NoArg
        /\ pc \in {"next"} \cup LoopLeft => script.trials # NoArg

DroppedLists ==
    script.name = "dropped" =>
        trial = 0 /\ temp["traced"] = FirstRows(Len(runs), DoneRates)

MemoryLists ==
    script.name = "memory" =>
        /\ "traced" \in DOMAIN averaged
        /\ averaged["traced"] \in Seq(Seq(AllRows))
        /\ Len(averaged["traced"]) = DoneRates
        /\ pc \in {"group", "controller", "trial"} => temp = Empty
        /\ pc = "save_memory" =>
              \E k \in Nat : temp["traced"] = RowsOf(Len(runs), rate, k)

Lists == Busy => Position /\ CpuLists /\ DroppedLists /\ MemoryLists

(* A figure that FiguresWhole allows, of a run that there was.             *)
FigureWhole(f) ==
    /\ f.run \in 1 .. Len(runs)
    /\ LET s == runs[f.run]
           n == NumRates[s.name]
       IN  CASE f.name = "sps_vs_cpu_comparison" ->
                    \A k \in 1 .. 2 : f.curves[k] = RateRows(f.run, s.trials, n)
             [] f.name = "sps_vs_cpu" ->
                    /\ Len(f.curves[1]) = n
                    /\ \A r \in 1 .. n : Len(f.curves[1][r]) = 2 * s.trials
                                         /\ OfOneRate(f.curves[1][r])
             [] OTHER -> Len(f.curves[1]) = n

(* What FilesWhole says of the file of dropped spans and of a memory file. *)
DroppedWhole(rows, short) ==
    /\ rows \in Seq(AllRows)
    /\ \A i \in 1 .. Len(rows) :
           /\ rows[i].rate > 1 =>
                  i > 1 /\ rows[i - 1] = [rows[i] EXCEPT !.rate = @ - 1]
           /\ rows[i].rate < NumRates["dropped"] /\ rows[i].run \notin short =>
                  i < Len(rows) /\ rows[i + 1] = [rows[i] EXCEPT !.rate = @ + 1]

MemoryWhole(rows, r) ==
    /\ rows \in Seq(AllRows)
    /\ \A i \in 1 .. Len(rows) :
           /\ rows[i].rate = r
           /\ rows[i].nth > 1 => i > 1 /\ rows[i - 1] = [rows[i] EXCEPT !.nth = @ - 1]

FilesKept == /\ DroppedWhole(files[File("dropped")], failed["dropped"])
             /\ \A r \in 1 .. NumRates["memory"] : MemoryWhole(files[MemoryFile(r)], r)

Drawn == /\ runs \in Seq(RunType)
         /\ failed \in [Scripts -> SUBSET (1 .. Len(runs))]
         /\ Lists
         /\ \A f \in figures : FigureWhole(f)
         /\ FilesKept

(* A function on the first n numbers is a sequence of n elements.          *)
LEMMA FunIsSeq == ASSUME NEW n \in Nat, NEW S, NEW f \in [1 .. n -> S]
                  PROVE  f \in Seq(S) /\ Len(f) = n
<1>1. f \in Seq(S)
  BY SeqDef
<1>2. Len(f) \in Nat /\ DOMAIN f = 1 .. Len(f)
  BY <1>1, LenProperties
<1>3. 1 .. Len(f) = 1 .. n
  BY <1>2
<1>4. \A m, k \in Nat : 1 .. m = 1 .. k => m = k
  <2> SUFFICES ASSUME NEW m \in Nat, NEW k \in Nat, 1 .. m = 1 .. k, m < k \/ k < m
               PROVE  FALSE
    OBVIOUS
  <2>1. m \in 1 .. m \/ m = 0
    OBVIOUS
  <2>2. k \in 1 .. k \/ k = 0
    OBVIOUS
  <2> QED
    BY <2>1, <2>2
<1> QED
  BY <1>1, <1>2, <1>3, <1>4

(* A sequence of n elements is a function on the first n numbers.          *)
LEMMA SeqIsFun == ASSUME NEW S, NEW s \in Seq(S)
                  PROVE  Len(s) \in Nat /\ s \in [1 .. Len(s) -> S]
BY LenProperties

(* A sequence that goes on as a function does is that function.            *)
LEMMA AppendFun ==
    ASSUME NEW n \in Nat, NEW S, NEW f \in [1 .. n + 1 -> S], NEW g \in [1 .. n -> S],
           \A i \in 1 .. n : g[i] = f[i]
    PROVE  Append(g, f[n + 1]) = f /\ g \o <<f[n + 1]>> = f
<1>1. g \in Seq(S) /\ Len(g) = n
  BY FunIsSeq
<1>2. f \in Seq(S) /\ Len(f) = n + 1
  <2>1. n + 1 \in Nat
    OBVIOUS
  <2> QED
    BY <2>1, FunIsSeq
<1>3. f[n + 1] \in S
  OBVIOUS
<1> DEFINE e == f[n + 1]
<1> HIDE DEF e
<1>4. e \in S
  BY <1>3 DEF e
<1>5. /\ Append(g, e) \in Seq(S)
      /\ Len(Append(g, e)) = n + 1
      /\ \A i \in 1 .. n : Append(g, e)[i] = g[i]
      /\ Append(g, e)[n + 1] = e
  BY <1>1, <1>4, AppendProperties
<1>6. \A i \in 1 .. n + 1 : Append(g, e)[i] = f[i]
  BY <1>5 DEF e
<1>7. Append(g, e) = f
  BY <1>2, <1>5, <1>6, SeqEqual
<1>8. Append(g, e) = g \o <<e>>
  BY <1>1, <1>4, AppendIsConcat
<1> QED
  BY <1>7, <1>8 DEF e

(* Such a function on no number is the empty sequence.                     *)
LEMMA NoneIsEmpty == ASSUME NEW S, NEW f \in [1 .. 0 -> S] PROVE f = <<>>
<1>1. f \in Seq(S) /\ Len(f) = 0
  BY FunIsSeq
<1> QED
  BY <1>1, EmptySeq

(* The rows of n + 1 trials are those of n and one more.                   *)
LEMMA RowsGrow ==
    ASSUME NEW run \in Nat, NEW r \in Nat, NEW n \in Nat
    PROVE  /\ RowsOf(run, r, n) \in [1 .. n -> AllRows]
           /\ RowsOf(run, r, 0) = <<>>
           /\ RowsOf(run, r, n) \o <<[run |-> run, rate |-> r, nth |-> n + 1]>>
                  = RowsOf(run, r, n + 1)
<1>1. \A m \in Nat : RowsOf(run, r, m) \in [1 .. m -> AllRows]
  BY DEF RowsOf, AllRows
<1>2. RowsOf(run, r, 0) = <<>>
  BY <1>1, NoneIsEmpty
<1> DEFINE f == RowsOf(run, r, n + 1)
           g == RowsOf(run, r, n)
<1>3. /\ f[n + 1] = [run |-> run, rate |-> r, nth |-> n + 1]
      /\ \A i \in 1 .. n : g[i] = f[i]
  BY DEF RowsOf
<1>4. f \in [1 .. n + 1 -> AllRows] /\ g \in [1 .. n -> AllRows]
  BY <1>1
<1> HIDE DEF f, g
<1>5. g \o <<f[n + 1]>> = f
  BY <1>3, <1>4, AppendFun
<1> QED
  BY <1>1, <1>2, <1>3, <1>5 DEF f, g

(* The rows of n + 1 rates are those of n and those of one more.           *)
LEMMA RatesGrow ==
    ASSUME NEW run \in Nat, NEW t, NEW n \in Nat
    PROVE  /\ RateRows(run, t, 0) = <<>>
           /\ Append(RateRows(run, t, n), RowsOf(run, n + 1, t)) = RateRows(run, t, n + 1)
<1> DEFINE S == {RowsOf(run, r, t) : r \in Nat}
<1>1. \A m \in Nat : RateRows(run, t, m) \in [1 .. m -> S]
  BY DEF RateRows
<1>2. RateRows(run, t, 0) = <<>>
  BY <1>1, NoneIsEmpty
<1> DEFINE f == RateRows(run, t, n + 1)
           g == RateRows(run, t, n)
<1>3. /\ f[n + 1] = RowsOf(run, n + 1, t)
      /\ \A i \in 1 .. n : g[i] = f[i]
  BY DEF RateRows
<1>4. f \in [1 .. n + 1 -> S] /\ g \in [1 .. n -> S]
  BY <1>1
<1> HIDE DEF f, g, S
<1>5. Append(g, f[n + 1]) = f
  BY <1>3, <1>4, AppendFun
<1> QED
  BY <1>2, <1>3, <1>5 DEF f, g

(* And so are the rows of single benchmarks.                               *)
LEMMA FirstGrow ==
    ASSUME NEW run \in Nat, NEW n \in Nat
    PROVE  /\ FirstRows(run, n) \in [1 .. n -> AllRows]
           /\ FirstRows(run, 0) = <<>>
           /\ FirstRows(run, n) \o <<[run |-> run, rate |-> n + 1, nth |-> 1]>>
                  = FirstRows(run, n + 1)
<1>1. \A m \in Nat : FirstRows(run, m) \in [1 .. m -> AllRows]
  BY DEF FirstRows, AllRows
<1>2. FirstRows(run, 0) = <<>>
  BY <1>1, NoneIsEmpty
<1> DEFINE f == FirstRows(run, n + 1)
           g == FirstRows(run, n)
<1>3. /\ f[n + 1] = [run |-> run, rate |-> n + 1, nth |-> 1]
      /\ \A i \in 1 .. n : g[i] = f[i]
  BY DEF FirstRows
<1>4. f \in [1 .. n + 1 -> AllRows] /\ g \in [1 .. n -> AllRows]
  BY <1>1
<1> HIDE DEF f, g
<1>5. g \o <<f[n + 1]>> = f
  BY <1>3, <1>4, AppendFun
<1> QED
  BY <1>1, <1>2, <1>3, <1>5 DEF f, g

(* The rows of a rate's two lists, one after the other, are of that rate.  *)
LEMMA Doubled ==
    ASSUME NEW run \in Nat, NEW r \in Nat, NEW t \in Nat
    PROVE  LET both == RowsOf(run, r, t) \o RowsOf(run, r, t)
           IN  Len(both) = 2 * t /\ OfOneRate(both)
<1> DEFINE rows == RowsOf(run, r, t)
<1>1. rows \in Seq(AllRows) /\ Len(rows) = t
  BY RowsGrow, FunIsSeq
<1>2. \A i \in 1 .. t : rows[i].run = run /\ rows[i].rate = r
  BY DEF RowsOf
<1> HIDE DEF rows
<1>3. /\ rows \o rows \in Seq(AllRows)
      /\ Len(rows \o rows) = t + t
      /\ \A i \in 1 .. t + t :
             (rows \o rows)[i] = IF i <= t THEN rows[i] ELSE rows[i - t]
  BY <1>1, ConcatProperties
<1>4. \A i \in 1 .. t + t : (rows \o rows)[i].run = run /\ (rows \o rows)[i].rate = r
  BY <1>2, <1>3
<1>5. DOMAIN (rows \o rows) = 1 .. t + t
  BY <1>3, LenProperties
<1>6. OfOneRate(rows \o rows)
  BY <1>4, <1>5 DEF OfOneRate
<1>7. Len(rows \o rows) = 2 * t
  BY <1>3
<1> QED
  BY <1>6, <1>7 DEF rows

(* Whole rounds of N leave the remainder alone.                            *)
LEMMA ModRound ==
    ASSUME NEW N \in Nat \ {0}, NEW L \in Nat, L % N = 0
    PROVE  /\ (L + N) % N = 0
           /\ \A j \in 0 .. N - 1 : (L + j) % N = j
<1> DEFINE q == L \div N
<1>1. q \in Nat /\ L = N * q
  OBVIOUS
<1> HIDE DEF q
<1>2. \A d \in Int : d >= 1 => N * d >= N
  OBVIOUS
<1>3. \A x \in Nat, j \in 0 .. N - 1 : x = N * q + j => x % N = j
  <2> SUFFICES ASSUME NEW x \in Nat, NEW j \in 0 .. N - 1, x = N * q + j
               PROVE  x % N = j
    OBVIOUS
  <2> DEFINE y == x \div N
             z == x % N
  <2>1. y \in Nat /\ z \in 0 .. N - 1 /\ x = N * y + z
    OBVIOUS
  <2> HIDE DEF y, z
  <2>2. N * (y - q) = j - z /\ N * (q - y) = z - j
    BY <1>1, <2>1
  <2>3. ~(y - q >= 1) /\ ~(q - y >= 1)
    BY <1>1, <1>2, <2>1, <2>2
  <2>4. y = q
    BY <1>1, <2>1, <2>3
  <2>5. z = j
    BY <1>1, <2>1, <2>2, <2>4
  <2> QED
    BY <2>5 DEF z
<1>4. \A j \in 0 .. N - 1 : (L + j) % N = j
  BY <1>1, <1>3
<1>5. (L + N) % N = 0
  <2>1. L + N = N * (q + 1)
    BY <1>1
  <2> DEFINE y == (L + N) \div N
             z == (L + N) % N
  <2>2. y \in Nat /\ z \in 0 .. N - 1 /\ L + N = N * y + z
    OBVIOUS
  <2> HIDE DEF y, z
  <2>3. N * (y - (q + 1)) = 0 - z /\ N * ((q + 1) - y) = z
    BY <1>1, <2>1, <2>2
  <2>4. ~(y - (q + 1) >= 1) /\ ~((q + 1) - y >= 1)
    BY <1>1, <1>2, <2>2, <2>3
  <2>5. y = q + 1
    BY <1>1, <2>2, <2>4
  <2>6. z = 0
    BY <1>1, <2>1, <2>2, <2>5
  <2> QED
    BY <2>6 DEF z
<1> QED
  BY <1>4, <1>5

(* A run of dropped_graphs.py that saves its rows, or the first of them    *)
(* and is put down as failed, goes on rate by rate in its file.            *)
LEMMA DroppedAppend ==
    ASSUME NEW rows, NEW short, NEW longer, DroppedWhole(rows, short), short \subseteq longer,
           NEW run \in Nat, NEW k \in 0 .. NumRates["dropped"],
           k = NumRates["dropped"] \/ run \in longer
    PROVE  DroppedWhole(rows \o FirstRows(run, k), longer)
<1> DEFINE N == NumRates["dropped"]
           more == FirstRows(run, k)
           L == Len(rows)
           all == rows \o more
<1>1. N \in Nat \ {0} /\ k \in Nat /\ k <= N
  BY GraphScriptsAssumption DEF Scripts
<1> HIDE DEF N
<1>2. more \in Seq(AllRows) /\ Len(more) = k
  BY <1>1, FirstGrow, FunIsSeq
<1>3. rows \in Seq(AllRows) /\ L \in Nat
  BY SeqIsFun DEF DroppedWhole
<1>4. \A i \in 1 .. k : more[i] = [run |-> run, rate |-> i, nth |-> 1]
  BY DEF FirstRows
<1>5. /\ all \in Seq(AllRows)
      /\ Len(all) = L + k
      /\ \A i \in 1 .. L + k : all[i] = IF i <= L THEN rows[i] ELSE more[i - L]
  <2> HIDE DEF more
  <2> QED
    BY <1>2, <1>3, ConcatProperties
<1>6. \A i \in 1 .. L :
          /\ rows[i].rate > 1 =>
                 i > 1 /\ rows[i - 1] = [rows[i] EXCEPT !.rate = @ - 1]
          /\ rows[i].rate < N /\ rows[i].run \notin short =>
                 i < L /\ rows[i + 1] = [rows[i] EXCEPT !.rate = @ + 1]
  BY DEF DroppedWhole, N
<1>7. k = N \/ run \in longer
  BY DEF N
<1> HIDE DEF more, L, all
<1>8. ASSUME NEW i \in 1 .. L + k
      PROVE  /\ all[i].rate > 1 =>
                    i > 1 /\ all[i - 1] = [all[i] EXCEPT !.rate = @ - 1]
             /\ all[i].rate < N /\ all[i].run \notin longer =>
                    i < L + k /\ all[i + 1] = [all[i] EXCEPT !.rate = @ + 1]
  <2>1. CASE i <= L
    <3>1. i \in 1 .. L /\ all[i] = rows[i]
      BY <1>1, <1>3, <1>5, <2>1
    <3>2. i > 1 => all[i - 1] = rows[i - 1]
      BY <1>1, <1>3, <1>5, <2>1
    <3>3. i < L => all[i + 1] = rows[i + 1] /\ i < L + k
      BY <1>1, <1>3, <1>5, <2>1
    <3>4. all[i].run \notin longer => rows[i].run \notin short
      BY <3>1
    <3> QED
      BY <1>6, <3>1, <3>2, <3>3, <3>4
  <2>2. CASE ~(i <= L)
    <3>1. PICK j \in 1 .. k : i = L + j
      <4>1. i - L \in 1 .. k /\ i = L + (i - L)
        BY <1>1, <1>3, <2>2
      <4> QED
        BY <4>1
    <3>2. all[i] = [run |-> run, rate |-> j, nth |-> 1]
      BY <1>1, <1>3, <1>4, <1>5, <2>2, <3>1
    <3>3. j > 1 => i > 1 /\ all[i - 1] = [run |-> run, rate |-> j - 1, nth |-> 1]
      <4> SUFFICES ASSUME j > 1 PROVE i > 1 /\ all[i - 1] = [run |-> run, rate |-> j - 1, nth |-> 1]
        OBVIOUS
      <4>1. i > 1 /\ i - 1 \in 1 .. L + k /\ ~(i - 1 <= L) /\ (i - 1) - L = j - 1 /\ j - 1 \in 1 .. k
        BY <1>1, <1>3, <3>1
      <4>2. all[i - 1] = more[j - 1]
        BY <1>5, <4>1
      <4> QED
        BY <1>4, <4>1, <4>2
    <3>4. j < k => i < L + k /\ all[i + 1] = [run |-> run, rate |-> j + 1, nth |-> 1]
      <4> SUFFICES ASSUME j < k PROVE i < L + k /\ all[i + 1] = [run |-> run, rate |-> j + 1, nth |-> 1]
        OBVIOUS
      <4>1. i < L + k /\ i + 1 \in 1 .. L + k /\ ~(i + 1 <= L) /\ (i + 1) - L = j + 1 /\ j + 1 \in 1 .. k
        BY <1>1, <1>3, <3>1
      <4>2. all[i + 1] = more[j + 1]
        BY <1>5, <4>1
      <4> QED
        BY <1>4, <4>1, <4>2
    <3> QED
      BY <1>1, <1>7, <3>2, <3>3, <3>4
  <2> QED
    BY <2>1, <2>2
<1>9. DroppedWhole(all, longer)
  BY <1>5, <1>8 DEF DroppedWhole, N
<1> QED
  BY <1>9 DEF all, more

(* The first rows of a rate's, or of a run's, are those of fewer.          *)
LEMMA FirstOf ==
    ASSUME NEW run \in Nat, NEW r \in Nat, NEW n \in Nat, NEW m \in 0 .. n
    PROVE  /\ SubSeq(RowsOf(run, r, n), 1, m) = RowsOf(run, r, m)
           /\ SubSeq(FirstRows(run, n), 1, m) = FirstRows(run, m)
<1>1. ASSUME NEW s \in Seq(AllRows), NEW t \in Seq(AllRows), Len(s) = n, Len(t) = m,
             \A i \in 1 .. m : t[i] = s[i]
      PROVE  SubSeq(s, 1, m) = t
  <2>1. SubSeq(s, 1, m) = [i \in 1 .. m |-> s[i]]
    BY <1>1
  <2>2. t \in [1 .. m -> AllRows]
    BY <1>1, SeqIsFun
  <2> QED
    BY <1>1, <2>1, <2>2
<1>2. \A k \in Nat : /\ RowsOf(run, r, k) \in Seq(AllRows) /\ Len(RowsOf(run, r, k)) = k
                     /\ FirstRows(run, k) \in Seq(AllRows) /\ Len(FirstRows(run, k)) = k
  BY RowsGrow, FirstGrow, FunIsSeq
<1>3. /\ \A i \in 1 .. m : RowsOf(run, r, m)[i] = RowsOf(run, r, n)[i]
      /\ \A i \in 1 .. m : FirstRows(run, m)[i] = FirstRows(run, n)[i]
  BY DEF RowsOf, FirstRows
<1>4. m \in Nat
  OBVIOUS
<1> QED
  BY <1>1, <1>2, <1>3, <1>4

(* A curve that is saved starts its file's next run at second 1.           *)
LEMMA MemoryAppend ==
    ASSUME NEW rows, NEW r \in Nat, MemoryWhole(rows, r), NEW run \in Nat, NEW k \in Nat
    PROVE  MemoryWhole(rows \o RowsOf(run, r, k), r)
<1> DEFINE more == RowsOf(run, r, k)
<1>1. more \in Seq(AllRows) /\ Len(more) = k
  BY RowsGrow, FunIsSeq
<1>2. rows \in Seq(AllRows) /\ Len(rows) \in Nat
  BY SeqIsFun DEF MemoryWhole
<1>3. \A i \in 1 .. k : more[i] = [run |-> run, rate |-> r, nth |-> i]
  BY DEF RowsOf
<1> HIDE DEF more
<1>4. /\ rows \o more \in Seq(AllRows)
      /\ Len(rows \o more) = Len(rows) + k
      /\ \A i \in 1 .. Len(rows) + k :
             (rows \o more)[i] = IF i <= Len(rows) THEN rows[i] ELSE more[i - Len(rows)]
  BY <1>1, <1>2, ConcatProperties
<1>5. ASSUME NEW i \in 1 .. Len(rows) + k
      PROVE  LET all == rows \o more IN
             /\ all[i].rate = r
             /\ all[i].nth > 1 => i > 1 /\ all[i - 1] = [all[i] EXCEPT !.nth = @ - 1]
  <2>1. CASE i <= Len(rows)
    <3>1. i \in 1 .. Len(rows) /\ (rows \o more)[i] = rows[i]
      BY <1>2, <1>4, <2>1
    <3>2. i > 1 => (rows \o more)[i - 1] = rows[i - 1]
      BY <1>2, <1>4, <2>1
    <3> QED
      BY <3>1, <3>2 DEF MemoryWhole
  <2>2. CASE ~(i <= Len(rows))
    <3>1. PICK j \in 1 .. k : i = Len(rows) + j
      <4>1. i - Len(rows) \in 1 .. k /\ i = Len(rows) + (i - Len(rows))
        BY <1>2, <2>2
      <4> QED
        BY <4>1
    <3>2. (rows \o more)[i] = [run |-> run, rate |-> r, nth |-> j]
      BY <1>2, <1>3, <1>4, <2>2, <3>1
    <3>3. CASE j = 1
      BY <3>2, <3>3
    <3>4. CASE j # 1
      <4>1. (rows \o more)[i - 1] = more[j - 1] /\ j - 1 \in 1 .. k /\ i > 1
        BY <1>2, <1>4, <3>1, <3>4
      <4>2. (rows \o more)[i - 1] = [run |-> run, rate |-> r, nth |-> j - 1]
        BY <1>3, <4>1
      <4> QED
        BY <3>2, <4>1, <4>2
    <3> QED
      BY <3>3, <3>4
  <2> QED
    BY <2>1, <2>2
<1> QED
  BY <1>4, <1>5 DEF MemoryWhole, more

-----------------------------------------------------------------------------
(* The script that runs is the last one, with numbers for its trials.      *)
LEMMA ScriptFacts ==
    ASSUME runs \in Seq(RunType), runs # <<>>
    PROVE  /\ Len(runs) \in Nat \ {0}
           /\ script = runs[Len(runs)] /\ script \in RunType
           /\ script.name \in Scripts
           /\ script.trials # NoArg => script.trials \in Nat
           /\ NumRates[script.name] \in Nat \ {0}
<1>1. Len(runs) \in Nat \ {0}
  BY EmptySeq
<1>2. script = runs[Len(runs)]
  BY DEF script, Last
<1>3. script \in RunType
  BY <1>1, <1>2, ElementOfSeq
<1> QED
  BY <1>1, <1>2, <1>3, GraphScriptsAssumption DEF RunType

(* Before the first run there are no files and no figures.                 *)
LEMMA DrawnInit == Init => Drawn
<1> SUFFICES ASSUME Init PROVE Drawn
  OBVIOUS
<1>1. runs \in Seq(RunType) /\ Lists /\ \A f \in figures : FigureWhole(f)
  BY EmptySeq DEF Init, Lists, Busy
<1>2. /\ File("dropped") \in Files
      /\ \A r \in 1 .. NumRates["memory"] : MemoryFile(r) \in Files
  BY FilesDiffer DEF Files
<1>3. /\ <<>> \in Seq(AllRows) /\ Len(<<>>) = 0 /\ 1 .. 0 = {}
  BY EmptySeq
<1>4. failed = [name \in Scripts |-> {}]
  BY DEF Init
<1>5. DroppedWhole(<<>>, {}) /\ \A r \in 1 .. NumRates["memory"] : MemoryWhole(<<>>, r)
  BY <1>3 DEF DroppedWhole, MemoryWhole
<1>6. FilesKept
  BY <1>2, <1>4, <1>5 DEF Init, FilesKept, Scripts
<1> QED
  BY <1>1, <1>4, <1>6 DEF Drawn

(* A script begins with empty lists.                                       *)
LEMMA RunLists == ASSUME Drawn, RunScript PROVE Drawn'
<1>1. PICK name \in Scripts, n \in Trials \cup {NoArg} :
          runs' = Append(runs, [name |-> name, trials |-> n])
  BY DEF RunScript
<1>2. runs \in Seq(RunType) /\ Len(runs) \in Nat
  BY SeqIsFun DEF Drawn
<1> DEFINE e == [name |-> name, trials |-> n]
<1>3. e \in RunType
  BY DEF RunType
<1> HIDE DEF e
<1>4. /\ runs' \in Seq(RunType) /\ runs' # <<>>
      /\ Len(runs') = Len(runs) + 1
      /\ \A i \in 1 .. Len(runs) : runs'[i] = runs[i]
      /\ runs'[Len(runs')] = e
  BY <1>1, <1>2, <1>3, AppendProperties DEF e
<1>5. script' = e
  BY <1>4 DEF script, Last
<1>6. /\ pc' = "group" /\ rate' = 1 /\ trial' = 0
      /\ temp' = Empty /\ averaged' = Empty
      /\ UNCHANGED <<files, figures, failed>>
  BY DEF RunScript, Goto
<1>7. /\ \A k \in Kinds : Empty[k] = <<>>
      /\ "traced" \in Kinds
      /\ 1 \in 1 .. NumRates[script'.name]
  <2>1. e.name \in Scripts
    BY <1>3 DEF RunType
  <2>2. NumRates[e.name] \in Nat \ {0}
    BY <2>1, GraphScriptsAssumption
  <2> QED
    BY <1>5, <2>2 DEF Empty, Kinds
<1>8. Position'
  BY <1>4, <1>6, <1>7 DEF Position, LoopLeft
<1>9. DoneRates' = 0 /\ Len(runs') \in Nat
  BY <1>2, <1>4, <1>6 DEF DoneRates, LoopLeft
<1>10. CpuLists'
  <2>1. /\ \A k \in Kinds : averaged'[k] = RateRows(Len(runs'), script'.trials, 0)
        /\ \A k \in Kinds : temp'[k] = RowsOf(Len(runs'), rate', 0)
    BY <1>6, <1>7, <1>9, RowsGrow, RatesGrow
  <2>2. script'.trials # NoArg => 0 <= script'.trials
    <3>1. e.trials \in Trials \cup {NoArg}
      BY <1>3 DEF RunType
    <3>2. \A t \in Trials : t \in Nat /\ 0 <= t
      BY GraphScriptsAssumption
    <3>3. e.trials # NoArg => 0 <= e.trials
      BY <3>1, <3>2
    <3> QED
      BY <1>5, <3>3
  <2> QED
    BY <1>6, <1>9, <2>1, <2>2 DEF CpuLists, LoopLeft
<1>11. DroppedLists'
  BY <1>6, <1>7, <1>9, FirstGrow DEF DroppedLists
<1>12. MemoryLists'
  <2>1. <<>> \in Seq(Seq(AllRows)) /\ Len(<<>>) = 0
    BY EmptySeq
  <2>2. "traced" \in DOMAIN averaged'
    BY <1>6 DEF Empty, Kinds
  <2> QED
    BY <1>6, <1>7, <1>9, <2>1, <2>2 DEF MemoryLists
<1>13. \A f \in figures' : FigureWhole(f)'
  <2> SUFFICES ASSUME NEW f \in figures PROVE FigureWhole(f)'
    BY <1>6
  <2>1. FigureWhole(f)
    BY DEF Drawn
  <2>2. f.run \in 1 .. Len(runs) /\ runs'[f.run] = runs[f.run] /\ f.run \in 1 .. Len(runs')
    BY <1>2, <1>4, <2>1 DEF FigureWhole
  <2> QED
    BY <2>1, <2>2 DEF FigureWhole
<1>14. FilesKept'
  BY <1>6 DEF Drawn, FilesKept
<1>15. failed' \in [Scripts -> SUBSET (1 .. Len(runs'))]
  <2>1. 1 .. Len(runs) \subseteq 1 .. Len(runs')
    BY <1>2, <1>4
  <2> QED
    BY <1>6, <2>1 DEF Drawn
<1> QED
  BY <1>4, <1>8, <1>10, <1>11, <1>12, <1>13, <1>14, <1>15 DEF Drawn, Lists

(* A step within a run leaves the figures whole that there are.            *)
LEMMA FiguresStay == ASSUME Drawn, UNCHANGED <<runs, figures>>
                     PROVE  \A f \in figures' : FigureWhole(f)'
BY DEF Drawn, FigureWhole

(* A step that draws and saves nothing need only keep the lists.           *)
LEMMA ListsOnly == ASSUME Drawn, UNCHANGED <<runs, figures, files, failed>>, Lists'
                   PROVE  Drawn'
BY FiguresStay DEF Drawn, FilesKept

(* A traced benchmark adds its rows.                                       *)
LEMMA TracedLists == ASSUME Inv, Drawn, BenchmarkTraced PROVE Drawn'
<1>0. /\ UNCHANGED <<runs, rate, trial, averaged, files, figures, failed>>
      /\ pc = "trial" /\ pc' = AfterTraced /\ TrialsLeft
  BY DEF BenchmarkTraced, Goto
<1>1. PICK r \in Results : temp' = [temp EXCEPT !["traced"] = @ \o r]
  BY DEF BenchmarkTraced
<1>2. Position /\ CpuLists /\ DroppedLists /\ MemoryLists /\ runs \in Seq(RunType)
  BY <1>0 DEF Drawn, Lists, Busy
<1>3. /\ script' = script /\ Len(runs) \in Nat \ {0} /\ script \in RunType
      /\ script.name \in Scripts
      /\ NumRates[script.name] \in Nat \ {0}
      /\ script.trials # NoArg => script.trials \in Nat
      /\ rate \in Nat /\ trial \in Nat
  <2>1. script' = script
    BY <1>0 DEF script
  <2> QED
    BY <1>2, <2>1, ScriptFacts DEF Position
<1>4. /\ temp'["traced"] = temp["traced"] \o r
      /\ temp'["untraced"] = temp["untraced"]
  BY <1>1 DEF Inv, Kinds
<1>5. Row(trial + 1) = [run |-> Len(runs), rate |-> rate, nth |-> trial + 1]
  BY DEF Row
<1>6. CASE script.name = "cpu"
  <2>1. pc' = "untraced" /\ r = <<Row(trial + 1)>>
    BY <1>0, <1>6, OneRow DEF AfterTraced
  <2>2. /\ temp["traced"] = RowsOf(Len(runs), rate, trial)
        /\ temp["untraced"] = RowsOf(Len(runs), rate, trial)
    BY <1>0, <1>2, <1>6 DEF CpuLists, Kinds
  <2>3. temp'["traced"] = RowsOf(Len(runs), rate, trial + 1)
    <3>1. /\ r = <<[run |-> Len(runs), rate |-> rate, nth |-> trial + 1]>>
          /\ Len(runs) \in Nat /\ rate \in Nat /\ trial \in Nat
      BY <1>3, <1>5, <2>1
    <3>2. RowsOf(Len(runs), rate, trial) \o r = RowsOf(Len(runs), rate, trial + 1)
      BY <3>1, RowsGrow
    <3> QED
      BY <1>4, <2>2, <3>2
  <2>4. trial < script.trials /\ script.trials # NoArg
    BY <1>0, <1>3, <1>6, GraphScriptsAssumption DEF TrialsLeft, NoArg, RunType
  <2>5. DoneRates' = DoneRates
    BY <1>0, <2>1 DEF DoneRates, LoopLeft
  <2>6. Position' /\ CpuLists' /\ DroppedLists' /\ MemoryLists'
    <3>1. Position'
      BY <1>0, <1>2, <1>3, <1>6, <2>1 DEF Position, LoopLeft
    <3>2. CpuLists'
      BY <1>0, <1>2, <1>3, <1>4, <1>6, <2>1, <2>2, <2>3, <2>4, <2>5
         DEF CpuLists, LoopLeft
    <3> QED
      BY <1>3, <1>6, <3>1, <3>2 DEF DroppedLists, MemoryLists
  <2> QED
    BY <1>0, <2>6, ListsOnly DEF Lists
<1>7. CASE script.name = "dropped"
  <2>1. pc' = "next" /\ r = <<Row(trial + 1)>>
    BY <1>0, <1>7 DEF AfterTraced, Results
  <2>2. trial = 0 /\ temp["traced"] = FirstRows(Len(runs), rate - 1)
    BY <1>0, <1>2, <1>7 DEF DroppedLists, DoneRates, LoopLeft
  <2>3. rate - 1 \in Nat /\ (rate - 1) + 1 = rate
    BY <1>2, <1>3 DEF Position
  <2>4. temp'["traced"] = FirstRows(Len(runs), rate)
    <3>1. r = <<[run |-> Len(runs), rate |-> (rate - 1) + 1, nth |-> 1]>>
      BY <1>5, <2>1, <2>2, <2>3
    <3>2. FirstRows(Len(runs), rate - 1) \o r = FirstRows(Len(runs), (rate - 1) + 1)
      BY <1>3, <2>3, <3>1, FirstGrow
    <3> QED
      BY <1>4, <2>2, <2>3, <3>2
  <2>5. DoneRates' = rate
    BY <1>0, <2>1 DEF DoneRates
  <2>6. Position' /\ CpuLists' /\ DroppedLists' /\ MemoryLists'
    <3>1. Position'
      BY <1>0, <1>2, <1>3, <1>7, <2>1 DEF Position, LoopLeft
    <3>2. DroppedLists'
      BY <1>0, <1>3, <2>2, <2>4, <2>5 DEF DroppedLists
    <3> QED
      BY <1>3, <1>7, <3>1, <3>2 DEF CpuLists, MemoryLists
  <2> QED
    BY <1>0, <2>6, ListsOnly DEF Lists
<1>8. CASE script.name = "memory"
  <2>1. /\ pc' = "save_memory"
        /\ \E k \in Seconds : r = [n \in 1 .. k |-> Row(n)]
    BY <1>0, <1>8 DEF AfterTraced, Results
  <2>2. PICK k \in Nat : r = RowsOf(Len(runs), rate, k)
    BY <2>1, GraphScriptsAssumption DEF RowsOf, Row
  <2>3. temp["traced"] = <<>>
    BY <1>0, <1>2, <1>8 DEF MemoryLists, Empty, Kinds
  <2>4. temp'["traced"] = RowsOf(Len(runs), rate, k)
    <3>1. r \in Seq(AllRows)
      BY <1>3, <2>2, RowsGrow, FunIsSeq
    <3> QED
      BY <1>4, <2>2, <2>3, <3>1, ConcatEmptySeq
  <2>5. DoneRates' = DoneRates
    BY <1>0, <2>1 DEF DoneRates, LoopLeft
  <2>6. Position' /\ CpuLists' /\ DroppedLists' /\ MemoryLists'
    <3>1. Position'
      BY <1>0, <1>2, <1>3, <1>8, <2>1 DEF Position, LoopLeft
    <3>2. MemoryLists'
      BY <1>0, <1>2, <1>3, <1>8, <2>1, <2>4, <2>5 DEF MemoryLists
    <3> QED
      BY <1>3, <1>8, <3>1, <3>2 DEF CpuLists, DroppedLists
  <2> QED
    BY <1>0, <2>6, ListsOnly DEF Lists
<1> QED
  BY <1>3, <1>6, <1>7, <1>8 DEF Scripts

(* An untraced benchmark ends a trial.                                     *)
LEMMA UntracedLists == ASSUME Inv, Drawn, BenchmarkUntraced PROVE Drawn'
<1>0. /\ UNCHANGED <<runs, rate, averaged, files, figures, failed>>
      /\ pc = "untraced" /\ pc' = "trial" /\ trial' = trial + 1
  BY DEF BenchmarkUntraced, Goto
<1>1. PICK r \in Results : temp' = [temp EXCEPT !["untraced"] = @ \o r]
  BY DEF BenchmarkUntraced
<1>2. Position /\ CpuLists /\ runs \in Seq(RunType)
  BY <1>0 DEF Drawn, Lists, Busy
<1>3. /\ script' = script /\ Len(runs) \in Nat \ {0} /\ script.name = "cpu"
      /\ rate \in Nat /\ trial \in Nat
      /\ NumRates[script.name] \in Nat \ {0}
      /\ script.trials # NoArg => script.trials \in Nat
  <2>1. script' = script
    BY <1>0 DEF script
  <2> QED
    BY <1>0, <1>2, <2>1, ScriptFacts DEF Position
<1>4. /\ temp'["untraced"] = temp["untraced"] \o <<Row(trial + 1)>>
      /\ temp'["traced"] = temp["traced"]
  BY <1>1, <1>3, OneRow DEF Inv, Kinds
<1>5. temp'["untraced"] = RowsOf(Len(runs), rate, trial + 1)
  <2>1. temp["untraced"] = RowsOf(Len(runs), rate, trial)
    BY <1>0, <1>2, <1>3 DEF CpuLists
  <2>2. Row(trial + 1) = [run |-> Len(runs), rate |-> rate, nth |-> trial + 1]
    BY DEF Row
  <2>3. Len(runs) \in Nat /\ rate \in Nat /\ trial \in Nat
    BY <1>3
  <2>4. RowsOf(Len(runs), rate, trial) \o <<Row(trial + 1)>> = RowsOf(Len(runs), rate, trial + 1)
    BY <2>2, <2>3, RowsGrow
  <2> QED
    BY <1>4, <2>1, <2>4
<1>6. DoneRates' = DoneRates
  BY <1>0 DEF DoneRates, LoopLeft
<1>7. Position'
  BY <1>0, <1>2, <1>3 DEF Position, LoopLeft
<1>8. CpuLists'
  <2>1. /\ temp'["traced"] = RowsOf(Len(runs), rate, trial + 1)
        /\ trial + 1 <= script.trials
    BY <1>0, <1>2, <1>3, <1>4 DEF CpuLists
  <2>2. \A k \in Kinds : temp'[k] = RowsOf(Len(runs), rate, trial + 1)
    BY <1>5, <2>1 DEF Kinds
  <2> QED
    BY <1>0, <1>2, <1>3, <1>6, <2>1, <2>2 DEF CpuLists, LoopLeft
<1> QED
  BY <1>0, <1>3, <1>7, <1>8, ListsOnly DEF Lists, DroppedLists, MemoryLists

(* Saving appends to one file; the figures do not change.                  *)
LEMMA SaveKeeps ==
    ASSUME Inv, Drawn, NEW f \in Files, NEW rows, Save(f, rows),
           UNCHANGED <<runs, figures>>, Lists',
           failed' \in [Scripts -> SUBSET (1 .. Len(runs))],
           IF f = File("dropped") THEN DroppedWhole(files[f] \o rows, failed'["dropped"])
                                  ELSE UNCHANGED failed["dropped"],
           \A r \in 1 .. NumRates["memory"] :
               f = MemoryFile(r) => MemoryWhole(files[f] \o rows, r)
    PROVE  Drawn'
<1>1. /\ files'[f] = files[f] \o rows
      /\ \A g \in Files : g # f => files'[g] = files[g]
  <2>1. files = [g \in Files |-> files[g]]
    BY DEF Inv
  <2>2. f \in Files => files'[f] = files[f] \o rows
    BY <2>1, SaveOne
  <2>3. \A g \in Files : g # f => files'[g] = files[g]
    BY <2>1, SaveOne
  <2> QED
    BY <2>2, <2>3
<1>2. /\ File("dropped") \in Files
      /\ \A r \in 1 .. NumRates["memory"] : MemoryFile(r) \in Files
  BY FilesDiffer DEF Files
<1>3. DroppedWhole(files'[File("dropped")], failed'["dropped"])
  BY <1>1, <1>2 DEF Drawn, FilesKept
<1>4. \A r \in 1 .. NumRates["memory"] : MemoryWhole(files'[MemoryFile(r)], r)
  BY <1>1, <1>2 DEF Drawn, FilesKept
<1> QED
  BY <1>3, <1>4, FiguresStay DEF Drawn, FilesKept

(* After its trials a rate is saved to the two files and averaged.         *)
LEMMA CpuSaved == ASSUME Inv, Drawn, SaveTraced \/ SaveUntraced PROVE Drawn'
<1>0. UNCHANGED <<runs, rate, trial, temp, figures, failed>>
  BY DEF SaveTraced, SaveUntraced
<1>1. /\ Position /\ CpuLists /\ runs \in Seq(RunType)
      /\ failed \in [Scripts -> SUBSET (1 .. Len(runs))]
      /\ pc \in {"trial", "save_untraced"}
  BY DEF Drawn, Lists, Busy, SaveTraced, SaveUntraced, Goto
<1>2. script' = script
  BY <1>0 DEF script
<1>3. /\ Len(runs) \in Nat \ {0} /\ script.name \in Scripts
      /\ script.trials # NoArg => script.trials \in Nat
      /\ NumRates[script.name] \in Nat \ {0}
      /\ rate \in Nat /\ trial \in Nat
  BY <1>1, ScriptFacts DEF Position
<1>4. CASE SaveTraced
  <2>1. /\ pc = "trial" /\ pc' = "save_untraced" /\ averaged' = averaged
        /\ script.name = "cpu" /\ script.trials # NoArg /\ trial >= script.trials
        /\ Save(File("traced"), temp["traced"])
    BY <1>3, <1>4 DEF SaveTraced, TrialsLeft, Goto
  <2>2. trial = script.trials
    BY <1>1, <1>3, <2>1 DEF CpuLists
  <2>3. DoneRates' = DoneRates
    BY <1>0, <2>1 DEF DoneRates, LoopLeft
  <2>4. Position'
    BY <1>0, <1>1, <1>2, <2>1 DEF Position, LoopLeft
  <2>5. CpuLists'
    BY <1>0, <1>1, <1>2, <2>1, <2>2, <2>3 DEF CpuLists, LoopLeft
  <2>6. Lists'
    BY <1>2, <2>1, <2>4, <2>5 DEF Lists, DroppedLists, MemoryLists
  <2>7. /\ File("traced") \in Files /\ File("traced") # File("dropped")
        /\ \A r : File("traced") # MemoryFile(r)
    BY FilesDiffer DEF Kinds
  <2> QED
    BY <1>0, <1>1, <2>1, <2>6, <2>7, SaveKeeps
<1>5. CASE SaveUntraced
  <2>1. /\ pc = "save_untraced" /\ pc' = "next"
        /\ averaged' = [k \in Kinds |-> Append(averaged[k], temp[k])]
        /\ Save(File("untraced"), temp["untraced"])
    BY <1>5 DEF SaveUntraced, Goto
  <2>2. script.name = "cpu" /\ script.trials # NoArg
    BY <1>1, <2>1 DEF Position, CpuLists
  <2>3. DoneRates = rate - 1 /\ DoneRates' = rate /\ rate - 1 \in Nat
    BY <1>0, <1>1, <1>3, <2>1 DEF DoneRates, LoopLeft, Position
  <2>4. \A k \in Kinds : averaged'[k] = RateRows(Len(runs), script.trials, rate)
    <3> DEFINE n == rate - 1
    <3>1. n \in Nat /\ n + 1 = rate
      BY <1>3, <2>3
    <3>2. \A k \in Kinds : /\ averaged[k] = RateRows(Len(runs), script.trials, n)
                           /\ temp[k] = RowsOf(Len(runs), n + 1, script.trials)
      BY <1>1, <2>1, <2>2, <2>3, <3>1 DEF CpuLists
    <3> HIDE DEF n
    <3>3. Append(RateRows(Len(runs), script.trials, n), RowsOf(Len(runs), n + 1, script.trials))
              = RateRows(Len(runs), script.trials, n + 1)
      BY <1>3, <3>1, RatesGrow
    <3> QED
      BY <2>1, <3>1, <3>2, <3>3
  <2>5. Position'
    BY <1>0, <1>1, <1>2, <2>1, <2>2 DEF Position, LoopLeft
  <2>6. CpuLists'
    BY <1>0, <1>1, <1>2, <2>1, <2>2, <2>3, <2>4 DEF CpuLists, LoopLeft
  <2>7. Lists'
    BY <1>2, <2>2, <2>5, <2>6 DEF Lists, DroppedLists, MemoryLists
  <2>8. /\ File("untraced") \in Files /\ File("untraced") # File("dropped")
        /\ \A r : File("untraced") # MemoryFile(r)
    BY FilesDiffer DEF Kinds
  <2> QED
    BY <1>0, <1>1, <2>1, <2>7, <2>8, SaveKeeps
<1> QED
  BY <1>4, <1>5

(* A curve of memory is drawn and saved.                                   *)
LEMMA MemorySaved == ASSUME Inv, Drawn, SaveMemory PROVE Drawn'
<1>0. /\ UNCHANGED <<runs, rate, trial, temp, figures, failed>>
      /\ pc = "save_memory" /\ pc' = "next"
      /\ averaged' = [averaged EXCEPT !["traced"] = Append(@, temp["traced"])]
      /\ Save(MemoryFile(rate), temp["traced"])
  BY DEF SaveMemory, Goto
<1>1. /\ Position /\ MemoryLists /\ runs \in Seq(RunType) /\ FilesKept
      /\ failed \in [Scripts -> SUBSET (1 .. Len(runs))]
  BY <1>0 DEF Drawn, Lists, Busy
<1>2. script' = script /\ script.name = "memory"
  BY <1>0, <1>1 DEF script, Position
<1>3. Len(runs) \in Nat \ {0} /\ rate \in 1 .. NumRates["memory"] /\ rate \in Nat
  BY <1>1, <1>2, ScriptFacts DEF Position
<1>4. PICK k \in Nat : temp["traced"] = RowsOf(Len(runs), rate, k)
  BY <1>0, <1>1, <1>2 DEF MemoryLists
<1>5. temp["traced"] \in Seq(AllRows)
  <2>1. RowsOf(Len(runs), rate, k) \in [1 .. k -> AllRows]
    BY <1>3, RowsGrow
  <2> QED
    BY <1>4, <2>1, FunIsSeq
<1>6. DoneRates = rate - 1 /\ DoneRates' = rate
  BY <1>0 DEF DoneRates, LoopLeft
<1>7. /\ "traced" \in DOMAIN averaged'
      /\ averaged'["traced"] \in Seq(Seq(AllRows))
      /\ Len(averaged'["traced"]) = rate
  <2>1. averaged["traced"] \in Seq(Seq(AllRows)) /\ Len(averaged["traced"]) = rate - 1
    BY <1>1, <1>2, <1>6 DEF MemoryLists
  <2>2. /\ Append(averaged["traced"], temp["traced"]) \in Seq(Seq(AllRows))
        /\ Len(Append(averaged["traced"], temp["traced"])) = rate - 1 + 1
    BY <1>5, <2>1, AppendProperties
  <2>3. /\ "traced" \in DOMAIN averaged'
        /\ averaged'["traced"] = Append(averaged["traced"], temp["traced"])
    BY <1>0, <1>1, <1>2 DEF MemoryLists
  <2> QED
    BY <1>3, <2>2, <2>3
<1>8. Lists'
  <2>1. Position'
    BY <1>0, <1>1, <1>2 DEF Position, LoopLeft
  <2>2. MemoryLists'
    BY <1>0, <1>6, <1>7 DEF MemoryLists
  <2> QED
    BY <1>2, <2>1, <2>2 DEF Lists, CpuLists, DroppedLists
<1>9. MemoryWhole(files[MemoryFile(rate)] \o temp["traced"], rate)
  BY <1>1, <1>3, <1>4, MemoryAppend DEF FilesKept
<1>10. /\ MemoryFile(rate) \in Files /\ MemoryFile(rate) # File("dropped")
       /\ \A r \in 1 .. NumRates["memory"] : MemoryFile(rate) = MemoryFile(r) => r = rate
  BY <1>3 DEF MemoryFile, Files, File
<1> QED
  BY <1>0, <1>1, <1>8, <1>9, <1>10, SaveKeeps

(* The rates and trials that are done stay in the lists.                   *)
LEMMA NextRateLists == ASSUME Inv, Drawn, NextRate PROVE Drawn'
<1>0. UNCHANGED <<runs, averaged, files, figures, failed>> /\ pc = "next"
  BY DEF NextRate, Goto
<1>1. Position /\ CpuLists /\ DroppedLists /\ MemoryLists /\ runs \in Seq(RunType)
  BY <1>0 DEF Drawn, Lists, Busy
<1>2. /\ script' = script
      /\ Len(runs) \in Nat \ {0} /\ script.name \in Scripts
      /\ script.trials # NoArg => script.trials \in Nat
      /\ NumRates[script.name] \in Nat \ {0}
      /\ rate \in Nat /\ trial \in Nat
  <2>1. script' = script
    BY <1>0 DEF script
  <2> QED
    BY <1>1, <2>1, ScriptFacts DEF Position
<1>3. DoneRates = rate
  BY <1>0 DEF DoneRates
<1>4. CASE rate < NumRates[script.name]
  <2>1. pc' = "trial" /\ rate' = rate + 1 /\ trial' = 0 /\ temp' = ResetTemp
    BY <1>4 DEF NextRate
  <2>2. DoneRates' = rate
    BY <1>2, <2>1 DEF DoneRates, LoopLeft
  <2>3. Position'
    BY <1>0, <1>1, <1>2, <1>4, <2>1 DEF Position, LoopLeft
  <2>4. script.name # "dropped" => temp' = Empty /\ \A k \in Kinds : temp'[k] = <<>>
    BY <2>1 DEF ResetTemp, Empty
  <2>5. CpuLists'
    <3> SUFFICES ASSUME script.name = "cpu" PROVE CpuLists'
      BY <1>2 DEF CpuLists
    <3>1. rate + 1 \in Nat
      BY <1>2
    <3>2. \A k \in Kinds : temp'[k] = RowsOf(Len(runs), rate', 0)
      BY <1>2, <2>1, <2>4, <3>1, RowsGrow
    <3>3. script.trials # NoArg => 0 <= script.trials
      BY <1>2
    <3> QED
      BY <1>0, <1>1, <1>2, <1>3, <2>1, <2>2, <3>2, <3>3 DEF CpuLists, LoopLeft
  <2>6. DroppedLists'
    BY <1>0, <1>1, <1>2, <1>3, <2>1, <2>2 DEF DroppedLists, ResetTemp
  <2>7. MemoryLists'
    BY <1>0, <1>1, <1>2, <1>3, <2>1, <2>2, <2>4 DEF MemoryLists
  <2> QED
    BY <1>0, <2>3, <2>5, <2>6, <2>7, ListsOnly DEF Lists
<1>5. CASE ~(rate < NumRates[script.name])
  <2>1. pc' = "leave" /\ UNCHANGED <<rate, trial, temp>>
    BY <1>5 DEF NextRate
  <2>2. DoneRates' = DoneRates
    BY <1>3, <2>1 DEF DoneRates, LoopLeft
  <2>3. Position'
    BY <1>0, <1>1, <1>2, <1>5, <2>1 DEF Position, LoopLeft
  <2>4. CpuLists' /\ DroppedLists' /\ MemoryLists'
    BY <1>0, <1>1, <1>2, <2>1, <2>2 DEF CpuLists, DroppedLists, MemoryLists, LoopLeft
  <2> QED
    BY <1>0, <2>3, <2>4, ListsOnly DEF Lists
<1> QED
  BY <1>4, <1>5

(* The rows of dropped_graphs.py are saved when its loop is done.          *)
LEMMA DroppedSaved == ASSUME Inv, Drawn, SaveDropped PROVE Drawn'
<1>0. /\ UNCHANGED <<runs, rate, trial, temp, averaged, figures, failed>>
      /\ pc = "save" /\ pc' = "draw"
      /\ Save(File("dropped"), IF script.name = "dropped" THEN temp["traced"] ELSE <<>>)
  BY DEF SaveDropped, Goto
<1>1. /\ Position /\ CpuLists /\ DroppedLists /\ MemoryLists
      /\ runs \in Seq(RunType) /\ FilesKept
      /\ failed \in [Scripts -> SUBSET (1 .. Len(runs))]
  BY <1>0 DEF Drawn, Lists, Busy
<1>2. script' = script /\ DoneRates' = DoneRates /\ DoneRates = rate
  BY <1>0 DEF script, DoneRates, LoopLeft
<1>3. Lists'
  BY <1>0, <1>1, <1>2
     DEF Lists, Position, CpuLists, DroppedLists, MemoryLists, LoopLeft
<1>4. DroppedWhole(files[File("dropped")]
                       \o IF script.name = "dropped" THEN temp["traced"] ELSE <<>>,
                   failed["dropped"])
  <2>1. CASE script.name = "dropped"
    <3>1. temp["traced"] = FirstRows(Len(runs), NumRates["dropped"])
      BY <1>0, <1>1, <1>2, <2>1 DEF DroppedLists, Position, LoopLeft
    <3>2. Len(runs) \in Nat /\ NumRates["dropped"] \in 0 .. NumRates["dropped"]
      BY <1>1, <2>1, ScriptFacts DEF Position
    <3>3. DroppedWhole(files[File("dropped")] \o FirstRows(Len(runs), NumRates["dropped"]),
                       failed["dropped"])
      BY <1>1, <3>2, DroppedAppend DEF FilesKept
    <3> QED
      BY <2>1, <3>1, <3>3
  <2>2. CASE script.name # "dropped"
    <3>1. files[File("dropped")] \in Seq(AllRows)
      BY <1>1 DEF FilesKept, DroppedWhole
    <3>2. files[File("dropped")] \o <<>> = files[File("dropped")]
      BY <3>1, ConcatEmptySeq
    <3> QED
      BY <1>1, <2>2, <3>2 DEF FilesKept
  <2> QED
    BY <2>1, <2>2
<1>5. /\ File("dropped") \in Files
      /\ \A r : File("dropped") # MemoryFile(r)
  BY FilesDiffer DEF File, MemoryFile
<1> QED
  BY <1>0, <1>1, <1>3, <1>4, <1>5, SaveKeeps

(* A script that fails to save its rows has saved the first of them.       *)
LEMMA SaveFails == ASSUME Inv, Drawn, SaveRaises PROVE Drawn'
<1>0. UNCHANGED <<runs, rate, figures>> /\ pc' \in {"unwind", "shell"} /\ Lists'
  BY DEF SaveRaises, Goto, Lists, Busy
<1>1. /\ Position /\ CpuLists /\ DroppedLists /\ MemoryLists /\ runs \in Seq(RunType)
      /\ FilesKept /\ failed \in [Scripts -> SUBSET (1 .. Len(runs))]
  BY DEF SaveRaises, Goto, Drawn, Lists, Busy
<1>2. /\ Len(runs) \in Nat \ {0} /\ script.name \in Scripts
      /\ script.trials # NoArg => script.trials \in Nat
      /\ rate \in 1 .. NumRates[script.name] /\ rate \in Nat
  BY <1>1, ScriptFacts DEF Position
<1>3. /\ failed' = [name \in Scripts |-> failed'[name]]
      /\ \A name \in Scripts :
             failed'[name] = IF name = script.name THEN failed[name] \cup {Len(runs)}
                                                   ELSE failed[name]
  BY FailedGrows
<1>4. failed' \in [Scripts -> SUBSET (1 .. Len(runs))]
  <2>1. Len(runs) \in 1 .. Len(runs)
    BY <1>2
  <2>2. \A name \in Scripts : failed'[name] \in SUBSET (1 .. Len(runs))
    BY <1>1, <1>3, <2>1
  <2> QED
    BY <1>3, <2>2
<1>5. CASE /\ pc \in {"trial", "save_untraced"}
           /\ \E k \in Kinds : SavePart(File(k), temp[k])
           /\ script.name = "cpu"
  <2>0. PICK k \in Kinds : SavePart(File(k), temp[k])
    BY <1>5
  <2>1. PICK rows : Save(File(k), rows)
    BY <2>0 DEF SavePart
  <2>2. UNCHANGED failed["dropped"]
    BY <1>3, <1>5 DEF Scripts
  <2>3. /\ File(k) \in Files /\ File(k) # File("dropped")
        /\ \A r : File(k) # MemoryFile(r)
    BY FilesDiffer
  <2> QED
    BY <1>0, <1>4, <2>1, <2>2, <2>3, SaveKeeps
<1>6. CASE pc = "save_memory" /\ SavePart(MemoryFile(rate), temp["traced"])
  <2>1. script.name = "memory"
    BY <1>1, <1>6 DEF Position
  <2>2. PICK n \in Nat : temp["traced"] = RowsOf(Len(runs), rate, n)
    BY <1>1, <1>6, <2>1 DEF MemoryLists
  <2>3. Len(temp["traced"]) = n
    <3>1. RowsOf(Len(runs), rate, n) \in [1 .. n -> AllRows]
      BY <1>2, RowsGrow
    <3> QED
      BY <2>2, <3>1, FunIsSeq
  <2>4. PICK m \in 0 .. n : Save(MemoryFile(rate), SubSeq(temp["traced"], 1, m))
    BY <1>6, <2>3 DEF SavePart
  <2>5. Len(runs) \in Nat /\ m \in Nat
    BY <1>2
  <2>6. SubSeq(temp["traced"], 1, m) = RowsOf(Len(runs), rate, m)
    <3>1. SubSeq(RowsOf(Len(runs), rate, n), 1, m) = RowsOf(Len(runs), rate, m)
      BY <1>2, <2>5, FirstOf
    <3> QED
      BY <2>2, <3>1
  <2>7. MemoryWhole(files[MemoryFile(rate)], rate)
    BY <1>1, <1>2, <2>1 DEF FilesKept
  <2>8. MemoryWhole(files[MemoryFile(rate)] \o RowsOf(Len(runs), rate, m), rate)
    BY <1>2, <2>5, <2>7, MemoryAppend
  <2>9. UNCHANGED failed["dropped"]
    BY <1>3, <2>1 DEF Scripts
  <2>10. /\ MemoryFile(rate) \in Files /\ MemoryFile(rate) # File("dropped")
         /\ \A r \in 1 .. NumRates["memory"] : MemoryFile(rate) = MemoryFile(r) => r = rate
    BY <1>2, <2>1 DEF MemoryFile, Files, File
  <2> QED
    BY <1>0, <1>4, <2>4, <2>6, <2>8, <2>9, <2>10, SaveKeeps
<1>7. CASE /\ pc = "save" /\ script.name = "dropped"
           /\ SavePart(File("dropped"), temp["traced"])
  <2> DEFINE N == NumRates["dropped"]
  <2>1. N \in Nat /\ Len(runs) \in Nat
    BY <1>2, GraphScriptsAssumption DEF Scripts
  <2>2. temp["traced"] = FirstRows(Len(runs), N)
    BY <1>1, <1>7 DEF DroppedLists, DoneRates, Position, LoopLeft
  <2>3. Len(temp["traced"]) = N
    <3> HIDE DEF N
    <3>1. FirstRows(Len(runs), N) \in [1 .. N -> AllRows]
      BY <2>1, FirstGrow
    <3> QED
      BY <2>1, <2>2, <3>1, FunIsSeq
  <2>4. PICK m \in 0 .. N : Save(File("dropped"), SubSeq(temp["traced"], 1, m))
    BY <1>7, <2>3 DEF SavePart
  <2>5. SubSeq(temp["traced"], 1, m) = FirstRows(Len(runs), m)
    <3> HIDE DEF N
    <3>1. SubSeq(FirstRows(Len(runs), N), 1, m) = FirstRows(Len(runs), m)
      BY <1>2, <2>1, FirstOf
    <3> QED
      BY <2>2, <3>1
  <2>6. Len(runs) \in failed'["dropped"] /\ failed["dropped"] \subseteq failed'["dropped"]
    BY <1>3, <1>7 DEF Scripts
  <2>7. DroppedWhole(files[File("dropped")] \o FirstRows(Len(runs), m), failed'["dropped"])
    BY <1>1, <2>1, <2>6, DroppedAppend DEF FilesKept
  <2>8. File("dropped") \in Files /\ \A r : File("dropped") # MemoryFile(r)
    BY FilesDiffer DEF File, MemoryFile
  <2> QED
    BY <1>0, <1>4, <2>4, <2>5, <2>7, <2>8, SaveKeeps
<1>8. CASE pc = "trial"
  <2>1. script.name = "cpu" /\ SavePart(File("traced"), temp["traced"])
    BY <1>8 DEF SaveRaises, Goto, TrialsLeft
  <2> QED
    BY <1>5, <1>8, <2>1 DEF Kinds
<1>9. CASE pc = "save_untraced"
  <2>1. script.name = "cpu" /\ SavePart(File("untraced"), temp["untraced"])
    BY <1>1, <1>9 DEF SaveRaises, Goto, Position
  <2> QED
    BY <1>5, <1>9, <2>1 DEF Kinds
<1> QED
  BY <1>6, <1>7, <1>8, <1>9 DEF SaveRaises, Goto

(* What is drawn is drawn from the lists of all rates.                     *)
LEMMA FiguresDrawn == ASSUME Inv, Drawn, Draw \/ DrawRaises PROVE Drawn'
<1>0. /\ UNCHANGED <<runs, files, failed>> /\ pc = "draw" /\ pc' = "shell"
      /\ figures' \subseteq figures \cup Plots
  BY DEF Draw, DrawRaises, Goto
<1>1. Position /\ CpuLists /\ DroppedLists /\ MemoryLists /\ runs \in Seq(RunType)
  BY <1>0 DEF Drawn, Lists, Busy
<1> DEFINE run == Len(runs)
           n == NumRates[script.name]
<1>2. /\ run \in Nat \ {0} /\ script = runs[run]
      /\ script.name \in Scripts
      /\ n \in Nat \ {0}
      /\ script.trials # NoArg => script.trials \in Nat
  BY <1>1, ScriptFacts DEF Position
<1>3. DoneRates = n
  BY <1>0, <1>1 DEF DoneRates, Position, LoopLeft
<1>4. ASSUME NEW f \in Plots PROVE FigureWhole(f)
  <2>1. CASE script.name = "cpu"
    <3> DEFINE t == script.trials
               both == [r \in 1 .. n |-> RowsOf(run, r, t) \o RowsOf(run, r, t)]
    <3>1. \A k \in Kinds : averaged[k] = RateRows(run, t, n)
      BY <1>1, <1>3, <2>1 DEF CpuLists
    <3>2. t \in Nat
      BY <1>0, <1>1, <1>2, <2>1 DEF CpuLists, LoopLeft
    <3>3. f \in {Figure("sps_vs_cpu_comparison", <<averaged["traced"], averaged["untraced"]>>),
                 Figure("sps_vs_cpu", <<cpu_difference>>)}
      BY <2>1 DEF Plots
    <3>4. CASE f = Figure("sps_vs_cpu_comparison", <<averaged["traced"], averaged["untraced"]>>)
      <4>1. f.run = run /\ f.name = "sps_vs_cpu_comparison"
            /\ f.curves = <<RateRows(run, t, n), RateRows(run, t, n)>>
        BY <3>1, <3>4 DEF Figure, Kinds
      <4>2. \A k \in 1 .. 2 : f.curves[k] = RateRows(run, t, n)
        BY <4>1
      <4> QED
        BY <1>2, <4>1, <4>2 DEF FigureWhole
    <3>5. CASE f = Figure("sps_vs_cpu", <<cpu_difference>>)
      <4>1. cpu_difference = both
        BY <3>1 DEF cpu_difference, RateRows, Kinds
      <4>2. f.run = run /\ f.name = "sps_vs_cpu" /\ f.curves[1] = both
        BY <3>5, <4>1 DEF Figure
      <4>3. Len(both) = n
        <5> DEFINE S == {RowsOf(run, r, t) \o RowsOf(run, r, t) : r \in 1 .. n}
        <5>1. both \in [1 .. n -> S]
          OBVIOUS
        <5> HIDE DEF S, both
        <5> QED
          BY <1>2, <5>1, FunIsSeq
      <4>4. ASSUME NEW r \in 1 .. n
            PROVE  Len(both[r]) = 2 * t /\ OfOneRate(both[r])
        <5>1. both[r] = RowsOf(run, r, t) \o RowsOf(run, r, t)
          OBVIOUS
        <5>2. run \in Nat /\ r \in Nat
          BY <1>2
        <5> HIDE DEF both, run, t
        <5>3. LET twice == RowsOf(run, r, t) \o RowsOf(run, r, t)
              IN  Len(twice) = 2 * t /\ OfOneRate(twice)
          BY <3>2, <5>2, Doubled
        <5> QED
          BY <5>1, <5>3
      <4> HIDE DEF both
      <4> QED
        BY <1>2, <4>2, <4>3, <4>4 DEF FigureWhole
    <3> QED
      BY <3>3, <3>4, <3>5
  <2>2. CASE script.name = "dropped"
    <3>1. f = Figure("sps_vs_dropped", <<Points(temp["traced"])>>)
      BY <2>2 DEF Plots
    <3>2. f.run = run /\ f.name = "sps_vs_dropped" /\ f.curves[1] = Points(temp["traced"])
      BY <3>1 DEF Figure
    <3>3. Len(Points(temp["traced"])) = n
      <4> DEFINE rows == FirstRows(run, n)
                 S == {<<rows[i]>> : i \in 1 .. n}
      <4>1. temp["traced"] = rows
        BY <1>1, <1>3, <2>2 DEF DroppedLists
      <4>2. Points(rows) \in [1 .. n -> S]
        BY DEF Points, FirstRows
      <4> HIDE DEF S, rows, n
      <4>3. Len(Points(rows)) = n
        BY <1>2, <4>2, FunIsSeq
      <4> QED
        BY <4>1, <4>3
    <3> QED
      BY <1>2, <3>2, <3>3 DEF FigureWhole
  <2>3. CASE script.name = "memory"
    <3>1. f = Figure("runtime_vs_memory", <<averaged["traced"]>>)
      BY <2>3 DEF Plots
    <3>2. f.run = run /\ f.name = "runtime_vs_memory" /\ f.curves[1] = averaged["traced"]
      BY <3>1 DEF Figure
    <3>3. Len(averaged["traced"]) = n
      BY <1>1, <1>3, <2>3 DEF MemoryLists
    <3> QED
      BY <1>2, <3>2, <3>3 DEF FigureWhole
  <2> QED
    BY <1>2, <2>1, <2>2, <2>3 DEF Scripts
<1>5. \A f \in figures' : FigureWhole(f)'
  BY <1>0, <1>4 DEF Drawn, FigureWhole
<1> QED
  BY <1>0, <1>1, <1>5 DEF Drawn, Lists, Busy, FilesKept

(* Every step keeps the lists, the figures and the files whole.            *)
LEMMA DrawnStep == Inv /\ Drawn /\ [Next]_vars => Drawn'
<1> SUFFICES ASSUME Inv, Drawn, [Next]_vars PROVE Drawn'
  OBVIOUS
<1> USE DEF Goto
<1>1. CASE RunScript
  BY <1>1, RunLists
<1>2. ASSUME UNCHANGED <<runs, figures, files, failed>>, pc' \in {"shell", "unwind"}
      PROVE  Drawn'
  BY <1>2, ListsOnly DEF Lists, Busy
<1>3. ASSUME UNCHANGED <<runs, rate, trial, temp, averaged, files, figures, failed>>,
             \/ pc = "group" /\ pc' = "controller"
             \/ pc = "controller" /\ pc' = "trial"
             \/ pc = "leave" /\ pc' = "save"
      PROVE  Drawn'
  <2>1. /\ Position /\ CpuLists /\ DroppedLists /\ MemoryLists
    BY <1>3 DEF Drawn, Lists, Busy
  <2>2. script' = script /\ DoneRates' = DoneRates
    BY <1>3 DEF script, DoneRates, LoopLeft
  <2>3. Position' /\ CpuLists' /\ DroppedLists' /\ MemoryLists'
    BY <1>3, <2>1, <2>2 DEF Position, CpuLists, DroppedLists, MemoryLists, LoopLeft
  <2> QED
    BY <1>3, <2>3, ListsOnly DEF Lists
<1>4. CASE KillOrphans
  BY <1>4, <1>2 DEF KillOrphans
<1>5. CASE EnterGroup
  BY <1>5, <1>2, <1>3 DEF EnterGroup
<1>6. CASE EnterController
  BY <1>6, <1>2, <1>3 DEF EnterController
<1>7. CASE RangeNone \/ BenchmarkRaises
  BY <1>7, <1>2 DEF RangeNone, BenchmarkRaises
<1>8. CASE BenchmarkTraced
  BY <1>8, TracedLists
<1>9. CASE BenchmarkUntraced
  BY <1>9, UntracedLists
<1>10. CASE SaveTraced \/ SaveUntraced
  BY <1>10, CpuSaved
<1>11. CASE SaveMemory
  BY <1>11, MemorySaved
<1>12. CASE NextRate
  BY <1>12, NextRateLists
<1>13. CASE Leave
  BY <1>13, <1>2, <1>3 DEF Leave
<1>14. CASE SaveDropped
  BY <1>14, DroppedSaved
<1>15. CASE Draw \/ DrawRaises
  BY <1>15, FiguresDrawn
<1>16. CASE UNCHANGED vars
  <2>1. UNCHANGED <<runs, pc, rate, trial, temp, averaged, files, figures, failed>>
    BY <1>16 DEF vars
  <2>2. script' = script /\ DoneRates' = DoneRates
    BY <2>1 DEF script, DoneRates
  <2>3. Lists'
    BY <2>1, <2>2 DEF Drawn, Lists, Busy, Position, CpuLists, DroppedLists, MemoryLists
  <2> QED
    BY <2>1, <2>3, ListsOnly
<1>17. CASE SaveRaises
  BY <1>17, SaveFails
<1> QED
  BY <1>1, <1>4, <1>5, <1>6, <1>7, <1>8, <1>9, <1>10, <1>11, <1>12, <1>13, <1>14, <1>15, <1>16,
     <1>17
     DEF Next, ScriptStep

(* So they are whole throughout.                                           *)
LEMMA DrawnCorrect == Spec => []Drawn
BY InvInit, InvStep, DrawnInit, DrawnStep, PTL DEF Spec

(* No figure is drawn from a part of the rates or of the trials, whichever *)
(* benchmarks raise and saves fail (cpu_graphs.py 68-122 and its siblings). *)
THEOREM FiguresAreWhole == Spec => []FiguresWhole
<1>1. Drawn => FiguresWhole
  BY DEF Drawn, FigureWhole, FiguresWhole, RateRows, RowsOf
<1> QED
  BY <1>1, DrawnCorrect, PTL

(* The file of dropped spans has runs from the first rate on, whole unless *)
(* they failed to save, and every run of a memory file starts at second 1. *)
THEOREM FilesAreWhole == Spec => []FilesWhole
<1>1. Drawn => FilesWhole
  <2> SUFFICES ASSUME Drawn PROVE FilesWhole
    OBVIOUS
  <2>1. ASSUME NEW i \in DOMAIN files[File("dropped")]
        PROVE  LET rows == files[File("dropped")] IN
               /\ rows[i].rate > 1 =>
                      i > 1 /\ rows[i - 1] = [rows[i] EXCEPT !.rate = @ - 1]
               /\ rows[i].rate < NumRates["dropped"] /\ rows[i].run \notin failed["dropped"] =>
                      i < Len(rows) /\ rows[i + 1] = [rows[i] EXCEPT !.rate = @ + 1]
    <3> DEFINE rows == files[File("dropped")]
    <3>1. DroppedWhole(rows, failed["dropped"])
      BY DEF Drawn, FilesKept
    <3> HIDE DEF rows
    <3>2. i \in 1 .. Len(rows)
      BY <3>1, LenProperties DEF DroppedWhole, rows
    <3>3. /\ rows[i].rate > 1 =>
                 i > 1 /\ rows[i - 1] = [rows[i] EXCEPT !.rate = @ - 1]
          /\ rows[i].rate < NumRates["dropped"] /\ rows[i].run \notin failed["dropped"] =>
                 i < Len(rows) /\ rows[i + 1] = [rows[i] EXCEPT !.rate = @ + 1]
      BY <3>1, <3>2 DEF DroppedWhole
    <3> QED
      BY <3>3 DEF rows
  <2>2. ASSUME NEW r \in 1 .. NumRates["memory"], NEW i \in DOMAIN files[MemoryFile(r)]
        PROVE  LET rows == files[MemoryFile(r)] IN
               /\ rows[i].rate = r
               /\ rows[i].nth > 1 => i > 1 /\ rows[i - 1] = [rows[i] EXCEPT !.nth = @ - 1]
    <3> DEFINE rows == files[MemoryFile(r)]
    <3>1. MemoryWhole(rows, r)
      BY DEF Drawn, FilesKept
    <3> HIDE DEF rows
    <3>2. i \in 1 .. Len(rows)
      BY <3>1, LenProperties DEF MemoryWhole, rows
    <3>3. /\ rows[i].rate = r
          /\ rows[i].nth > 1 => i > 1 /\ rows[i - 1] = [rows[i] EXCEPT !.nth = @ - 1]
      BY <3>1, <3>2 DEF MemoryWhole
    <3> QED
      BY <3>3 DEF rows
  <2> QED
    BY <2>1, <2>2 DEF FilesWhole
<1> QED
  BY <1>1, DrawnCorrect, PTL

(* The rows of a part, and where they go when they are appended.           *)
LEMMA RowsAdded ==
    ASSUME NEW s \in Seq(AllRows), NEW t \in Seq(AllRows), NEW n \in 0 .. Len(t)
    PROVE  LET part == SubSeq(t, 1, n)
               all == s \o part
           IN  /\ all \in Seq(AllRows)
               /\ Range(all) \subseteq Range(s) \cup Range(t)
               /\ Range(s) \subseteq Range(all)
               /\ \A i \in DOMAIN s : i \in DOMAIN all /\ all[i] = s[i]
               /\ \A i \in DOMAIN all : i \in DOMAIN s \/ all[i] \in Range(t)
<1> DEFINE part == SubSeq(t, 1, n)
           all == s \o part
<1>1. Len(t) \in Nat /\ n \in Nat /\ Len(s) \in Nat /\ DOMAIN s = 1 .. Len(s)
      /\ DOMAIN t = 1 .. Len(t)
  BY LenProperties
<1>2. part \in Seq(AllRows) /\ Len(part) = n /\ \A i \in 1 .. n : part[i] = t[i]
  BY <1>1
<1> HIDE DEF part
<1>3. /\ all \in Seq(AllRows)
      /\ Len(all) = Len(s) + n
      /\ \A i \in 1 .. Len(s) + n : all[i] = IF i <= Len(s) THEN s[i] ELSE part[i - Len(s)]
  BY <1>2, ConcatProperties
<1> HIDE DEF all
<1>4. DOMAIN all = 1 .. Len(s) + n
  BY <1>3, LenProperties
<1>5. \A i \in DOMAIN s : i \in DOMAIN all /\ all[i] = s[i]
  BY <1>1, <1>3, <1>4
<1>6. ASSUME NEW i \in DOMAIN all PROVE i \in DOMAIN s \/ all[i] \in Range(t)
  <2>1. CASE i <= Len(s)
    BY <1>1, <1>4, <2>1
  <2>2. CASE ~(i <= Len(s))
    <3>1. i - Len(s) \in 1 .. n /\ i - Len(s) \in DOMAIN t
      BY <1>1, <1>4, <2>2
    <3>2. all[i] = t[i - Len(s)]
      BY <1>2, <1>3, <1>4, <2>2, <3>1
    <3> QED
      BY <3>1, <3>2 DEF Range
  <2> QED
    BY <2>1, <2>2
<1>7. Range(s) \subseteq Range(all)
  BY <1>5 DEF Range
<1>8. Range(all) \subseteq Range(s) \cup Range(t)
  BY <1>5, <1>6 DEF Range
<1> QED
  BY <1>3, <1>5, <1>6, <1>7, <1>8 DEF all, part

(* Line by line the two files belong together up to the first failed run.  *)
PairedAt(i) ==
    (\A r \in failed["cpu"] : Traced[i].run < r) /\ ~HalfSaved(Traced[i]) =>
        i \in DOMAIN Untraced /\ Untraced[i] = Traced[i]

Paired ==
    /\ Traced \in Seq(AllRows) /\ Untraced \in Seq(AllRows)
    /\ Range(Untraced) \subseteq Range(Traced)
    /\ pc = "save_untraced" => Range(temp["untraced"]) \subseteq Range(Traced)
    /\ \A i \in DOMAIN Traced : PairedAt(i)

(* There is nothing to pair before the first run.                          *)
LEMMA PairedInit == Init => Paired
<1> SUFFICES ASSUME Init PROVE Paired
  OBVIOUS
<1>1. Traced = <<>> /\ Untraced = <<>> /\ pc = "shell"
  BY FilesDiffer DEF Init, Traced, Untraced, Kinds
<1>2. <<>> \in Seq(AllRows) /\ DOMAIN <<>> = {}
  OBVIOUS
<1> QED
  BY <1>1, <1>2 DEF Paired, Range

(* What the lists of cpu_graphs.py are when a rate is saved.               *)
LEMMA SavedRows ==
    ASSUME Inv, Drawn, script.name = "cpu", pc \in {"trial", "save_untraced"},
           pc = "trial" => ~TrialsLeft /\ script.trials # NoArg
    PROVE  /\ Len(runs) \in Nat
           /\ \A k \in Kinds :
                  /\ temp[k] \in Seq(AllRows)
                  /\ \A row \in Range(temp[k]) : row.run = Len(runs) /\ row.rate = rate
           /\ temp["untraced"] = temp["traced"]
<1>1. Position /\ CpuLists /\ runs \in Seq(RunType)
  BY DEF Drawn, Lists, Busy
<1>2. /\ Len(runs) \in Nat /\ rate \in Nat /\ trial \in Nat
      /\ script.trials # NoArg => script.trials \in Nat
  BY <1>1, ScriptFacts DEF Position
<1>3. PICK n \in Nat : \A k \in Kinds : temp[k] = RowsOf(Len(runs), rate, n)
  BY <1>1, <1>2 DEF CpuLists
<1>4. /\ RowsOf(Len(runs), rate, n) \in Seq(AllRows)
      /\ \A row \in Range(RowsOf(Len(runs), rate, n)) : row.run = Len(runs) /\ row.rate = rate
  <2>1. RowsOf(Len(runs), rate, n) \in [1 .. n -> AllRows]
    BY <1>2, RowsGrow
  <2>2. RowsOf(Len(runs), rate, n) \in Seq(AllRows)
    BY <2>1, FunIsSeq
  <2> QED
    BY <2>2 DEF Range, RowsOf
<1> QED
  BY <1>2, <1>3, <1>4 DEF Kinds

(* Rows of this run that go to the traced file are half saved, or of a     *)
(* run that fails.                                                         *)
LEMMA TracedGrows ==
    ASSUME Inv, Drawn, Paired, pc # "save_untraced", NEW n \in 0 .. Len(temp["traced"]),
           pc = "trial" /\ ~TrialsLeft /\ script.trials # NoArg /\ script.name = "cpu",
           Save(File("traced"), SubSeq(temp["traced"], 1, n)), UNCHANGED <<runs, rate, temp>>,
           \/ /\ UNCHANGED failed["cpu"] /\ pc' = "save_untraced"
              /\ n = Len(temp["traced"])
           \/ /\ failed'["cpu"] = failed["cpu"] \cup {Len(runs)}
              /\ pc' # "save_untraced"
    PROVE  Paired'
<1> DEFINE t == temp["traced"]
           part == SubSeq(t, 1, n)
<1>1. /\ Len(runs) \in Nat /\ t \in Seq(AllRows) /\ temp["untraced"] = t
      /\ \A row \in Range(t) : row.run = Len(runs) /\ row.rate = rate
  BY SavedRows DEF Kinds
<1>2. Traced' = Traced \o part /\ Untraced' = Untraced
  <2>1. files = [g \in Files |-> files[g]]
    BY DEF Inv
  <2>2. /\ File("traced") \in Files /\ File("untraced") \in Files
        /\ File("traced") # File("untraced")
    BY FilesDiffer DEF Kinds
  <2> HIDE DEF part
  <2>3. Save(File("traced"), part)
    BY DEF part
  <2>4. files'[File("traced")] = files[File("traced")] \o part
    BY <2>1, <2>2, <2>3, SaveOne
  <2>5. \A g \in Files : g # File("traced") => files'[g] = files[g]
    BY <2>1, <2>3, SaveOne
  <2> QED
    BY <2>2, <2>4, <2>5 DEF Traced, Untraced
<1>3. /\ Traced' \in Seq(AllRows)
      /\ Range(Traced) \subseteq Range(Traced')
      /\ \A i \in DOMAIN Traced : i \in DOMAIN Traced' /\ Traced'[i] = Traced[i]
      /\ \A i \in DOMAIN Traced' : i \in DOMAIN Traced \/ Traced'[i] \in Range(t)
  <2>1. Traced \in Seq(AllRows)
    BY DEF Paired
  <2> HIDE DEF t
  <2>2. n \in 0 .. Len(t)
    BY DEF t
  <2> QED
    BY <1>1, <1>2, <2>1, <2>2, RowsAdded
<1>4. Range(Untraced') \subseteq Range(Traced') /\ Untraced' \in Seq(AllRows)
  BY <1>2, <1>3 DEF Paired
<1>5. pc' = "save_untraced" => Range(temp'["untraced"]) \subseteq Range(Traced')
  <2> SUFFICES ASSUME n = Len(t) PROVE Range(t) \subseteq Range(Traced')
    BY <1>1
  <2>1. part = t
    BY <1>1, SubSeqFull
  <2>2. Traced \in Seq(AllRows)
    BY DEF Paired
  <2> HIDE DEF t, part
  <2>3. Range(Traced \o t) = Range(Traced) \cup Range(t)
    BY <1>1, <2>2, RangeConcatenation
  <2> QED
    BY <1>2, <2>1, <2>3
<1>6. ASSUME NEW i \in DOMAIN Traced' PROVE PairedAt(i)'
  <2> HIDE DEF t
  <2>1. CASE i \in DOMAIN Traced
    <3>1. Traced'[i] = Traced[i] /\ PairedAt(i) /\ ~HalfSaved(Traced[i])
      BY <1>3, <2>1 DEF Paired, HalfSaved
    <3>2. failed["cpu"] \subseteq failed'["cpu"]
      OBVIOUS
    <3> QED
      BY <1>2, <3>1, <3>2 DEF PairedAt
  <2>2. CASE i \notin DOMAIN Traced
    <3>1. Traced'[i].run = Len(runs) /\ Traced'[i].rate = rate
      BY <1>1, <1>3, <2>2
    <3>2. CASE pc' = "save_untraced"
      BY <3>1, <3>2 DEF PairedAt, HalfSaved
    <3>3. CASE Len(runs) \in failed'["cpu"]
      <4>1. ~(Len(runs) < Len(runs))
        BY <1>1
      <4> QED
        BY <3>1, <3>3, <4>1 DEF PairedAt
    <3> QED
      BY <3>2, <3>3
  <2> QED
    BY <2>1, <2>2
<1> QED
  BY <1>3, <1>4, <1>5, <1>6 DEF Paired

(* The untraced rows follow, all of them or in a run that fails.           *)
LEMMA UntracedGrows ==
    ASSUME Inv, Drawn, Paired, pc = "save_untraced", NEW n \in 0 .. Len(temp["untraced"]),
           Save(File("untraced"), SubSeq(temp["untraced"], 1, n)),
           UNCHANGED <<runs, rate, temp>>, pc' # "save_untraced",
           \/ UNCHANGED failed["cpu"] /\ n = Len(temp["untraced"])
           \/ failed'["cpu"] = failed["cpu"] \cup {Len(runs)}
    PROVE  Paired'
<1> DEFINE t == temp["untraced"]
           part == SubSeq(t, 1, n)
<1>0. script.name = "cpu"
  BY DEF Inv, TempAgrees
<1>1. /\ Len(runs) \in Nat /\ t \in Seq(AllRows)
      /\ \A row \in Range(t) : row.run = Len(runs) /\ row.rate = rate
  <2>1. /\ Len(runs) \in Nat
        /\ \A k \in Kinds :
               /\ temp[k] \in Seq(AllRows)
               /\ \A row \in Range(temp[k]) : row.run = Len(runs) /\ row.rate = rate
    BY <1>0, SavedRows
  <2> QED
    BY <2>1 DEF Kinds
<1>2. Untraced' = Untraced \o part /\ Traced' = Traced
  <2>1. files = [g \in Files |-> files[g]]
    BY DEF Inv
  <2>2. /\ File("traced") \in Files /\ File("untraced") \in Files
        /\ File("traced") # File("untraced")
    BY FilesDiffer DEF Kinds
  <2> HIDE DEF part
  <2>3. Save(File("untraced"), part)
    BY DEF part
  <2>4. /\ files'[File("untraced")] = files[File("untraced")] \o part
        /\ files'[File("traced")] = files[File("traced")]
    BY <2>1, <2>2, <2>3, SaveOne
  <2> QED
    BY <2>4 DEF Traced, Untraced
<1>3. /\ Untraced' \in Seq(AllRows)
      /\ Range(Untraced') \subseteq Range(Untraced) \cup Range(t)
      /\ \A i \in DOMAIN Untraced : i \in DOMAIN Untraced' /\ Untraced'[i] = Untraced[i]
  <2>1. Untraced \in Seq(AllRows)
    BY DEF Paired
  <2> HIDE DEF t
  <2>2. n \in 0 .. Len(t)
    BY DEF t
  <2> QED
    BY <1>1, <1>2, <2>1, <2>2, RowsAdded
<1>4. Range(Untraced') \subseteq Range(Traced') /\ Traced' \in Seq(AllRows)
  BY <1>2, <1>3 DEF Paired
<1>5. ASSUME NEW i \in DOMAIN Traced' PROVE PairedAt(i)'
  <2>1. i \in DOMAIN Traced /\ PairedAt(i) /\ Traced'[i] = Traced[i]
    BY <1>2 DEF Paired
  <2>2. CASE ~HalfSaved(Traced[i])
    <3>1. failed["cpu"] \subseteq failed'["cpu"]
      OBVIOUS
    <3> QED
      BY <1>3, <2>1, <2>2, <3>1 DEF PairedAt
  <2>3. CASE HalfSaved(Traced[i]) /\ Len(runs) \in failed'["cpu"]
    <3>1. ~(Len(runs) < Len(runs))
      BY <1>1
    <3> QED
      BY <2>1, <2>3, <3>1 DEF PairedAt, HalfSaved
  <2>4. CASE /\ HalfSaved(Traced[i]) /\ UNCHANGED failed["cpu"] /\ n = Len(t)
             /\ failed["cpu"] = {}
    <3>1. part = t
      BY <1>1, <2>4, SubSeqFull
    <3>2. Traced = Untraced \o t
      BY <2>4 DEF Inv, FilesAgree, Traced, Untraced
    <3>3. Untraced' = Traced'
      BY <1>2, <3>1, <3>2
    <3> QED
      BY <3>3 DEF PairedAt
  <2>5. CASE /\ HalfSaved(Traced[i]) /\ UNCHANGED failed["cpu"]
             /\ failed["cpu"] # {}
    <3>1. PICK r \in failed["cpu"] : r \in 1 .. Len(runs)
      BY <2>5 DEF Drawn, Scripts
    <3>2. ~(Len(runs) < r)
      BY <1>1, <3>1
    <3> QED
      BY <2>1, <2>5, <3>1, <3>2 DEF PairedAt, HalfSaved
  <2> QED
    BY <2>2, <2>3, <2>4, <2>5
<1> QED
  BY <1>3, <1>4, <1>5 DEF Paired

(* Where neither file changes the files stay paired.                       *)
LEMMA PairsKept ==
    ASSUME Paired, UNCHANGED <<Traced, Untraced, failed["cpu"]>>,
           pc # "save_untraced", pc' # "save_untraced"
    PROVE  Paired'
BY DEF Paired, PairedAt, HalfSaved

(* Every step keeps the two files paired.                                  *)
LEMMA PairedStep == Inv /\ Drawn /\ Paired /\ [Next]_vars => Paired'
<1> SUFFICES ASSUME Inv, Drawn, Paired, [Next]_vars PROVE Paired'
  OBVIOUS
<1> USE DEF Goto
<1>1. \A k \in Kinds : File(k) \in Files
  BY FilesDiffer
<1>2. ASSUME UNCHANGED <<files, failed>>, pc # "save_untraced", pc' # "save_untraced"
      PROVE  Paired'
  BY <1>2, PairsKept DEF Traced, Untraced
<1>3. CASE SaveTraced
  <2> DEFINE t == temp["traced"]
  <2>1. /\ pc = "trial" /\ ~TrialsLeft /\ script.trials # NoArg /\ script.name = "cpu"
        /\ pc' = "save_untraced" /\ Save(File("traced"), t)
        /\ UNCHANGED <<runs, rate, temp, failed>>
    BY <1>3 DEF SaveTraced, TrialsLeft
  <2>2. t \in Seq(AllRows)
    BY <2>1, SavedRows DEF Kinds
  <2>3. SubSeq(t, 1, Len(t)) = t /\ Len(t) \in 0 .. Len(t)
    BY <2>2, SubSeqFull, LenProperties
  <2> QED
    BY <2>1, <2>3, TracedGrows
<1>4. CASE SaveUntraced
  <2> DEFINE t == temp["untraced"]
  <2>1. /\ pc = "save_untraced" /\ pc' # "save_untraced" /\ Save(File("untraced"), t)
        /\ UNCHANGED <<runs, rate, temp, failed>>
    BY <1>4 DEF SaveUntraced
  <2>2. t \in Seq(AllRows)
    <3>1. script.name = "cpu"
      BY <2>1 DEF Inv, TempAgrees
    <3>2. \A k \in Kinds : temp[k] \in Seq(AllRows)
      BY <2>1, <3>1, SavedRows
    <3> QED
      BY <3>2 DEF Kinds
  <2>3. SubSeq(t, 1, Len(t)) = t /\ Len(t) \in 0 .. Len(t)
    BY <2>2, SubSeqFull, LenProperties
  <2> QED
    BY <2>1, <2>3, UntracedGrows
<1>5. ASSUME NEW f, NEW rows, Save(f, rows), f \notin {File("traced"), File("untraced")},
             UNCHANGED failed["cpu"], pc # "save_untraced", pc' # "save_untraced"
      PROVE  Paired'
  <2>1. files = [g \in Files |-> files[g]]
    BY DEF Inv
  <2>2. \A g \in Files : g # f => files'[g] = files[g]
    BY <1>5, <2>1, SaveOne
  <2>3. UNCHANGED <<Traced, Untraced>>
    BY <1>1, <1>5, <2>2 DEF Traced, Untraced, Kinds
  <2> QED
    BY <1>5, <2>3, PairsKept
<1>6. CASE SaveMemory \/ SaveDropped
  <2>1. /\ MemoryFile(rate) \notin {File("traced"), File("untraced")}
        /\ File("dropped") \notin {File("traced"), File("untraced")}
    BY FilesDiffer DEF Kinds
  <2> QED
    BY <1>5, <1>6, <2>1 DEF SaveMemory, SaveDropped
<1>7. CASE SaveRaises
  <2>1. UNCHANGED <<runs, rate, temp>> /\ pc' # "save_untraced"
    BY <1>7 DEF SaveRaises
  <2>2. /\ script.name = "cpu" => failed'["cpu"] = failed["cpu"] \cup {Len(runs)}
        /\ script.name # "cpu" => UNCHANGED failed["cpu"]
    BY <1>7, FailedGrows DEF Scripts
  <2>3. CASE script.name # "cpu"
    <3>1. pc # "save_untraced"
      BY <2>3 DEF Inv, TempAgrees
    <3>2. PICK f, rows : Save(f, rows) /\ f \notin {File("traced"), File("untraced")}
      BY <1>7, <2>3, PartSaved
    <3> QED
      BY <1>5, <2>1, <2>2, <2>3, <3>1, <3>2
  <2>4. CASE script.name = "cpu" /\ pc = "trial"
    <3>1. /\ ~TrialsLeft /\ script.trials # NoArg
          /\ \E n \in 0 .. Len(temp["traced"]) :
                 Save(File("traced"), SubSeq(temp["traced"], 1, n))
      BY <1>7, <2>4 DEF SaveRaises, SavePart
    <3> QED
      BY <2>1, <2>2, <2>4, <3>1, TracedGrows
  <2>5. CASE script.name = "cpu" /\ pc = "save_untraced"
    <3>1. \E n \in 0 .. Len(temp["untraced"]) :
              Save(File("untraced"), SubSeq(temp["untraced"], 1, n))
      BY <1>7, <2>5 DEF SaveRaises, SavePart
    <3> QED
      BY <2>1, <2>2, <2>5, <3>1, UntracedGrows
  <2>6. ~(script.name = "cpu" /\ pc \in {"save_memory", "save"})
    BY <1>7 DEF SaveRaises, Drawn, Lists, Busy, Position
  <2> QED
    BY <1>7, <2>3, <2>4, <2>5, <2>6 DEF SaveRaises
<1>8. CASE BenchmarkTraced
  BY <1>2, <1>8 DEF BenchmarkTraced, AfterTraced
<1>9. CASE UNCHANGED vars
  BY <1>9 DEF vars, Paired, PairedAt, HalfSaved, Traced, Untraced
<1> QED
  BY <1>2, <1>3, <1>4, <1>6, <1>7, <1>8, <1>9
     DEF Next, ScriptStep, RunScript, KillOrphans, EnterGroup, EnterController,
         RangeNone, BenchmarkUntraced, BenchmarkRaises, NextRate, Leave, Draw, DrawRaises

(* No untraced row is without its traced one, and up to the first run that *)
(* failed to save the rows of the two files belong together line by line,  *)
(* as the points of the notebook's difference do (cpu_graphs.py 74-83).    *)
THEOREM PairsRight == Spec => []DifferencePairs
<1>1. Inv /\ Paired => DifferencePairs
  <2> SUFFICES ASSUME Inv, Paired, failed["cpu"] = {}, pc # "save_untraced"
               PROVE  \A i \in DOMAIN notebook_difference :
                          notebook_difference[i][1] = notebook_difference[i][2]
    BY DEF DifferencePairs, Paired, PairedAt
  <2>1. files[File("traced")] = files[File("untraced")]
    BY DEF Inv, FilesAgree
  <2>2. read_file("traced") = read_file("untraced")
    BY <2>1 DEF read_file
  <2> QED
    BY <2>2 DEF notebook_difference
<1> QED
  BY <1>1, InvInit, InvStep, DrawnInit, DrawnStep, PairedInit, PairedStep, PTL DEF Spec

-----------------------------------------------------------------------------
(* What read_file makes of a file's lines: Take(rows, n) is its state      *)
(* after n lines, n * TRIALS + r of them in n whole lists and a rest.      *)
Reading == [line_number |-> 0, lists |-> <<>>, temp |-> <<>>]
Part(rows, q, r) == [i \in 1 .. r |-> rows[q * TRIALS + i]]
Parts(rows, q) == [b \in 1 .. q |-> Part(rows, b - 1, TRIALS)]

(* g is a function that the fold over the first n lines unrolls.           *)
Reads(g, rows, n) ==
    g = [s \in SUBSET (1 .. n) |->
            IF s = {} THEN Reading ELSE ReadLine(g[s \ {Max(s)}], rows[Max(s)])]

(* There is such a function, so that the fold's recursion is sound.        *)
LEMMA ReadsExists == ASSUME NEW rows, NEW n \in Nat PROVE \E g : Reads(g, rows, n)
<1> DEFINE Bad == {k \in 0 .. n : ~ \E g : Reads(g, rows, k)}
<1> SUFFICES ASSUME Bad # {} PROVE FALSE
  OBVIOUS
<1>1. PICK m \in Bad : \A k \in Bad : m <= k
  <2>1. Bad \in SUBSET (0 .. n)
    OBVIOUS
  <2> HIDE DEF Bad
  <2> QED
    BY <2>1, LeastOf
<1>2. m # 0
  <2> DEFINE g == [s \in SUBSET (1 .. 0) |-> Reading]
  <2>1. \A s \in SUBSET (1 .. 0) : s = {}
    OBVIOUS
  <2>2. Reads(g, rows, 0)
    BY <2>1 DEF Reads
  <2> HIDE DEF g
  <2> QED
    BY <1>1, <2>2
<1>3. m \in Nat /\ m - 1 \in 0 .. n /\ m - 1 < m
  BY <1>1, <1>2
<1>4. PICK g : Reads(g, rows, m - 1)
  BY <1>1, <1>3
<1> DEFINE D == SUBSET (1 .. m)
           h == [s \in D |-> IF m \in s THEN ReadLine(g[s \ {m}], rows[m]) ELSE g[s]]
           h1 == [s \in D |-> IF s = {} THEN Reading
                              ELSE ReadLine(h[s \ {Max(s)}], rows[Max(s)])]
<1>5. ASSUME NEW s \in D PROVE h[s] = h1[s]
  <2>1. CASE m \in s
    <3>1. Max(s) = m
      <4>1. s \in SUBSET Int /\ \A k \in s : k <= m
        OBVIOUS
      <4> QED
        BY <2>1, <4>1, MaxIs
    <3>2. s \ {m} \in D /\ m \notin s \ {m} /\ s # {}
      BY <2>1
    <3>3. h[s \ {m}] = g[s \ {m}]
      BY <3>2
    <3>4. h[s] = ReadLine(g[s \ {m}], rows[m])
      BY <2>1
    <3> HIDE DEF h
    <3> QED
      BY <3>1, <3>2, <3>3, <3>4
  <2>2. CASE m \notin s /\ s = {}
    <3>1. h[s] = g[s] /\ s \in SUBSET (1 .. m - 1)
      BY <2>2
    <3> HIDE DEF h
    <3> QED
      BY <1>4, <2>2, <3>1 DEF Reads
  <2>3. CASE m \notin s /\ s # {}
    <3>1. h[s] = g[s] /\ s \in SUBSET (1 .. m - 1)
      BY <1>3, <2>3
    <3>2. Max(s) \in s
      <4>1. IsFiniteSet(1 .. m - 1)
        <5>1. 1 \in Int /\ m - 1 \in Int
          BY <1>3
        <5> QED
          BY <5>1, FS_Interval
      <4>2. IsFiniteSet(s)
        BY <3>1, <4>1, FS_Subset
      <4>3. \A k \in s : k \in Int
        OBVIOUS
      <4> QED
        BY <2>3, <4>2, <4>3, MaxExists
    <3>3. s \ {Max(s)} \in D /\ m \notin s \ {Max(s)}
      BY <2>3
    <3>4. h[s \ {Max(s)}] = g[s \ {Max(s)}]
      BY <3>3
    <3>5. g[s] = ReadLine(g[s \ {Max(s)}], rows[Max(s)])
      BY <1>4, <2>3, <3>1 DEF Reads
    <3> HIDE DEF h
    <3> QED
      BY <2>3, <3>1, <3>4, <3>5
  <2> QED
    BY <2>1, <2>2, <2>3
<1>6. h = h1
  <2> DEFINE v(s) == IF s = {} THEN Reading
                     ELSE ReadLine(h[s \ {Max(s)}], rows[Max(s)])
  <2>1. \A s \in D : h[s] = v(s)
    BY <1>5
  <2>2. h = [s \in D |-> h[s]]
    OBVIOUS
  <2>3. h1 = [s \in D |-> v(s)]
    OBVIOUS
  <2> HIDE DEF h, h1, v
  <2> QED
    BY <2>1, <2>2, <2>3
<1>7. Reads(h, rows, m)
  <2> HIDE DEF h
  <2> QED
    BY <1>6 DEF Reads
<1> HIDE DEF h
<1> QED
  BY <1>1, <1>7

(* So a file is read line by line, from the first to the last.             *)
LEMMA LinesRead ==
    ASSUME NEW n \in Nat, NEW rows \in [1 .. n -> AllRows]
    PROVE  \E a : /\ a[0] = Reading
                  /\ \A k \in 1 .. n : a[k] = ReadLine(a[k - 1], rows[k])
                  /\ ReadLines(rows) = a[n].lists
<1> DEFINE D == SUBSET (1 .. n)
           iter == CHOOSE g : g = [s \in D |-> IF s = {} THEN Reading
                                   ELSE ReadLine(g[s \ {Max(s)}], rows[Max(s)])]
<1>1. Reads(iter, rows, n)
  BY ReadsExists DEF Reads
<1>2. DOMAIN rows = 1 .. n
  OBVIOUS
<1>3. ReadLines(rows) = iter[1 .. n].lists
  BY <1>2 DEF ReadLines, FoldLeft, MapThenFoldSet, Reading
<1> HIDE DEF iter
<1> DEFINE a == [k \in 0 .. n |-> iter[1 .. k]]
<1>4. a[0] = Reading
  <2>1. 1 .. 0 = {} /\ {} \in D /\ 0 \in 0 .. n
    OBVIOUS
  <2> QED
    BY <1>1, <2>1 DEF Reads
<1>5. ASSUME NEW k \in 1 .. n PROVE a[k] = ReadLine(a[k - 1], rows[k])
  <2>1. /\ 1 .. k \in D /\ 1 .. k # {}
        /\ (1 .. k) \ {k} = 1 .. k - 1
        /\ k \in 0 .. n /\ k - 1 \in 0 .. n
    OBVIOUS
  <2>2. Max(1 .. k) = k
    <3>1. 1 .. k \in SUBSET Int /\ k \in 1 .. k /\ \A j \in 1 .. k : j <= k
      OBVIOUS
    <3> QED
      BY <3>1, MaxIs
  <2>3. iter[1 .. k] = ReadLine(iter[1 .. k - 1], rows[k])
    BY <1>1, <2>1, <2>2 DEF Reads
  <2> QED
    BY <2>1, <2>3
<1>6. ReadLines(rows) = a[n].lists
  BY <1>3
<1> HIDE DEF a
<1> QED
  BY <1>4, <1>5, <1>6

(* The two ways of writing a line's number differ by whole lists only.     *)
LEMMA PlaceIs ==
    ASSUME NEW q \in Nat, NEW r \in 1 .. TRIALS, NEW k \in Nat, k = q * TRIALS + r
    PROVE  k # 0 /\ (k % TRIALS = 0 <=> r = TRIALS)
<1>1. TRIALS \in Nat \ {0}
  BY GraphScriptsAssumption
<1>2. q * TRIALS \in Nat /\ (q * TRIALS) % TRIALS = 0
  <2> DEFINE L == q * TRIALS
             y == L \div TRIALS
             z == L % TRIALS
  <2>1. L \in Nat /\ L = TRIALS * q
    BY <1>1
  <2>2. y \in Nat /\ z \in 0 .. TRIALS - 1 /\ L = TRIALS * y + z
    BY <1>1, <2>1
  <2>3. \A d \in Int : d >= 1 => TRIALS * d >= TRIALS
    BY <1>1
  <2> HIDE DEF y, z, L
  <2>4. TRIALS * (y - q) = 0 - z /\ TRIALS * (q - y) = z
    BY <1>1, <2>1, <2>2
  <2>5. ~(y - q >= 1) /\ ~(q - y >= 1)
    BY <1>1, <2>2, <2>3, <2>4
  <2>6. y = q
    BY <2>2, <2>5
  <2>7. z = 0
    BY <1>1, <2>1, <2>2, <2>6
  <2> QED
    BY <2>1, <2>7 DEF z, L
<1> DEFINE L == q * TRIALS
<1>3. L \in Nat /\ L % TRIALS = 0 /\ k = L + r
  BY <1>2
<1> HIDE DEF L
<1>4. (L + TRIALS) % TRIALS = 0 /\ \A j \in 0 .. TRIALS - 1 : (L + j) % TRIALS = j
  BY <1>1, <1>3, ModRound
<1>5. CASE r = TRIALS
  BY <1>1, <1>3, <1>4, <1>5
<1>6. CASE r # TRIALS
  <2>1. r \in 0 .. TRIALS - 1
    BY <1>1, <1>6
  <2>2. k % TRIALS = r
    BY <1>3, <1>4, <2>1
  <2> QED
    BY <1>1, <1>3, <1>6, <2>2
<1> QED
  BY <1>5, <1>6

(* A list that is not yet whole grows by a line, and whole lists by one.   *)
LEMMA PartsGrow ==
    ASSUME NEW n \in Nat, NEW rows \in [1 .. n -> AllRows],
           NEW q \in Nat, NEW r \in Nat, q * TRIALS + r + 1 <= n, r <= TRIALS
    PROVE  /\ Append(Part(rows, q, r), rows[q * TRIALS + r + 1]) = Part(rows, q, r + 1)
           /\ Part(rows, q, 1) = <<rows[q * TRIALS + 1]>>
           /\ Append(Parts(rows, q), Part(rows, q, TRIALS)) = Parts(rows, q + 1)
           /\ Parts(rows, 0) = <<>>
<1>1. TRIALS \in Nat \ {0} /\ q * TRIALS \in Nat
  BY GraphScriptsAssumption
<1>2. Append(Part(rows, q, r), rows[q * TRIALS + r + 1]) = Part(rows, q, r + 1)
  <2> DEFINE L == q * TRIALS
             f == [i \in 1 .. r + 1 |-> rows[L + i]]
             g == [i \in 1 .. r |-> rows[L + i]]
  <2>1. f = Part(rows, q, r + 1) /\ g = Part(rows, q, r)
    BY DEF Part
  <2>2. L \in Nat /\ L + r + 1 <= n
    BY <1>1
  <2> HIDE DEF L
  <2>3. f \in [1 .. r + 1 -> AllRows]
    <3>1. \A i \in 1 .. r + 1 : L + i \in 1 .. n
      BY <2>2
    <3> QED
      BY <3>1
  <2>4. g \in [1 .. r -> AllRows]
    <3>1. \A i \in 1 .. r : L + i \in 1 .. n
      BY <2>2
    <3> QED
      BY <3>1
  <2>5. /\ \A i \in 1 .. r : g[i] = f[i]
        /\ f[r + 1] = rows[L + r + 1]
    BY <2>2
  <2> HIDE DEF f, g
  <2>6. Append(g, f[r + 1]) = f
    BY <2>3, <2>4, <2>5, AppendFun
  <2> QED
    BY <2>1, <2>5, <2>6 DEF L
<1>3. Part(rows, q, 1) = <<rows[q * TRIALS + 1]>>
  <2> DEFINE e == rows[q * TRIALS + 1]
  <2>1. e \in AllRows
    BY <1>1
  <2>2. Part(rows, q, 1) \in [1 .. 1 -> AllRows] /\ Part(rows, q, 1)[1] = e
    <3>1. \A i \in 1 .. 1 : rows[q * TRIALS + i] = e
      OBVIOUS
    <3> HIDE DEF e
    <3> QED
      BY <2>1, <3>1 DEF Part
  <2> HIDE DEF e
  <2>3. 1 \in Nat
    OBVIOUS
  <2>4. Part(rows, q, 1) \in Seq(AllRows) /\ Len(Part(rows, q, 1)) = 1
    BY <2>2, <2>3, FunIsSeq
  <2>5. <<e>> \in Seq(AllRows) /\ Len(<<e>>) = 1 /\ <<e>>[1] = e
    BY <2>1
  <2>6. \A i \in 1 .. 1 : Part(rows, q, 1)[i] = <<e>>[i]
    BY <2>2, <2>5
  <2>7. Part(rows, q, 1) = <<e>>
    BY <2>4, <2>5, <2>6, SeqEqual
  <2> QED
    BY <2>7 DEF e
<1> DEFINE S == {Part(rows, b, TRIALS) : b \in Nat}
<1>4. \A m \in Nat : Parts(rows, m) \in [1 .. m -> S]
  BY DEF Parts
<1>5. Parts(rows, 0) = <<>>
  BY <1>4, NoneIsEmpty
<1>6. Append(Parts(rows, q), Part(rows, q, TRIALS)) = Parts(rows, q + 1)
  <2> DEFINE f == Parts(rows, q + 1)
             g == Parts(rows, q)
  <2>1. f \in [1 .. q + 1 -> S] /\ g \in [1 .. q -> S]
    BY <1>4
  <2>2. f[q + 1] = Part(rows, q, TRIALS) /\ \A i \in 1 .. q : g[i] = f[i]
    BY DEF Parts
  <2> HIDE DEF f, g, S
  <2>3. Append(g, f[q + 1]) = f
    BY <2>1, <2>2, AppendFun
  <2> QED
    BY <2>2, <2>3 DEF f, g
<1> QED
  BY <1>2, <1>3, <1>5, <1>6

(* A line goes on the list ...                                             *)
LEMMA LineGoesOn ==
    ASSUME NEW k, NEW lists, NEW list, NEW row, k % TRIALS # 0
    PROVE  ReadLine([line_number |-> k, lists |-> lists, temp |-> list], row)
               = [line_number |-> k + 1, lists |-> lists, temp |-> Append(list, row)]
<1> DEFINE acc == [line_number |-> k, lists |-> lists, temp |-> list]
<1>1. ReadLine(acc, row) = [acc EXCEPT !.line_number = k + 1, !.temp = Append(list, row)]
  BY DEF ReadLine
<1>2. [acc EXCEPT !.line_number = k + 1, !.temp = Append(list, row)]
          = [line_number |-> k + 1, lists |-> lists, temp |-> Append(list, row)]
  <2> DEFINE x == [acc EXCEPT !.line_number = k + 1, !.temp = Append(list, row)]
             y == [line_number |-> k + 1, lists |-> lists, temp |-> Append(list, row)]
  <2>1. /\ x = [f \in {"line_number", "lists", "temp"} |-> x[f]]
        /\ y = [f \in {"line_number", "lists", "temp"} |-> y[f]]
    OBVIOUS
  <2>2. x["line_number"] = y["line_number"]
    OBVIOUS
  <2>3. x["lists"] = y["lists"]
    OBVIOUS
  <2>4. x["temp"] = y["temp"]
    OBVIOUS
  <2> HIDE DEF x, y
  <2>5. x = y
    BY <2>1, <2>2, <2>3, <2>4
  <2> QED
    BY <2>5 DEF x, y
<1> QED
  BY <1>1, <1>2

(* ... or begins one.                                                      *)
LEMMA LineBegins ==
    ASSUME NEW k, NEW lists, NEW list, NEW row, k % TRIALS = 0
    PROVE  ReadLine([line_number |-> k, lists |-> lists, temp |-> list], row)
               = [line_number |-> k + 1,
                  lists |-> IF k # 0 THEN Append(lists, list) ELSE lists,
                  temp |-> <<row>>]
BY DEF ReadLine

(* After any lines read_file holds the whole lists but the last in lists,  *)
(* and the last, which may not be whole, in temp.                          *)
LEMMA ReadsParts ==
    ASSUME NEW n \in Nat, NEW rows \in [1 .. n -> AllRows]
    PROVE  /\ n = 0 => ReadLines(rows) = <<>>
           /\ \A q \in Nat, r \in 1 .. TRIALS :
                  n = q * TRIALS + r => ReadLines(rows) = Parts(rows, q)
<1>0. TRIALS \in Nat \ {0}
  BY GraphScriptsAssumption
<1>1. PICK a : /\ a[0] = Reading
               /\ \A k \in 1 .. n : a[k] = ReadLine(a[k - 1], rows[k])
               /\ ReadLines(rows) = a[n].lists
  BY LinesRead
<1> DEFINE At(k, q, r) == [line_number |-> k, lists |-> Parts(rows, q),
                           temp |-> Part(rows, q, r)]
           Fails(k) == \E q \in Nat, r \in 1 .. TRIALS :
                           k = q * TRIALS + r /\ a[k] # At(k, q, r)
           Bad == {k \in 1 .. n : Fails(k)}
<1>2. ASSUME Bad # {} PROVE FALSE
  <2>1. PICK m \in Bad : \A k \in Bad : m <= k
    <3>1. Bad \in SUBSET (0 .. n)
      OBVIOUS
    <3> HIDE DEF Bad
    <3> QED
      BY <1>2, <3>1, LeastOf
  <2>2. m \in 1 .. n /\ \A k \in 1 .. n : k < m => ~ Fails(k)
    <3> HIDE DEF Fails
    <3>1. m \in 1 .. n
      BY <2>1
    <3>2. ASSUME NEW k \in 1 .. n, k < m PROVE k \notin Bad
      <4> HIDE DEF Bad
      <4>1. k \in Bad => m <= k
        BY <2>1
      <4> QED
        BY <3>1, <3>2, <4>1
    <3> QED
      BY <3>1, <3>2
  <2>3. PICK q \in Nat, r \in 1 .. TRIALS : m = q * TRIALS + r /\ a[m] # At(m, q, r)
    <3>1. Fails(m)
      BY <2>1
    <3> QED
      BY <3>1
  <2>4. a[m] = ReadLine(a[m - 1], rows[m]) /\ rows[m] \in AllRows
    BY <1>1, <2>2
  <2>5. r - 1 \in Nat /\ r - 1 <= TRIALS /\ q * TRIALS + (r - 1) + 1 <= n /\ q * TRIALS \in Nat
    BY <1>0, <2>2, <2>3
  <2>6. /\ Append(Part(rows, q, r - 1), rows[q * TRIALS + (r - 1) + 1])
               = Part(rows, q, (r - 1) + 1)
        /\ Part(rows, q, 1) = <<rows[q * TRIALS + 1]>>
        /\ Parts(rows, 0) = <<>>
    <3> DEFINE j == r - 1
    <3>1. j \in Nat /\ j <= TRIALS /\ q * TRIALS + j + 1 <= n
      BY <2>5
    <3> HIDE DEF j
    <3>2. /\ Append(Part(rows, q, j), rows[q * TRIALS + j + 1]) = Part(rows, q, j + 1)
          /\ Part(rows, q, 1) = <<rows[q * TRIALS + 1]>>
          /\ Parts(rows, 0) = <<>>
      BY <3>1, PartsGrow
    <3> QED
      BY <3>2 DEF j
  <2>7. CASE r # 1
    <3>1. m - 1 = q * TRIALS + (r - 1) /\ r - 1 \in 1 .. TRIALS /\ m - 1 \in 1 .. n /\ m - 1 < m
      BY <1>0, <2>2, <2>3, <2>5, <2>7
    <3>2. a[m - 1] = At(m - 1, q, r - 1)
      BY <2>2, <3>1
    <3>3. (m - 1) % TRIALS # 0
      <4>1. m - 1 \in Nat /\ r - 1 # TRIALS
        BY <1>0, <3>1
      <4> QED
        BY <3>1, <4>1, PlaceIs
    <3>4. /\ m = (m - 1) + 1 /\ r = (r - 1) + 1
          /\ rows[q * TRIALS + (r - 1) + 1] = rows[m]
      BY <1>0, <2>2, <2>3, <2>5
    <3>5. a[m] = [line_number |-> (m - 1) + 1, lists |-> Parts(rows, q),
                  temp |-> Append(Part(rows, q, r - 1), rows[m])]
      <4>1. ReadLine(At(m - 1, q, r - 1), rows[m])
                = [line_number |-> (m - 1) + 1, lists |-> Parts(rows, q),
                   temp |-> Append(Part(rows, q, r - 1), rows[m])]
        BY <3>3, LineGoesOn
      <4> QED
        BY <2>4, <3>2, <4>1
    <3>6. Append(Part(rows, q, r - 1), rows[m]) = Part(rows, q, r)
      BY <2>6, <3>4
    <3> QED
      BY <2>3, <3>4, <3>5, <3>6
  <2>8. CASE r = 1 /\ q = 0
    <3>1. m = 1 /\ m - 1 = 0
      BY <1>0, <2>3, <2>8
    <3>2. 0 % TRIALS = 0
      BY <1>0
    <3>3. a[m] = [line_number |-> 1, lists |-> <<>>, temp |-> <<rows[m]>>]
      <4>1. ReadLine(Reading, rows[m])
                = [line_number |-> 0 + 1, lists |-> <<>>, temp |-> <<rows[m]>>]
        BY <3>2, LineBegins DEF Reading
      <4> QED
        BY <1>1, <2>4, <3>1, <4>1
    <3>4. q * TRIALS + 1 = m
      BY <2>3, <2>8
    <3> QED
      BY <2>3, <2>6, <2>8, <3>1, <3>3, <3>4
  <2>9. CASE r = 1 /\ q # 0
    <3>1. /\ q - 1 \in Nat /\ (q - 1) + 1 = q /\ TRIALS \in 1 .. TRIALS
          /\ m - 1 = (q - 1) * TRIALS + TRIALS
          /\ m - 1 \in Nat
          /\ (q - 1) * TRIALS \in Nat
      <4>1. q - 1 \in Nat /\ (q - 1) + 1 = q /\ TRIALS \in 1 .. TRIALS /\ m - 1 = q * TRIALS
        BY <1>0, <2>2, <2>3, <2>9
      <4>2. \A x \in Nat : x * TRIALS \in Nat /\ (x + 1) * TRIALS = x * TRIALS + TRIALS
        BY <1>0
      <4>3. (q - 1) * TRIALS \in Nat /\ ((q - 1) + 1) * TRIALS = (q - 1) * TRIALS + TRIALS
        BY <4>1, <4>2
      <4> QED
        BY <2>2, <4>1, <4>3
    <3>2. m - 1 # 0 /\ (m - 1) % TRIALS = 0
      BY <3>1, PlaceIs
    <3>3. m - 1 \in 1 .. n /\ m - 1 < m
      BY <2>2, <3>1, <3>2
    <3>4. a[m - 1] = At(m - 1, q - 1, TRIALS)
      BY <2>2, <3>1, <3>3
    <3>5. Append(Parts(rows, q - 1), Part(rows, q - 1, TRIALS)) = Parts(rows, (q - 1) + 1)
      <4>1. (q - 1) * TRIALS + 0 + 1 <= n /\ 0 \in Nat /\ 0 <= TRIALS
        BY <1>0, <2>2, <3>1
      <4> QED
        <5> DEFINE p == q - 1
        <5>1. p \in Nat /\ p * TRIALS + 0 + 1 <= n
          BY <3>1, <4>1
        <5> HIDE DEF p
        <5>2. Append(Parts(rows, p), Part(rows, p, TRIALS)) = Parts(rows, p + 1)
          BY <4>1, <5>1, PartsGrow
        <5> QED
          BY <5>2 DEF p
    <3>6. a[m] = [line_number |-> (m - 1) + 1,
                  lists |-> Append(Parts(rows, q - 1), Part(rows, q - 1, TRIALS)),
                  temp |-> <<rows[m]>>]
      <4>1. ReadLine(At(m - 1, q - 1, TRIALS), rows[m])
                = [line_number |-> (m - 1) + 1,
                   lists |-> Append(Parts(rows, q - 1), Part(rows, q - 1, TRIALS)),
                   temp |-> <<rows[m]>>]
        BY <3>2, LineBegins
      <4> QED
        BY <2>4, <3>4, <4>1
    <3>7. (m - 1) + 1 = m /\ q * TRIALS + 1 = m
      BY <2>2, <2>3, <2>9
    <3> QED
      BY <2>3, <2>6, <2>9, <3>1, <3>5, <3>6, <3>7
  <2> QED
    BY <2>7, <2>8, <2>9
<1>3. ASSUME NEW q \in Nat, NEW r \in 1 .. TRIALS, n = q * TRIALS + r
      PROVE  ReadLines(rows) = Parts(rows, q)
  <2>1. n # 0
    BY <1>3, PlaceIs
  <2>2. ~ Fails(n)
    <3>1. n \in 1 .. n
      BY <2>1
    <3> HIDE DEF Fails
    <3> QED
      BY <1>2, <3>1
  <2>3. a[n] = At(n, q, r)
    BY <1>3, <2>2
  <2> QED
    BY <1>1, <2>3
<1>4. n = 0 => ReadLines(rows) = <<>>
  BY <1>1 DEF Reading
<1> QED
  BY <1>3, <1>4

-----------------------------------------------------------------------------
(* Under the notebook's number of trials, if no run fails to save, the     *)
(* file of traced rows is a sequence of rates, each of TRIALS rows and     *)
(* none there twice.                                                       *)
AlwaysTRIALS ==
    /\ failed["cpu"] = {}
    /\ \A r \in DOMAIN runs : runs[r].name = "cpu" => runs[r].trials \in {TRIALS, NoArg}

RateType == [run : Nat, rate : Nat]

RatesOf(rows, heads) ==
    /\ rows \in Seq(AllRows) /\ heads \in Seq(RateType)
    /\ Len(rows) = Len(heads) * TRIALS
    /\ \A b \in 1 .. Len(heads) :
           Part(rows, b - 1, TRIALS) = RowsOf(heads[b].run, heads[b].rate, TRIALS)
    /\ IsInjective(heads)

(* The script that runs has saved its rates up to this one or before it.   *)
RateSaved == pc \in {"save_untraced", "next"} \cup LoopLeft
IsSaved(h) ==
    /\ h.run <= Len(runs)
    /\ Busy /\ h.run = Len(runs) => IF RateSaved THEN h.rate <= rate ELSE h.rate < rate

RatesKept == AlwaysTRIALS =>
    \E heads : /\ RatesOf(files[File("traced")], heads)
               /\ \A b \in 1 .. Len(heads) : IsSaved(heads[b])

(* There are no rates before the first run.                                *)
LEMMA RatesInit == Init => RatesKept
<1> SUFFICES ASSUME Init
             PROVE  /\ RatesOf(files[File("traced")], <<>>)
                    /\ \A b \in 1 .. Len(<<>>) : IsSaved(<<>>[b])
  BY DEF RatesKept
<1>1. files[File("traced")] = <<>>
  BY FilesDiffer DEF Init, Kinds
<1>2. /\ <<>> \in Seq(AllRows) /\ <<>> \in Seq(RateType)
      /\ Len(<<>>) = 0 /\ 1 .. 0 = {}
  BY EmptySeq
<1>3. 0 = 0 * TRIALS
  BY GraphScriptsAssumption
<1>4. IsInjective(<<>>)
  BY DEF IsInjective
<1> QED
  BY <1>1, <1>2, <1>3, <1>4 DEF RatesOf

(* Where no traced rows are saved, the rates that are saved stay so.       *)
LEMMA SavedStays ==
    ASSUME Drawn, [Next]_vars, ~ SaveTraced, NEW h \in RateType, IsSaved(h)
    PROVE  IsSaved(h)'
<1> USE DEF Goto
<1>1. h.run \in Nat /\ h.rate \in Nat /\ h.run <= Len(runs) /\ Len(runs) \in Nat
  BY SeqIsFun DEF RateType, IsSaved, Drawn
<1>2. CASE RunScript
  <2>1. PICK e : runs' = Append(runs, e) /\ e \in RunType
    BY <1>2 DEF RunScript, RunType
  <2>2. Len(runs') = Len(runs) + 1
    BY <2>1, AppendProperties DEF Drawn
  <2> QED
    BY <1>1, <2>2 DEF IsSaved
<1>3. ASSUME UNCHANGED runs, pc' \in {"shell", "unwind"} PROVE IsSaved(h)'
  BY <1>3 DEF IsSaved, Busy
<1>4. ASSUME UNCHANGED <<runs, rate>>, Busy, RateSaved => RateSaved' PROVE IsSaved(h)'
  <2>1. rate \in Nat
    BY <1>4 DEF Drawn, Lists, Position
  <2> QED
    BY <1>1, <1>4, <2>1 DEF IsSaved
<1> USE DEF Busy, RateSaved, LoopLeft
<1>5. CASE KillOrphans
  BY <1>3, <1>5 DEF KillOrphans
<1>6. CASE EnterGroup
  BY <1>3, <1>4, <1>6 DEF EnterGroup
<1>7. CASE EnterController
  BY <1>3, <1>4, <1>7 DEF EnterController
<1>8. CASE RangeNone \/ BenchmarkRaises
  BY <1>3, <1>8 DEF RangeNone, BenchmarkRaises
<1>9. CASE BenchmarkTraced \/ BenchmarkUntraced
  BY <1>4, <1>9 DEF BenchmarkTraced, BenchmarkUntraced
<1>10. CASE SaveUntraced \/ SaveMemory \/ SaveDropped
  BY <1>4, <1>10 DEF SaveUntraced, SaveMemory, SaveDropped
<1>11. CASE NextRate
  <2>1. UNCHANGED runs /\ Busy /\ RateSaved
    BY <1>11 DEF NextRate
  <2>2. rate \in Nat
    BY <2>1 DEF Drawn, Lists, Position
  <2>3. CASE pc' = "trial" /\ rate' = rate + 1
    BY <1>1, <2>1, <2>2, <2>3 DEF IsSaved
  <2>4. CASE pc' = "leave" /\ UNCHANGED rate
    BY <1>4, <2>1, <2>4
  <2> QED
    BY <1>11, <2>3, <2>4 DEF NextRate
<1>12. CASE Leave
  BY <1>3, <1>4, <1>12 DEF Leave
<1>13. CASE Draw \/ DrawRaises \/ SaveRaises
  BY <1>3, <1>13 DEF Draw, DrawRaises, SaveRaises
<1>14. CASE UNCHANGED vars
  BY <1>14 DEF vars, IsSaved
<1> QED
  BY <1>2, <1>5, <1>6, <1>7, <1>8, <1>9, <1>10, <1>11, <1>12, <1>13, <1>14
     DEF Next, ScriptStep

(* And the file of traced rows stays as it is.                             *)
LEMMA TracedStays == ASSUME Inv, [Next]_vars, ~ SaveTraced, failed'["cpu"] = {}
                     PROVE  files'[File("traced")] = files[File("traced")]
<1>0. File("traced") \in Files
  BY FilesDiffer DEF Kinds
<1>1. ASSUME NEW f, NEW rows, Save(f, rows), f # File("traced")
      PROVE  files'[File("traced")] = files[File("traced")]
  <2>1. files = [g \in Files |-> files[g]]
    BY DEF Inv
  <2>2. \A g \in Files : g # f => files'[g] = files[g]
    BY <1>1, <2>1, SaveOne
  <2> QED
    BY <1>0, <1>1, <2>2
<1>2. CASE SaveUntraced \/ SaveMemory \/ SaveDropped
  <2>1. /\ File("untraced") # File("traced") /\ File("dropped") # File("traced")
        /\ MemoryFile(rate) # File("traced")
    BY FilesDiffer DEF Kinds
  <2> QED
    BY <1>1, <1>2, <2>1 DEF SaveUntraced, SaveMemory, SaveDropped
<1>3. CASE UNCHANGED files
  BY <1>3
<1>4. CASE SaveRaises
  <2>1. script.name # "cpu"
    BY <1>4, FailedGrows DEF Scripts
  <2> QED
    BY <1>1, <1>4, <2>1, PartSaved
<1> QED
  BY <1>2, <1>3, <1>4
     DEF Next, ScriptStep, vars, RunScript, KillOrphans, EnterGroup, EnterController,
         RangeNone, BenchmarkTraced, BenchmarkUntraced, BenchmarkRaises, NextRate,
         Leave, Draw, DrawRaises

(* Another script does not make the earlier ones right.                    *)
LEMMA AlwaysBefore == ASSUME Inv, Drawn, [Next]_vars, AlwaysTRIALS' PROVE AlwaysTRIALS
<1>1. CASE RunScript
  <2>1. PICK e : runs' = Append(runs, e) /\ e \in RunType
    BY <1>1 DEF RunScript, RunType
  <2>2. /\ DOMAIN runs = 1 .. Len(runs) /\ DOMAIN runs' = 1 .. Len(runs')
        /\ Len(runs') = Len(runs) + 1 /\ Len(runs) \in Nat
        /\ \A i \in 1 .. Len(runs) : runs'[i] = runs[i]
    BY <2>1, AppendProperties, LenProperties DEF Drawn
  <2> QED
    BY <1>1, <2>2 DEF AlwaysTRIALS, RunScript
<1>2. CASE UNCHANGED <<runs, failed>>
  BY <1>2 DEF AlwaysTRIALS
<1>3. CASE SaveRaises
  <2>1. UNCHANGED runs /\ failed["cpu"] \subseteq failed'["cpu"]
    BY <1>3, FailedGrows DEF SaveRaises, Scripts
  <2> QED
    BY <2>1 DEF AlwaysTRIALS
<1> QED
  BY <1>1, <1>2, <1>3
     DEF Next, ScriptStep, vars, KillOrphans, EnterGroup, EnterController,
         RangeNone, BenchmarkTraced, BenchmarkUntraced, BenchmarkRaises, NextRate,
         SaveTraced, SaveUntraced, SaveMemory, SaveDropped, Leave, Draw, DrawRaises

(* A rate that is saved is one more in the file, and a new one.            *)
LEMMA RateAppends ==
    ASSUME NEW rows, NEW heads, RatesOf(rows, heads), NEW run \in Nat, NEW r \in Nat,
           \A b \in 1 .. Len(heads) : heads[b] # [run |-> run, rate |-> r]
    PROVE  RatesOf(rows \o RowsOf(run, r, TRIALS), Append(heads, [run |-> run, rate |-> r]))
<1> DEFINE more == RowsOf(run, r, TRIALS)
           all == rows \o more
           h == [run |-> run, rate |-> r]
           longer == Append(heads, h)
           n == Len(heads)
<1>0. TRIALS \in Nat \ {0}
  BY GraphScriptsAssumption
<1>1. more \in Seq(AllRows) /\ Len(more) = TRIALS
  BY <1>0, RowsGrow, FunIsSeq
<1>2. /\ rows \in Seq(AllRows) /\ heads \in Seq(RateType) /\ n \in Nat
      /\ Len(rows) = n * TRIALS /\ n * TRIALS \in Nat
  BY <1>0, SeqIsFun DEF RatesOf
<1>3. h \in RateType
  BY DEF RateType
<1>4. \A i \in 1 .. TRIALS : more[i] = RowsOf(run, r, TRIALS)[i]
  OBVIOUS
<1> HIDE DEF more, h, n
<1>5. /\ all \in Seq(AllRows) /\ Len(all) = n * TRIALS + TRIALS
      /\ \A i \in 1 .. n * TRIALS + TRIALS :
             all[i] = IF i <= n * TRIALS THEN rows[i] ELSE more[i - n * TRIALS]
  <2> DEFINE L == n * TRIALS
  <2>1. /\ all \in Seq(AllRows) /\ Len(all) = Len(rows) + Len(more)
        /\ \A i \in 1 .. Len(rows) + Len(more) :
               all[i] = IF i <= Len(rows) THEN rows[i] ELSE more[i - Len(rows)]
    BY <1>1, <1>2, ConcatProperties
  <2>2. Len(rows) = L /\ Len(more) = TRIALS
    BY <1>1, <1>2
  <2> HIDE DEF all, L
  <2>3. /\ all \in Seq(AllRows) /\ Len(all) = L + TRIALS
        /\ \A i \in 1 .. L + TRIALS :
               all[i] = IF i <= L THEN rows[i] ELSE more[i - L]
    BY <2>1, <2>2
  <2> QED
    BY <2>3 DEF L
<1>6. /\ longer \in Seq(RateType) /\ Len(longer) = n + 1
      /\ \A b \in 1 .. n : longer[b] = heads[b]
      /\ longer[n + 1] = h
  BY <1>2, <1>3, AppendProperties DEF n
<1> HIDE DEF all, longer
<1>7. Len(all) = Len(longer) * TRIALS
  BY <1>0, <1>2, <1>5, <1>6
<1>8. ASSUME NEW b \in 1 .. n + 1
      PROVE  Part(all, b - 1, TRIALS) = RowsOf(longer[b].run, longer[b].rate, TRIALS)
  <2>1. CASE b = n + 1
    <3>1. \A i \in 1 .. TRIALS : all[n * TRIALS + i] = more[i]
      <4> DEFINE L == n * TRIALS
      <4>1. L \in Nat /\ \A i \in 1 .. L + TRIALS : all[i] = IF i <= L THEN rows[i] ELSE more[i - L]
        BY <1>2, <1>5
      <4> HIDE DEF L
      <4>2. ASSUME NEW i \in 1 .. TRIALS PROVE all[L + i] = more[i]
        <5>1. L + i \in 1 .. L + TRIALS /\ ~(L + i <= L) /\ (L + i) - L = i
          BY <1>0, <4>1
        <5> QED
          BY <4>1, <5>1
      <4> QED
        BY <4>2 DEF L
    <3>2. Part(all, n, TRIALS) = [i \in 1 .. TRIALS |-> more[i]]
      BY <3>1 DEF Part
    <3>3. [i \in 1 .. TRIALS |-> more[i]] = more
      BY DEF more, RowsOf
    <3>4. b - 1 = n /\ longer[b].run = run /\ longer[b].rate = r
      <4>1. b - 1 = n
        BY <1>2, <2>1
      <4>2. longer[b] = h
        BY <1>6, <2>1
      <4> QED
        BY <4>1, <4>2 DEF h
    <3> QED
      BY <3>2, <3>3, <3>4 DEF more
  <2>2. CASE b # n + 1
    <3>1. b \in 1 .. n /\ longer[b] = heads[b]
      BY <1>2, <1>6, <2>2
    <3>2. Part(rows, b - 1, TRIALS) = RowsOf(heads[b].run, heads[b].rate, TRIALS)
      BY <3>1 DEF RatesOf, n
    <3>3. \A i \in 1 .. TRIALS : all[(b - 1) * TRIALS + i] = rows[(b - 1) * TRIALS + i]
      <4>1. (b - 1) * TRIALS \in Nat /\ (b - 1) * TRIALS + TRIALS <= n * TRIALS
        <5>1. \A x, y \in Nat : x + 1 <= y => x * TRIALS \in Nat /\ x * TRIALS + TRIALS <= y * TRIALS
          <6> SUFFICES ASSUME NEW x \in Nat, NEW y \in Nat, x + 1 <= y
                       PROVE  x * TRIALS \in Nat /\ x * TRIALS + TRIALS <= y * TRIALS
            OBVIOUS
          <6>1. PICK d \in Nat : y = x + 1 + d
            <7>1. y - x - 1 \in Nat /\ y = x + 1 + (y - x - 1)
              OBVIOUS
            <7> QED
              BY <7>1
          <6>2. y * TRIALS = x * TRIALS + TRIALS + d * TRIALS
            BY <1>0, <6>1
          <6>3. x * TRIALS \in Nat /\ d * TRIALS \in Nat
            BY <1>0
          <6> QED
            <7> DEFINE A == x * TRIALS
                       B == y * TRIALS
                       C == d * TRIALS
            <7>1. A \in Nat /\ C \in Nat /\ B = A + TRIALS + C /\ TRIALS \in Nat
              BY <1>0, <6>2, <6>3
            <7> HIDE DEF A, B, C
            <7>2. A \in Nat /\ A + TRIALS <= B
              BY <7>1
            <7> QED
              BY <7>2 DEF A, B
        <5>2. b - 1 \in Nat /\ (b - 1) + 1 <= n
          BY <1>2, <3>1
        <5> QED
          BY <1>2, <5>1, <5>2
      <4> DEFINE L == (b - 1) * TRIALS
                 M == n * TRIALS
      <4>2. L \in Nat /\ M \in Nat /\ L + TRIALS <= M
        BY <1>2, <4>1
      <4>3. \A i \in 1 .. M + TRIALS : all[i] = IF i <= M THEN rows[i] ELSE more[i - M]
        BY <1>5
      <4> HIDE DEF L, M
      <4>4. \A i \in 1 .. TRIALS : all[L + i] = rows[L + i]
        BY <1>0, <4>2, <4>3
      <4> QED
        BY <4>4 DEF L
    <3>4. Part(all, b - 1, TRIALS) = Part(rows, b - 1, TRIALS)
      BY <3>3 DEF Part
    <3> QED
      BY <3>1, <3>2, <3>4
  <2> QED
    BY <2>1, <2>2
<1>9. IsInjective(longer)
  <2>1. DOMAIN longer = 1 .. n + 1 /\ DOMAIN heads = 1 .. n
    BY <1>2, <1>6, LenProperties DEF n
  <2>2. \A b \in 1 .. n : heads[b] # h
    BY DEF h, n
  <2>3. \A b, c \in 1 .. n : heads[b] = heads[c] => b = c
    BY <2>1 DEF RatesOf, IsInjective
  <2>4. \A b \in 1 .. n + 1 : b \in 1 .. n \/ b = n + 1
    BY <1>2
  <2>5. \A b, c \in 1 .. n + 1 : longer[b] = longer[c] => b = c
    BY <1>6, <2>2, <2>3, <2>4
  <2> QED
    BY <2>1, <2>5 DEF IsInjective
<1>10. RatesOf(all, longer)
  BY <1>5, <1>6, <1>7, <1>8, <1>9 DEF RatesOf
<1> QED
  BY <1>10 DEF all, longer, more, h

(* So the file keeps to whole rates.                                       *)
LEMMA RatesStep == Inv /\ Drawn /\ RatesKept /\ [Next]_vars => RatesKept'
<1> SUFFICES ASSUME Inv, Drawn, RatesKept, [Next]_vars, AlwaysTRIALS'
             PROVE  \E heads : /\ RatesOf(files'[File("traced")], heads)
                               /\ \A b \in 1 .. Len(heads) : IsSaved(heads[b])'
  BY DEF RatesKept, RatesOf, IsInjective
<1>1. AlwaysTRIALS
  BY AlwaysBefore
<1>2. PICK heads : /\ RatesOf(files[File("traced")], heads)
                   /\ \A b \in 1 .. Len(heads) : IsSaved(heads[b])
  BY <1>1 DEF RatesKept
<1>3. heads \in Seq(RateType) /\ Len(heads) \in Nat
      /\ \A b \in 1 .. Len(heads) : heads[b] \in RateType
  BY <1>2, SeqIsFun, ElementOfSeq DEF RatesOf
<1>4. CASE ~ SaveTraced
  <2>1. files'[File("traced")] = files[File("traced")]
    BY <1>4, TracedStays DEF AlwaysTRIALS
  <2>2. \A b \in 1 .. Len(heads) : IsSaved(heads[b])'
    BY <1>2, <1>3, <1>4, SavedStays
  <2> QED
    BY <1>2, <2>1, <2>2
<1>5. CASE SaveTraced
  <2>1. /\ UNCHANGED <<runs, rate>> /\ pc = "trial" /\ pc' = "save_untraced"
        /\ ~ TrialsLeft /\ script.trials # NoArg
        /\ Save(File("traced"), temp["traced"])
    BY <1>5 DEF SaveTraced, Goto
  <2>2. Position /\ CpuLists /\ runs \in Seq(RunType)
    BY <2>1 DEF Drawn, Lists, Busy
  <2>3. /\ Len(runs) \in Nat \ {0} /\ script = runs[Len(runs)]
        /\ script.trials \in Nat /\ trial \in Nat /\ rate \in Nat
    BY <2>1, <2>2, ScriptFacts DEF Position
  <2>4. script.name = "cpu" /\ trial >= script.trials
    BY <2>1, <2>3 DEF TrialsLeft
  <2>5. trial = script.trials /\ temp["traced"] = RowsOf(Len(runs), rate, trial)
    BY <2>1, <2>2, <2>3, <2>4 DEF CpuLists, Kinds
  <2>6. script.trials = TRIALS
    <3>1. Len(runs) \in DOMAIN runs
      BY <2>2, <2>3, LenProperties
    <3> QED
      BY <1>1, <2>1, <2>3, <2>4, <3>1 DEF AlwaysTRIALS
  <2>7. files'[File("traced")] = files[File("traced")] \o RowsOf(Len(runs), rate, TRIALS)
    <3>1. files = [g \in Files |-> files[g]] /\ File("traced") \in Files
      BY FilesDiffer DEF Inv, Kinds
    <3>2. files'[File("traced")] = files[File("traced")] \o temp["traced"]
      BY <2>1, <3>1, SaveOne
    <3> QED
      BY <2>5, <2>6, <3>2
  <2>7a. PICK h : h = [run |-> Len(runs), rate |-> rate]
    OBVIOUS
  <2>7b. PICK longer : longer = Append(heads, h)
    OBVIOUS
  <2>8. \A b \in 1 .. Len(heads) : heads[b] # h
    BY <1>2, <2>1, <2>3, <2>7a DEF IsSaved, Busy, RateSaved, LoopLeft
  <2>9. RatesOf(files'[File("traced")], longer)
    BY <1>2, <2>3, <2>7, <2>8, <2>7a, <2>7b, RateAppends
  <2>10. h \in RateType
    BY <2>3, <2>7a DEF RateType
  <2>11. IsSaved(h)'
    BY <2>1, <2>3, <2>7a DEF IsSaved, RateSaved
  <2>12. \A b \in 1 .. Len(heads) : IsSaved(heads[b])'
    BY <1>2, <1>3, <2>1, <2>3 DEF IsSaved, Busy, RateSaved, LoopLeft, RateType
  <2>13. /\ Len(longer) = Len(heads) + 1
         /\ \A b \in 1 .. Len(heads) : longer[b] = heads[b]
         /\ longer[Len(heads) + 1] = h
    BY <1>3, <2>10, <2>7b, AppendProperties
  <2>14. \A b \in 1 .. Len(longer) : b \in 1 .. Len(heads) \/ b = Len(heads) + 1
    BY <1>3, <2>13
  <2>15. \A b \in 1 .. Len(longer) : IsSaved(longer[b])'
    BY <2>11, <2>12, <2>13, <2>14 DEF IsSaved
  <2> QED
    BY <2>9, <2>15
<1> QED
  BY <1>4, <1>5

(* Every point of the notebook is of one rate of one run, and no two are   *)
(* of the same, if --trials was always TRIALS and no save failed: a run    *)
(* that a benchmark aborts leaves no part of a rate in the file            *)
(* (cpu_graphs.py 75-84, read_file).                                       *)
THEOREM RatesStayApart == Spec => []RatesNotMixed
<1>1. RatesKept => RatesNotMixed
  <2> DEFINE rows == files[File("traced")]
             lists == read_file("traced")
  <2> SUFFICES ASSUME RatesKept, AlwaysTRIALS
               PROVE  /\ \A i \in DOMAIN lists : Len(lists[i]) = TRIALS /\ OfOneRate(lists[i])
                      /\ IsInjective(lists)
                      /\ rows # <<>> => Len(lists) = (Len(rows) \div TRIALS) - 1
    BY DEF RatesNotMixed, AlwaysTRIALS
  <2>0. TRIALS \in Nat \ {0}
    BY GraphScriptsAssumption
  <2>1. PICK heads : RatesOf(rows, heads)
    BY DEF RatesKept
  <2> DEFINE m == Len(heads)
             n == Len(rows)
  <2>2. /\ rows \in Seq(AllRows) /\ m \in Nat /\ n \in Nat /\ n = m * TRIALS
        /\ rows \in [1 .. n -> AllRows]
        /\ heads \in [1 .. m -> RateType]
    BY <2>1, SeqIsFun DEF RatesOf
  <2>3. lists = ReadLines(rows)
    BY DEF read_file
  <2> HIDE DEF rows, lists, m, n
  <2>4. CASE m = 0
    <3>1. n = 0
      BY <2>0, <2>2, <2>4
    <3>2. lists = <<>>
      BY <2>2, <2>3, <3>1, ReadsParts
    <3>3. rows = <<>>
      BY <2>2, <3>1, EmptySeq DEF n
    <3> QED
      BY <3>2, <3>3 DEF IsInjective
  <2>5. CASE m # 0
    <3> DEFINE q == m - 1
    <3>1. q \in Nat /\ m = q + 1
      BY <2>2, <2>5
    <3> HIDE DEF q
    <3>2. n = q * TRIALS + TRIALS /\ TRIALS \in 1 .. TRIALS
      BY <2>0, <2>2, <3>1
    <3>3. lists = Parts(rows, q)
      BY <2>2, <2>3, <3>1, <3>2, ReadsParts
    <3>4. DOMAIN lists = 1 .. q /\ Len(lists) = q
      <4> DEFINE S == {Part(rows, b, TRIALS) : b \in Nat}
      <4>1. Parts(rows, q) \in [1 .. q -> S]
        BY <3>1 DEF Parts
      <4> HIDE DEF S
      <4>2. Len(Parts(rows, q)) = q
        BY <3>1, <4>1, FunIsSeq
      <4> QED
        BY <3>3, <4>1, <4>2
    <3>5. ASSUME NEW i \in 1 .. q
          PROVE  lists[i] = RowsOf(heads[i].run, heads[i].rate, TRIALS) /\ i \in 1 .. m
      <4>1. i \in 1 .. m
        BY <3>1
      <4>2. lists[i] = Part(rows, i - 1, TRIALS)
        BY <3>3 DEF Parts
      <4> QED
        BY <2>1, <4>1, <4>2 DEF RatesOf, m
    <3>6. ASSUME NEW i \in 1 .. q PROVE Len(lists[i]) = TRIALS /\ OfOneRate(lists[i])
      <4>1. heads[i] \in RateType
        BY <2>2, <3>5
      <4>2. heads[i].run \in Nat /\ heads[i].rate \in Nat
        BY <4>1 DEF RateType
      <4>3. RowsOf(heads[i].run, heads[i].rate, TRIALS) \in [1 .. TRIALS -> AllRows]
        BY <2>0, <4>2, RowsGrow
      <4>4. Len(RowsOf(heads[i].run, heads[i].rate, TRIALS)) = TRIALS
        BY <2>0, <4>3, FunIsSeq
      <4>5. OfOneRate(RowsOf(heads[i].run, heads[i].rate, TRIALS))
        BY DEF OfOneRate, RowsOf
      <4> QED
        BY <3>5, <4>4, <4>5
    <3>7. IsInjective(lists)
      <4>1. ASSUME NEW i \in 1 .. q, NEW j \in 1 .. q, lists[i] = lists[j] PROVE i = j
        <5>1. /\ heads[i] \in RateType /\ heads[j] \in RateType
              /\ i \in 1 .. m /\ j \in 1 .. m
          BY <2>2, <3>5
        <5>2. RowsOf(heads[i].run, heads[i].rate, TRIALS)[1]
                  = RowsOf(heads[j].run, heads[j].rate, TRIALS)[1]
          BY <3>5, <4>1
        <5>3. heads[i].run = heads[j].run /\ heads[i].rate = heads[j].rate
          <6>1. 1 \in 1 .. TRIALS
            BY <2>0
          <6> QED
            BY <5>2, <6>1 DEF RowsOf
        <5>4. heads[i] = heads[j]
          BY <5>1, <5>3 DEF RateType
        <5>5. i \in DOMAIN heads /\ j \in DOMAIN heads
          BY <2>2, <5>1
        <5> QED
          BY <2>1, <5>4, <5>5 DEF RatesOf, IsInjective
      <4> QED
        BY <3>4, <4>1 DEF IsInjective
    <3>8. n \div TRIALS = q + 1
      <4> DEFINE y == n \div TRIALS
                 z == n % TRIALS
      <4>1. y \in Nat /\ z \in 0 .. TRIALS - 1 /\ n = TRIALS * y + z
        <5>1. n \in Nat
          BY <2>2
        <5> QED
          BY <2>0, <5>1
      <4>2. \A d \in Int : d >= 1 => TRIALS * d >= TRIALS
        BY <2>0
      <4> HIDE DEF y, z
      <4>3. TRIALS * (y - (q + 1)) = 0 - z /\ TRIALS * ((q + 1) - y) = z
        BY <2>0, <3>1, <3>2, <4>1
      <4>4. ~(y - (q + 1) >= 1) /\ ~((q + 1) - y >= 1)
        BY <2>0, <3>1, <4>1, <4>2, <4>3
      <4>5. y = q + 1
        BY <3>1, <4>1, <4>4
      <4> QED
        BY <4>5 DEF y
    <3>9. Len(lists) = (Len(rows) \div TRIALS) - 1
      BY <3>1, <3>4, <3>8 DEF n
    <3> QED
      BY <3>4, <3>6, <3>7, <3>9
  <2> QED
    BY <2>4, <2>5
<1> QED
  BY <1>1, InvInit, InvStep, DrawnInit, DrawnStep, RatesInit, RatesStep, PTL DEF Spec
-----------------------------------------------------------------------------
(* What is said of a queue of messages, with the sets of messages that it  *)
(* is about as parameters.                                                 *)
Some(q, M) == \E i \in DOMAIN q : q[i] \in M
Every(q, M, N) == \A i \in DOMAIN q : q[i] \in M => q[i] \in N
One(q, M) == \A i, j \in DOMAIN q : q[i] \in M /\ q[j] \in M => i = j
\* Behind a message of A there is none of B.
Behind(q, A, B) == \E i \in DOMAIN q : q[i] \in A /\ \A j \in DOMAIN q : j > i => q[j] \notin B
\* Behind every message of A there is one of B.
Followed(q, A, B) ==
    \A i \in DOMAIN q : q[i] \in A => \E j \in DOMAIN q : j > i /\ q[j] \in B
\* Behind some message of A there is one of B.
Precedes(q, A, B) == \E i, j \in DOMAIN q : i < j /\ q[i] \in A /\ q[j] \in B
\* Every message of A is in front of every message of B.
InFront(q, A, B) == \A i, j \in DOMAIN q : q[i] \in A /\ q[j] \in B => i < j

(* The positions of a queue that has got a message.                        *)
LEMMA Appended ==
    ASSUME NEW S, NEW q \in Seq(S), NEW m \in S
    PROVE  /\ Append(q, m) \in Seq(S)
           /\ DOMAIN q = 1 .. Len(q) /\ Len(q) \in Nat
           /\ DOMAIN Append(q, m) = 1 .. Len(q) + 1
           /\ \A i \in 1 .. Len(q) : Append(q, m)[i] = q[i]
           /\ Append(q, m)[Len(q) + 1] = m
OBVIOUS

(* Those of one whose head has been taken.                                 *)
LEMMA Tailed ==
    ASSUME NEW S, NEW q \in Seq(S), q # <<>>
    PROVE  /\ Tail(q) \in Seq(S) /\ Head(q) \in S
           /\ Len(q) \in Nat \ {0} /\ DOMAIN q = 1 .. Len(q) /\ Head(q) = q[1]
           /\ DOMAIN Tail(q) = 1 .. Len(q) - 1
           /\ \A i \in 1 .. Len(q) - 1 : Tail(q)[i] = q[i + 1]
OBVIOUS

(* What is true of a queue that has got a message.                         *)
LEMMA WithAppended ==
    ASSUME NEW S, NEW q \in Seq(S), NEW m \in S, NEW A, NEW B
    PROVE  /\ Some(Append(q, m), A) <=> Some(q, A) \/ m \in A
           /\ Every(Append(q, m), A, B) <=> Every(q, A, B) /\ (m \in A => m \in B)
           /\ Behind(Append(q, m), A, B) <=> m \in A \/ (Behind(q, A, B) /\ m \notin B)
           /\ Precedes(Append(q, m), A, B) <=> Precedes(q, A, B) \/ (Some(q, A) /\ m \in B)
<1> DEFINE r == Append(q, m)
           n == Len(q)
<1>1. /\ n \in Nat /\ DOMAIN q = 1 .. n /\ DOMAIN r = 1 .. n + 1
      /\ \A i \in 1 .. n : r[i] = q[i]
      /\ r[n + 1] = m
  BY Appended
<1> HIDE DEF r, n
<1>2. Some(r, A) <=> Some(q, A) \/ m \in A
  BY <1>1 DEF Some
<1>3. Every(r, A, B) <=> Every(q, A, B) /\ (m \in A => m \in B)
  BY <1>1 DEF Every
<1>4. Behind(r, A, B) <=> m \in A \/ (Behind(q, A, B) /\ m \notin B)
  <2>1. ASSUME Behind(r, A, B), m \notin A PROVE Behind(q, A, B) /\ m \notin B
    <3>1. PICK i \in 1 .. n + 1 : r[i] \in A /\ \A j \in 1 .. n + 1 : j > i => r[j] \notin B
      BY <1>1, <2>1 DEF Behind
    <3>2. i \in 1 .. n /\ n + 1 > i /\ q[i] \in A
      BY <1>1, <2>1, <3>1
    <3>3. m \notin B
      BY <1>1, <3>1, <3>2
    <3>4. \A j \in 1 .. n : j > i => q[j] \notin B
      BY <1>1, <3>1
    <3> QED
      BY <1>1, <3>2, <3>3, <3>4 DEF Behind
  <2>2. ASSUME m \in A PROVE Behind(r, A, B)
    <3>1. n + 1 \in 1 .. n + 1 /\ r[n + 1] \in A /\ \A j \in 1 .. n + 1 : ~(j > n + 1)
      BY <1>1, <2>2
    <3> QED
      BY <1>1, <3>1 DEF Behind
  <2>3. ASSUME Behind(q, A, B), m \notin B PROVE Behind(r, A, B)
    <3>1. PICK i \in 1 .. n : q[i] \in A /\ \A j \in 1 .. n : j > i => q[j] \notin B
      BY <1>1, <2>3 DEF Behind
    <3>2. i \in 1 .. n + 1 /\ r[i] \in A
      BY <1>1, <3>1
    <3>3. ASSUME NEW j \in 1 .. n + 1, j > i PROVE r[j] \notin B
      <4>1. CASE j = n + 1
        BY <1>1, <2>3, <4>1
      <4>2. CASE j \in 1 .. n
        BY <1>1, <3>1, <3>3, <4>2
      <4> QED
        BY <1>1, <4>1, <4>2
    <3> QED
      BY <1>1, <3>2, <3>3 DEF Behind
  <2> QED
    BY <2>1, <2>2, <2>3
<1>5. Precedes(r, A, B) <=> Precedes(q, A, B) \/ (Some(q, A) /\ m \in B)
  <2>1. ASSUME Precedes(r, A, B), ~Precedes(q, A, B) PROVE Some(q, A) /\ m \in B
    <3>1. PICK i \in 1 .. n + 1, j \in 1 .. n + 1 : i < j /\ r[i] \in A /\ r[j] \in B
      BY <1>1, <2>1 DEF Precedes
    <3>2. i \in 1 .. n /\ q[i] \in A
      BY <1>1, <3>1
    <3>3. j = n + 1
      BY <1>1, <2>1, <3>1, <3>2 DEF Precedes
    <3> QED
      BY <1>1, <3>1, <3>2, <3>3 DEF Some
  <2>2. ASSUME Precedes(q, A, B) PROVE Precedes(r, A, B)
    <3>1. PICK i \in 1 .. n, j \in 1 .. n : i < j /\ q[i] \in A /\ q[j] \in B
      BY <1>1, <2>2 DEF Precedes
    <3>2. i \in 1 .. n + 1 /\ j \in 1 .. n + 1 /\ r[i] \in A /\ r[j] \in B
      BY <1>1, <3>1
    <3> QED
      BY <1>1, <3>1, <3>2 DEF Precedes
  <2>3. ASSUME Some(q, A), m \in B PROVE Precedes(r, A, B)
    <3>1. PICK i \in 1 .. n : q[i] \in A
      BY <1>1, <2>3 DEF Some
    <3>2. i \in 1 .. n + 1 /\ n + 1 \in 1 .. n + 1 /\ i < n + 1 /\ r[i] \in A /\ r[n + 1] \in B
      BY <1>1, <2>3, <3>1
    <3> QED
      BY <1>1, <3>2 DEF Precedes
  <2> QED
    BY <2>1, <2>2, <2>3
<1> QED
  BY <1>2, <1>3, <1>4, <1>5 DEF r

LEMMA WithAppendedOnce ==
    ASSUME NEW S, NEW q \in Seq(S), NEW m \in S, NEW A, NEW B
    PROVE  /\ One(q, A) /\ (m \in A => ~Some(q, A)) => One(Append(q, m), A)
           /\ m \notin A /\ (m \in B \/ Followed(q, A, B)) => Followed(Append(q, m), A, B)
           /\ InFront(q, A, B) /\ (m \in A => ~Some(q, B) /\ m \notin B)
                  => InFront(Append(q, m), A, B)
<1> DEFINE r == Append(q, m)
           n == Len(q)
<1>1. /\ n \in Nat /\ DOMAIN q = 1 .. n /\ DOMAIN r = 1 .. n + 1
      /\ \A i \in 1 .. n : r[i] = q[i]
      /\ r[n + 1] = m
  BY Appended
<1> HIDE DEF r, n
<1>2. ASSUME One(q, A), m \in A => ~Some(q, A) PROVE One(r, A)
  <2> SUFFICES ASSUME NEW i \in 1 .. n + 1, NEW j \in 1 .. n + 1, r[i] \in A, r[j] \in A
               PROVE  i = j
    BY <1>1 DEF One
  <2>1. CASE i \in 1 .. n /\ j \in 1 .. n
    BY <1>1, <1>2, <2>1 DEF One
  <2>2. CASE i = n + 1
    BY <1>1, <1>2, <2>2 DEF Some
  <2>3. CASE j = n + 1
    BY <1>1, <1>2, <2>3 DEF Some
  <2> QED
    BY <1>1, <2>1, <2>2, <2>3
<1>3. ASSUME m \notin A, m \in B \/ Followed(q, A, B) PROVE Followed(r, A, B)
  <2> SUFFICES ASSUME NEW i \in 1 .. n + 1, r[i] \in A
               PROVE  \E j \in 1 .. n + 1 : j > i /\ r[j] \in B
    BY <1>1 DEF Followed
  <2>1. i \in 1 .. n /\ q[i] \in A
    BY <1>1, <1>3
  <2>2. CASE m \in B
    <3>1. n + 1 \in 1 .. n + 1 /\ n + 1 > i /\ r[n + 1] \in B
      BY <1>1, <2>1, <2>2
    <3> QED
      BY <3>1
  <2>3. CASE Followed(q, A, B)
    <3>1. PICK j \in 1 .. n : j > i /\ q[j] \in B
      BY <1>1, <2>1, <2>3 DEF Followed
    <3>2. j \in 1 .. n + 1 /\ r[j] \in B
      BY <1>1, <3>1
    <3> QED
      BY <3>1, <3>2
  <2> QED
    BY <1>3, <2>2, <2>3
<1>4. ASSUME InFront(q, A, B), m \in A => ~Some(q, B) /\ m \notin B PROVE InFront(r, A, B)
  <2> SUFFICES ASSUME NEW i \in 1 .. n + 1, NEW j \in 1 .. n + 1, r[i] \in A, r[j] \in B
               PROVE  i < j
    BY <1>1 DEF InFront
  <2>1. CASE i = n + 1
    BY <1>1, <1>4, <2>1 DEF Some
  <2>2. CASE i \in 1 .. n /\ j = n + 1
    BY <1>1, <2>2
  <2>3. CASE i \in 1 .. n /\ j \in 1 .. n
    BY <1>1, <1>4, <2>3 DEF InFront
  <2> QED
    BY <1>1, <2>1, <2>2, <2>3
<1> QED
  BY <1>2, <1>3, <1>4 DEF r

(* What is true of a queue whose head has been taken.                      *)
LEMMA WithTail ==
    ASSUME NEW S, NEW q \in Seq(S), q # <<>>, NEW A, NEW B
    PROVE  /\ Some(q, A) <=> Head(q) \in A \/ Some(Tail(q), A)
           /\ Every(q, A, B) <=> (Head(q) \in A => Head(q) \in B) /\ Every(Tail(q), A, B)
           /\ Behind(q, A, B) <=> \/ Behind(Tail(q), A, B)
                                  \/ Head(q) \in A /\ ~Some(Tail(q), B)
           /\ Precedes(q, A, B) <=> \/ Precedes(Tail(q), A, B)
                                    \/ Head(q) \in A /\ Some(Tail(q), B)
<1> DEFINE r == Tail(q)
           n == Len(q)
           h == Head(q)
<1>1. /\ n \in Nat \ {0} /\ DOMAIN q = 1 .. n /\ DOMAIN r = 1 .. n - 1
      /\ \A i \in 1 .. n - 1 : r[i] = q[i + 1]
      /\ h = q[1]
  BY Tailed
<1> HIDE DEF r, n, h
<1>2. \A i \in 1 .. n : i = 1 \/ (i - 1 \in 1 .. n - 1 /\ r[i - 1] = q[i])
  BY <1>1
<1>3. \A i \in 1 .. n - 1 : i + 1 \in 1 .. n /\ i + 1 > 1
  BY <1>1
<1>4. Some(q, A) <=> h \in A \/ Some(r, A)
  <2>1. ASSUME Some(q, A), h \notin A PROVE Some(r, A)
    BY <1>1, <1>2, <2>1 DEF Some
  <2>2. ASSUME h \in A PROVE Some(q, A)
    BY <1>1, <2>2 DEF Some
  <2>3. ASSUME Some(r, A) PROVE Some(q, A)
    BY <1>1, <1>3, <2>3 DEF Some
  <2> QED
    BY <2>1, <2>2, <2>3
<1>5. Every(q, A, B) <=> (h \in A => h \in B) /\ Every(r, A, B)
  <2>1. ASSUME Every(q, A, B) PROVE (h \in A => h \in B) /\ Every(r, A, B)
    BY <1>1, <1>3, <2>1 DEF Every
  <2>2. ASSUME h \in A => h \in B, Every(r, A, B) PROVE Every(q, A, B)
    BY <1>1, <1>2, <2>2 DEF Every
  <2> QED
    BY <2>1, <2>2
<1>6. Behind(q, A, B) <=> Behind(r, A, B) \/ (h \in A /\ ~Some(r, B))
  <2>1. ASSUME Behind(q, A, B), ~Behind(r, A, B) PROVE h \in A /\ ~Some(r, B)
    <3>1. PICK i \in 1 .. n : q[i] \in A /\ \A j \in 1 .. n : j > i => q[j] \notin B
      BY <1>1, <2>1 DEF Behind
    <3>2. i = 1
      <4> SUFFICES ASSUME i # 1 PROVE FALSE
        OBVIOUS
      <4>1. i - 1 \in 1 .. n - 1 /\ r[i - 1] \in A
        BY <1>2, <3>1
      <4>2. \A j \in 1 .. n - 1 : j > i - 1 => r[j] \notin B
        BY <1>1, <1>3, <3>1
      <4> QED
        BY <1>1, <2>1, <4>1, <4>2 DEF Behind
    <3> QED
      BY <1>1, <1>3, <3>1, <3>2 DEF Some
  <2>2. ASSUME Behind(r, A, B) PROVE Behind(q, A, B)
    <3>1. PICK i \in 1 .. n - 1 : r[i] \in A /\ \A j \in 1 .. n - 1 : j > i => r[j] \notin B
      BY <1>1, <2>2 DEF Behind
    <3>2. i + 1 \in 1 .. n /\ q[i + 1] \in A
      BY <1>1, <1>3, <3>1
    <3>3. ASSUME NEW j \in 1 .. n, j > i + 1 PROVE q[j] \notin B
      <4>1. j - 1 \in 1 .. n - 1 /\ j - 1 > i /\ r[j - 1] = q[j]
        BY <1>1, <1>2, <3>1, <3>3
      <4> QED
        BY <3>1, <4>1
    <3> QED
      BY <1>1, <3>2, <3>3 DEF Behind
  <2>3. ASSUME h \in A, ~Some(r, B) PROVE Behind(q, A, B)
    <3>1. \A j \in 1 .. n : j > 1 => q[j] \notin B
      BY <1>1, <1>2, <2>3 DEF Some
    <3>2. 1 \in 1 .. n /\ q[1] \in A
      BY <1>1, <2>3
    <3> QED
      BY <1>1, <3>1, <3>2 DEF Behind
  <2> QED
    BY <2>1, <2>2, <2>3
<1>7. Precedes(q, A, B) <=> Precedes(r, A, B) \/ (h \in A /\ Some(r, B))
  <2>1. ASSUME Precedes(q, A, B), ~Precedes(r, A, B) PROVE h \in A /\ Some(r, B)
    <3>1. PICK i \in 1 .. n, j \in 1 .. n : i < j /\ q[i] \in A /\ q[j] \in B
      BY <1>1, <2>1 DEF Precedes
    <3>2. j - 1 \in 1 .. n - 1 /\ r[j - 1] \in B
      BY <1>2, <3>1
    <3>3. i = 1
      <4> SUFFICES ASSUME i # 1 PROVE FALSE
        OBVIOUS
      <4>1. i - 1 \in 1 .. n - 1 /\ r[i - 1] \in A /\ i - 1 < j - 1
        BY <1>2, <3>1
      <4> QED
        BY <1>1, <2>1, <3>2, <4>1 DEF Precedes
    <3> QED
      BY <1>1, <3>1, <3>2, <3>3 DEF Some
  <2>2. ASSUME Precedes(r, A, B) PROVE Precedes(q, A, B)
    <3>1. PICK i \in 1 .. n - 1, j \in 1 .. n - 1 : i < j /\ r[i] \in A /\ r[j] \in B
      BY <1>1, <2>2 DEF Precedes
    <3>2. /\ i + 1 \in 1 .. n /\ j + 1 \in 1 .. n /\ i + 1 < j + 1
          /\ q[i + 1] \in A /\ q[j + 1] \in B
      BY <1>1, <1>3, <3>1
    <3> QED
      BY <1>1, <3>2 DEF Precedes
  <2>3. ASSUME h \in A, Some(r, B) PROVE Precedes(q, A, B)
    <3>1. PICK j \in 1 .. n - 1 : r[j] \in B
      BY <1>1, <2>3 DEF Some
    <3>2. 1 \in 1 .. n /\ j + 1 \in 1 .. n /\ 1 < j + 1 /\ q[1] \in A /\ q[j + 1] \in B
      BY <1>1, <1>3, <2>3, <3>1
    <3> QED
      BY <1>1, <3>2 DEF Precedes
  <2> QED
    BY <2>1, <2>2, <2>3
<1> QED
  BY <1>4, <1>5, <1>6, <1>7 DEF r, h

LEMMA WithTailOnce ==
    ASSUME NEW S, NEW q \in Seq(S), q # <<>>, NEW A, NEW B
    PROVE  /\ One(q, A) => One(Tail(q), A) /\ (Head(q) \in A => ~Some(Tail(q), A))
           /\ Followed(q, A, B) => /\ Followed(Tail(q), A, B)
                                   /\ Head(q) \in A => Some(Tail(q), B)
           /\ InFront(q, A, B) => /\ InFront(Tail(q), A, B)
                                  /\ Head(q) \in B => ~Some(Tail(q), A) /\ Head(q) \notin A
<1> DEFINE r == Tail(q)
           n == Len(q)
           h == Head(q)
<1>1. /\ n \in Nat \ {0} /\ DOMAIN q = 1 .. n /\ DOMAIN r = 1 .. n - 1
      /\ \A i \in 1 .. n - 1 : r[i] = q[i + 1]
      /\ h = q[1]
  BY Tailed
<1> HIDE DEF r, n, h
<1>2. \A i \in 1 .. n : i = 1 \/ (i - 1 \in 1 .. n - 1 /\ r[i - 1] = q[i])
  BY <1>1
<1>3. 1 \in 1 .. n /\ \A i \in 1 .. n - 1 : i + 1 \in 1 .. n /\ i + 1 > 1
  BY <1>1
<1>4. ASSUME One(q, A) PROVE One(r, A) /\ (h \in A => ~Some(r, A))
  <2>1. One(r, A)
    <3> SUFFICES ASSUME NEW i \in 1 .. n - 1, NEW j \in 1 .. n - 1, r[i] \in A, r[j] \in A
                 PROVE  i = j
      BY <1>1 DEF One
    <3>1. i + 1 = j + 1
      BY <1>1, <1>3, <1>4 DEF One
    <3> QED
      BY <3>1
  <2>2. ASSUME h \in A, Some(r, A) PROVE FALSE
    <3>1. PICK i \in 1 .. n - 1 : r[i] \in A
      BY <1>1, <2>2 DEF Some
    <3>2. i + 1 = 1
      BY <1>1, <1>3, <1>4, <2>2, <3>1 DEF One
    <3> QED
      BY <3>2
  <2> QED
    BY <2>1, <2>2
<1>5. ASSUME Followed(q, A, B) PROVE Followed(r, A, B) /\ (h \in A => Some(r, B))
  <2>1. ASSUME NEW i \in 1 .. n, q[i] \in A
        PROVE  \E j \in 1 .. n - 1 : j >= i /\ r[j] \in B
    <3>1. PICK j \in 1 .. n : j > i /\ q[j] \in B
      BY <1>1, <1>5, <2>1 DEF Followed
    <3>2. j - 1 \in 1 .. n - 1 /\ j - 1 >= i /\ r[j - 1] \in B
      BY <1>2, <3>1
    <3> QED
      BY <3>2
  <2>2. Followed(r, A, B)
    <3> SUFFICES ASSUME NEW i \in 1 .. n - 1, r[i] \in A
                 PROVE  \E j \in 1 .. n - 1 : j > i /\ r[j] \in B
      BY <1>1 DEF Followed
    <3>1. i + 1 \in 1 .. n /\ q[i + 1] \in A
      BY <1>1, <1>3
    <3>2. PICK j \in 1 .. n - 1 : j >= i + 1 /\ r[j] \in B
      BY <2>1, <3>1
    <3>3. j > i
      BY <3>2
    <3> QED
      BY <3>2, <3>3
  <2>3. h \in A => Some(r, B)
    BY <1>1, <1>3, <2>1 DEF Some
  <2> QED
    BY <2>2, <2>3
<1>6. ASSUME InFront(q, A, B)
      PROVE  InFront(r, A, B) /\ (h \in B => ~Some(r, A) /\ h \notin A)
  <2>1. InFront(r, A, B)
    <3> SUFFICES ASSUME NEW i \in 1 .. n - 1, NEW j \in 1 .. n - 1, r[i] \in A, r[j] \in B
                 PROVE  i < j
      BY <1>1 DEF InFront
    <3>1. i + 1 < j + 1
      BY <1>1, <1>3, <1>6 DEF InFront
    <3> QED
      BY <3>1
  <2>2. ASSUME h \in B, Some(r, A) PROVE FALSE
    <3>1. PICK i \in 1 .. n - 1 : r[i] \in A
      BY <1>1, <2>2 DEF Some
    <3>2. i + 1 < 1
      BY <1>1, <1>3, <1>6, <2>2, <3>1 DEF InFront
    <3> QED
      BY <3>2
  <2>3. ASSUME h \in B, h \in A PROVE FALSE
    BY <1>1, <1>3, <1>6, <2>3 DEF InFront
  <2> QED
    BY <2>1, <2>2, <2>3
<1> QED
  BY <1>4, <1>5, <1>6 DEF r, h

(* What is true of an empty queue, and of other sets of messages.          *)
LEMMA WithNone ==
    ASSUME NEW q, NEW A, NEW B
    PROVE  /\ q = <<>> => ~Some(q, A) /\ ~Behind(q, A, B)
           /\ ~Some(q, A) => /\ Every(q, A, B) /\ ~Behind(q, A, B) /\ ~Precedes(q, A, B)
                             /\ Followed(q, A, B)
           /\ ~Some(q, B) => /\ ~Precedes(q, A, B)
                             /\ Followed(q, A, B) => ~Some(q, A)
BY DEF Some, Every, Behind, Precedes, Followed

LEMMA OtherSet ==
    ASSUME NEW q, NEW A, NEW B, NEW C, B \cap A \subseteq C
    PROVE  /\ Every(q, A, B) => Every(q, A, C)
           /\ Some(q, A) /\ Every(q, A, B) => Some(q, C)
BY DEF Some, Every

LEMMA Subset ==
    ASSUME NEW q, NEW A, NEW C, A \subseteq C
    PROVE  Some(q, A) => Some(q, C)
BY DEF Some
-----------------------------------------------------------------------------
(* The messages of the comm.                                               *)
Messages ==
    [type : {"draw", "figure_label", "close", "refresh", "supports_binary", "set_dpi_ratio",
             "send_image_mode", "ack", "closing", "key_release", "mouse", "toolbar_button"}]
        \cup [type : {"key_press"}, key : Keys]
        \cup [type : {"resize"}, size : Sizes]
        \cup [type : {"image_mode"}, mode : {"full", "diff"}]
        \cup [type : {"image"}, version : Nat \ {0}, base : Nat, full : BOOLEAN, size : Sizes]

Of(t) == {m \in Messages : m.type = t}
Draws == Of("draw")
Refresh == Of("refresh")
Resize == Of("resize")
AskMode == Of("send_image_mode")
TellMode == Of("image_mode")
Images == Of("image")

Pictures == {m \in [version : Nat, base : Nat, full : BOOLEAN, size : Sizes] : m = NoImage}
                \cup Images

Figures == [version : Nat \ {0}, size : Sizes, mode : {"full", "diff"},
            force_full : BOOLEAN, base : Nat, open : BOOLEAN]

FigureTyped ==
    /\ kernel \in Figures
    /\ toBrowser \in Seq(Messages) /\ toKernel \in Seq(Messages)
    /\ waiting \in BOOLEAN /\ mpl_ratio \in Ratios
    /\ late \in BOOLEAN /\ overtaken \in BOOLEAN
    /\ image_mode \in {"full", "diff"}
    /\ loading \in Pictures /\ last \in Pictures
    /\ canvas \in [size : Sizes, shows : Int]
    /\ timers \in Nat

(* One draw at a time is asked for or answered, and as long the browser    *)
(* waits for it.                                                           *)
OneDraw ==
    /\ One(toKernel, Draws) /\ One(toBrowser, Images)
    /\ ~(Some(toKernel, Draws) /\ Some(toBrowser, Images))
    /\ waiting <=> Some(toKernel, Draws) \/ Some(toBrowser, Images)

Between(v, w) == {m \in Images : v <= m.version /\ m.version <= w}
FromBlank == {m \in Images : m.full => m.base = Blank}

ImagesInOrder ==
    /\ last.version <= kernel.version
    /\ Every(toBrowser, Images, Between(last.version, kernel.version))
    /\ Every(toBrowser, Images, FromBlank)

(* A change is in the last image, or in one to come.                       *)
Of_version(v) == {m \in Images : m.version = v}

ImageComes ==
    \/ last.version = kernel.version
    \/ Some(toKernel, Draws) \/ Some(toKernel, Refresh)
    \/ Some(toBrowser, Of_version(kernel.version))
    \/ Behind(toBrowser, Draws, Images)

(* The canvas has the size of the figure, or that of the figure is its     *)
(* width in pixels, or a size is on its way.                               *)
Of_size(s) == {m \in Resize : m.size = s}

SizeComes ==
    \/ kernel.size \in {canvas.size, mpl_ratio * canvas.size} /\ ~Some(toBrowser, Resize)
    \/ Behind(toBrowser, Of_size(kernel.size), Resize)

(* The mode of an image is told in front of it.                            *)
Of_mode(mode) == {m \in TellMode : m.mode = mode}
In_mode(mode) == {m \in Images : Mode(m.full) = mode}

ModeTold ==
    /\ InFront(toKernel, AskMode, Draws)
    /\ Some(toKernel, AskMode) => kernel.force_full /\ kernel.mode = "full"
    /\ Every(toBrowser, TellMode, Of_mode(kernel.mode))
    /\ \/ kernel.force_full /\ kernel.mode = "full"
       \/ Followed(toBrowser, TellMode, Images)
    /\ image_mode = kernel.mode \/ Precedes(toBrowser, TellMode, Images)
    /\ Every(toBrowser, Images, In_mode(kernel.mode))
    /\ last # NoImage /\ ~Some(toBrowser, Images) => kernel.mode = Mode(last.full)

(* The image that is loaded is the last.  If it is not late it is drawn in *)
(* its own mode.                                                           *)
LoadingLast ==
    loading # NoImage =>
        /\ loading = last
        /\ loading.full => loading.base = Blank
        /\ ~late => image_mode = Mode(loading.full)

(* The canvas has been cleared or may be, and a full image will be asked   *)
(* for, unless one is under way.                                           *)
Clearing == {m \in Resize : mpl_ratio # 1 \/ m.size # canvas.size}

Heals == \/ Some(toBrowser, Clearing)
         \/ Some(toKernel, Refresh)
         \/ kernel.force_full /\ (Some(toKernel, Draws) \/ Behind(toBrowser, Draws, Images))

Full == {m \in Images : m.full}

(* Otherwise every image is drawn on the one that it is a change of, if    *)
(* the canvas has the figure's size.                                       *)
Fitting == {m \in Images : /\ m.size = canvas.size
                           /\ kernel.base = m.version
                           /\ m.full \/ m.base = last.version}

CanvasDrawn ==
    /\ kernel.base = last.version \/ Some(toBrowser, Images)
    /\ loading # NoImage => /\ loading.size = canvas.size
                            /\ loading.full \/ late \/ canvas.shows = loading.base
    /\ loading = NoImage /\ (~late \/ (last.full /\ ~Some(toBrowser, Images)))
           => canvas.shows = last.version

CanvasHeals ==
    ~Heals /\ canvas.size = kernel.size =>
        /\ Every(toBrowser, Images, Fitting)
        /\ Some(toBrowser, Full) \/ CanvasDrawn

(* The output is that of the canvas, or it will be copied, unless the last *)
(* image came later than its copy.                                         *)
OutputComes ==
    cell = "found" =>
        \/ output = canvas.shows \/ timers > 0 \/ overtaken
        \/ Some(toKernel, Refresh) \/ Some(toKernel, Draws)
        \/ Some(toBrowser, Draws) \/ Some(toBrowser, Images)

FigureInv ==
    kernel.open => /\ OneDraw /\ ImagesInOrder /\ ImageComes /\ SizeComes
                   /\ ModeTold /\ LoadingLast /\ CanvasHeals /\ OutputComes

(* The same of any figure, live or closed, if its canvas is not cleared.   *)
OutputKept ==
    cell = "found" =>
        /\ loading # NoImage => timers > 0 \/ overtaken
        /\ output = canvas.shows \/ timers > 0 \/ overtaken \/ canvas.shows = Blank
-----------------------------------------------------------------------------
(* A message is of the type that it says, and has what messages of that    *)
(* type have.                                                              *)
LEMMA MessageTypes ==
    ASSUME NEW m \in Messages
    PROVE  /\ \A t : m \in Of(t) <=> m.type = t
           /\ m.type = "resize" => m.size \in Sizes
           /\ m.type = "image_mode" => m.mode \in {"full", "diff"}
           /\ m.type = "image" => m.version \in Nat \ {0} /\ m.base \in Nat /\ m.full \in BOOLEAN
                                      /\ m.size \in Sizes
BY DEF Of, Messages

LEMMA SignalTypes ==
    /\ \A t \in {"draw", "figure_label", "close", "refresh", "supports_binary",
                 "set_dpi_ratio", "send_image_mode", "ack", "closing", "key_release",
                 "mouse", "toolbar_button"} : Msg(t) \in Messages /\ Msg(t).type = t
    /\ \A s \in Sizes : [type |-> "resize", size |-> s] \in Messages
    /\ \A k \in Keys : [type |-> "key_press", key |-> k] \in Messages
    /\ \A m \in {"full", "diff"} : [type |-> "image_mode", mode |-> m] \in Messages
BY DEF Messages, Msg

(* NoImage is no image of the kernel.                                      *)
LEMMA PictureTypes ==
    ASSUME NEW p \in Pictures
    PROVE  /\ p.version \in Nat /\ p.base \in Nat /\ p.full \in BOOLEAN /\ p.size \in Sizes
           /\ p # NoImage => p \in Images
           /\ p \in Images => p # NoImage /\ p.version # 0
<1>1. CASE p \in Images
  BY <1>1, MessageTypes DEF Images, Of, NoImage, Blank
<1>2. CASE p = NoImage
  BY <1>2, FigureAssumption, MessageTypes DEF NoImage, Blank, Images, Of
<1> QED
  BY <1>1, <1>2 DEF Pictures

(* Messages sent together are sent one after the other.                    *)
LEMMA SentTogether ==
    ASSUME NEW q \in Seq(Messages), NEW a \in Messages, NEW b \in Messages
    PROVE  /\ q \o <<>> = q
           /\ q \o <<a>> = Append(q, a)
           /\ q \o <<a, b>> = Append(Append(q, a), b)
<1>1. q \o <<>> = q
  OBVIOUS
<1>2. q \o <<a>> = Append(q, a)
  OBVIOUS
<1>3. q \o <<a, b>> = Append(Append(q, a), b)
  <2> DEFINE r == q \o <<a, b>>
             s == Append(q, a)
             p == Append(s, b)
             n == Len(q)
  <2>1. n \in Nat /\ Len(<<a, b>>) = 2 /\ <<a, b>>[1] = a /\ <<a, b>>[2] = b
    OBVIOUS
  <2>2. r \in Seq(Messages) /\ Len(r) = n + 2
    BY <2>1
  <2>3. /\ \A i \in 1 .. n : r[i] = q[i]
        /\ r[n + 1] = a /\ r[n + 2] = b
    BY <2>1
  <2>4. s \in Seq(Messages) /\ Len(s) = n + 1 /\ s[n + 1] = a /\ \A i \in 1 .. n : s[i] = q[i]
    OBVIOUS
  <2> HIDE DEF s
  <2>5. p \in Seq(Messages) /\ Len(p) = n + 2 /\ p[n + 2] = b /\ \A i \in 1 .. n + 1 : p[i] = s[i]
    BY <2>1, <2>4
  <2> HIDE DEF p, r, n
  <2>6. \A i \in 1 .. n + 2 : i \in 1 .. n \/ i = n + 1 \/ i = n + 2
    BY <2>1
  <2>7. n + 1 \in 1 .. n + 1 /\ \A i \in 1 .. n : i \in 1 .. n + 1
    BY <2>1
  <2>8. \A i \in 1 .. n + 2 : r[i] = p[i]
    BY <2>3, <2>4, <2>5, <2>6, <2>7
  <2>9. r = p
    <3>1. r = [i \in 1 .. Len(r) |-> r[i]] /\ p = [i \in 1 .. Len(p) |-> p[i]]
      BY <2>2, <2>5
    <3> QED
      BY <2>2, <2>5, <2>8, <3>1
  <2> QED
    BY <2>9 DEF r, s, p
<1> QED
  BY <1>1, <1>2, <1>3

LEMMA FigureInitType == FigureInit => FigureTyped
<1> SUFFICES ASSUME FigureInit PROVE FigureTyped
  OBVIOUS
<1>1. PICK s \in Sizes :
          /\ kernel = [version |-> 1, size |-> s, mode |-> "full", force_full |-> TRUE,
                       base |-> Blank, open |-> TRUE]
          /\ toBrowser = <<[type |-> "resize", size |-> s]>>
  BY DEF FigureInit
<1>2. kernel \in Figures
  BY <1>1 DEF Blank, Figures
<1>3. toBrowser \in Seq(Messages)
  <2> DEFINE m == [type |-> "resize", size |-> s]
  <2>1. m \in Messages
    BY SignalTypes
  <2> HIDE DEF m
  <2> QED
    BY <1>1, <2>1 DEF m
<1>4. toKernel \in Seq(Messages)
  BY SignalTypes DEF FigureInit, onopen
<1>5. NoImage \in Pictures
  BY FigureAssumption DEF NoImage, Pictures, Blank
<1>6. canvas \in [size : Sizes, shows : Int]
  BY FigureAssumption DEF FigureInit, figure, Blank
<1> QED
  BY <1>2, <1>3, <1>4, <1>5, <1>6 DEF FigureInit, figure, FigureTyped

(* What the kernel may do to its figure and say, by the message it takes.  *)
Unseen == UNCHANGED <<waiting, image_mode, loading, canvas, cell, output, timers, mpl_ratio,
                      last, late, overtaken>>

Takes(m) == toKernel # <<>> /\ m = Head(toKernel) /\ toKernel' = Tail(toKernel) /\ Unseen

DrawsIn(m, full) ==
    /\ m.type = "draw" /\ (kernel.force_full => full)
    /\ kernel' = [kernel EXCEPT !.force_full = FALSE, !.mode = Mode(full), !.base = kernel.version]
    /\ toBrowser' = Append(IF Mode(full) = kernel.mode THEN toBrowser
                           ELSE Append(toBrowser, [type |-> "image_mode", mode |-> Mode(full)]),
                           Image(full))

Refreshes(m) ==
    /\ m.type = "refresh"
    /\ kernel' = [kernel EXCEPT !.force_full = TRUE]
    /\ toBrowser' = Append(Append(toBrowser, Msg("figure_label")), Msg("draw"))

ResizesTo(m) ==
    /\ m.type = "resize"
    /\ kernel' = [kernel EXCEPT !.size = m.size,
                                !.base = IF m.size = kernel.size THEN @ ELSE Blank]
    /\ toBrowser' = Append(toBrowser, [type |-> "resize", size |-> m.size])

TellsMode(m) ==
    /\ m.type = "send_image_mode" /\ kernel' = kernel
    /\ toBrowser' = Append(toBrowser, [type |-> "image_mode", mode |-> kernel.mode])

Ignores(m) ==
    /\ m.type \notin {"draw", "refresh", "resize", "send_image_mode"}
    /\ kernel' = kernel /\ toBrowser' = toBrowser

(* Where the ratio is not one the canvas has more pixels than its size.    *)
LEMMA InPixels ==
    ASSUME FigureTyped
    PROVE  /\ mpl_ratio = 1 => mpl_ratio * canvas.size = canvas.size
           /\ mpl_ratio # 1 => mpl_ratio * canvas.size # canvas.size
<1> DEFINE r == mpl_ratio
           s == canvas.size
<1>1. r \in Nat \ {0} /\ s \in Nat \ {0}
  BY FigureAssumption DEF FigureTyped
<1> HIDE DEF r, s
<1>2. r = 1 => r * s = s
  BY <1>1
<1>3. ASSUME r # 1 PROVE r * s # s
  <2>1. r - 1 \in Nat \ {0} /\ r * s = (r - 1) * s + s
    BY <1>1, <1>3
  <2>2. (r - 1) * s \in Nat \ {0}
    BY <1>1, <2>1
  <2> QED
    BY <1>1, <2>1, <2>2
<1> QED
  BY <1>2, <1>3 DEF r, s

LEMMA ImageTypes ==
    ASSUME FigureTyped, NEW full \in BOOLEAN
    PROVE  /\ Image(full) \in Images /\ Mode(full) \in {"full", "diff"}
           /\ Image(full).version = kernel.version /\ Image(full).full = full
           /\ Image(full).size = kernel.size
           /\ Image(full).base = IF full THEN Blank ELSE kernel.base
<1>1. kernel.version \in Nat \ {0} /\ kernel.size \in Sizes /\ kernel.base \in Nat
  BY DEF FigureTyped, Figures
<1> QED
  BY <1>1 DEF Image, Mode, Blank, Images, Of, Messages

LEMMA KernelCases ==
    ASSUME FigureTyped, Kernel
    PROVE  LET m == Head(toKernel)
           IN  /\ Takes(m) /\ m \in Messages
               /\ \/ \E full \in BOOLEAN : DrawsIn(m, full)
                  \/ Refreshes(m) \/ ResizesTo(m) \/ TellsMode(m) \/ Ignores(m)
                  \/ kernel' = [kernel EXCEPT !.open = FALSE] /\ toBrowser' = toBrowser
                  \/ ~kernel.open /\ UNCHANGED <<kernel, toBrowser>>
<1> DEFINE m == Head(toKernel)
<1>1. Takes(m) /\ m \in Messages
  BY Tailed DEF Kernel, Takes, Unseen, shown, saved, history, FigureTyped
<1>2. toBrowser \in Seq(Messages)
  BY DEF FigureTyped
<1>3. CASE ~kernel.open
  BY <1>1, <1>3 DEF Kernel
<1>4. CASE kernel.open
  <2>1. Answer(m)
    BY <1>4 DEF Kernel
  <2> HIDE DEF m
  <2>2. CASE m.type = "draw"
    <3>1. PICK full \in BOOLEAN :
              /\ kernel.force_full => full
              /\ kernel' = [kernel EXCEPT !.force_full = FALSE, !.mode = Mode(full),
                                          !.base = kernel.version]
              /\ toBrowser' = toBrowser
                        \o (IF Mode(full) = kernel.mode THEN <<>>
                            ELSE <<[type |-> "image_mode", mode |-> Mode(full)]>>)
                        \o <<Image(full)>>
      BY <2>1, <2>2 DEF Answer
    <3> DEFINE i == Image(full)
               t == [type |-> "image_mode", mode |-> Mode(full)]
    <3>2. i \in Messages /\ t \in Messages
      BY ImageTypes, SignalTypes DEF Images, Of
    <3> HIDE DEF i, t
    <3>3. toBrowser' = Append(IF Mode(full) = kernel.mode THEN toBrowser
                              ELSE Append(toBrowser, t), i)
      <4>1. CASE Mode(full) = kernel.mode
        <5>1. toBrowser' = (toBrowser \o <<>>) \o <<i>>
          BY <3>1, <4>1 DEF i
        <5> QED
          BY <1>2, <3>2, <4>1, <5>1, SentTogether
      <4>2. CASE Mode(full) # kernel.mode
        <5>1. toBrowser' = (toBrowser \o <<t>>) \o <<i>>
          BY <3>1, <4>2 DEF i, t
        <5>2. toBrowser \o <<t>> = Append(toBrowser, t) /\ Append(toBrowser, t) \in Seq(Messages)
          BY <1>2, <3>2, SentTogether, Appended
        <5>3. Append(toBrowser, t) \o <<i>> = Append(Append(toBrowser, t), i)
          BY <3>2, <5>2, SentTogether
        <5> QED
          BY <4>2, <5>1, <5>2, <5>3
      <4> QED
        BY <4>1, <4>2
    <3>4. DrawsIn(m, full)
      BY <2>2, <3>1, <3>3 DEF DrawsIn, i, t
    <3> QED
      BY <1>1, <3>4 DEF m
  <2>3. CASE m.type = "refresh"
    <3>1. toBrowser' = toBrowser \o <<Msg("figure_label"), Msg("draw")>>
      BY <2>1, <2>3 DEF Answer
    <3>2. toBrowser' = Append(Append(toBrowser, Msg("figure_label")), Msg("draw"))
      BY <1>2, <3>1, SentTogether, SignalTypes
    <3>3. kernel' = [kernel EXCEPT !.force_full = TRUE]
      BY <2>1, <2>3 DEF Answer
    <3>4. Refreshes(m)
      BY <2>3, <3>2, <3>3 DEF Refreshes
    <3> QED
      BY <1>1, <3>4 DEF m
  <2>4. CASE m.type = "resize"
    <3>1. ResizesTo(m)
      BY <2>1, <2>4 DEF Answer, ResizesTo
    <3> QED
      BY <1>1, <3>1 DEF m
  <2>5. CASE m.type = "send_image_mode"
    <3>1. TellsMode(m)
      BY <2>1, <2>5 DEF Answer, TellsMode
    <3> QED
      BY <1>1, <3>1 DEF m
  <2>6. CASE m.type = "closing"
    <3>1. kernel' = [kernel EXCEPT !.open = FALSE] /\ toBrowser' = toBrowser
      BY <2>1, <2>6 DEF Answer
    <3> QED
      BY <1>1, <3>1 DEF m
  <2>7. CASE m.type \notin {"draw", "refresh", "resize", "send_image_mode", "closing"}
    <3>1. Ignores(m)
      BY <2>1, <2>7 DEF Answer, Ignores
    <3> QED
      BY <1>1, <3>1 DEF m
  <2> QED
    BY <2>2, <2>3, <2>4, <2>5, <2>6, <2>7
<1> QED
  BY <1>3, <1>4

(* What the browser does with a message, and the user without one.         *)
Handles(m) ==
    /\ toBrowser # <<>> /\ m = Head(toBrowser) /\ toBrowser' = Tail(toBrowser)
    /\ late' = (late \/ loading # NoImage)
    /\ UNCHANGED <<kernel, cell, mpl_ratio>>

LoadsImage(m) ==
    /\ m.type = "image"
    /\ loading' = m /\ last' = m /\ timers' = timers + 1
    /\ toKernel' = Append(toKernel, Msg("ack"))
    /\ waiting' = FALSE
    /\ UNCHANGED <<image_mode, canvas, output, overtaken>>

AsksForDraw(m) ==
    /\ m.type = "draw"
    /\ waiting' = TRUE
    /\ toKernel' = IF waiting THEN toKernel ELSE Append(toKernel, Msg("draw"))
    /\ UNCHANGED <<image_mode, loading, canvas, output, timers, last, overtaken>>

TakesSize(m) ==
    /\ m.type = "resize"
    /\ \/ /\ canvas' = [size |-> m.size, shows |-> Blank]
          /\ toKernel' = Append(toKernel, Msg("refresh"))
       \/ m.size = mpl_ratio * canvas.size /\ UNCHANGED <<canvas, toKernel>>
    /\ UNCHANGED <<waiting, image_mode, loading, output, timers, last, overtaken>>

TakesMode(m) ==
    /\ m.type = "image_mode" /\ image_mode' = m.mode
    /\ UNCHANGED <<toKernel, waiting, loading, canvas, output, timers, last, overtaken>>

\* What is sent asks for no image and does not ask how images are sent.
Tells == \/ toKernel' = toKernel
         \/ \E m \in Messages \ (Draws \cup Refresh \cup AskMode) : toKernel' = Append(toKernel, m)

Idle == /\ Tells
        /\ push_to_output \/ UNCHANGED <<output, overtaken>>
        /\ UNCHANGED <<waiting, image_mode, loading, canvas, timers, last>>

Displays(m) == m.type \notin {"image", "draw", "resize", "image_mode"} /\ Idle

LEMMA ToldTypes ==
    \A t \in {"ack", "closing", "key_release", "mouse", "toolbar_button"} :
        Msg(t) \in Messages \ (Draws \cup Refresh \cup AskMode)
BY SignalTypes, MessageTypes DEF Draws, Refresh, AskMode

LEMMA CloseIsIdle ==
    ASSUME FigureTyped, handle_close
    PROVE  Idle
<1>1. toKernel \in Seq(Messages)
  BY DEF FigureTyped
<1>2. toKernel' = toKernel \/ toKernel' = toKernel \o <<Msg("closing")>>
  BY DEF handle_close, Send
<1>3. Tells
  BY <1>1, <1>2, SentTogether, ToldTypes, SignalTypes DEF Tells
<1> QED
  BY <1>3 DEF Idle, handle_close, shown

LEMMA BrowserCases ==
    ASSUME FigureTyped, OnMessage
    PROVE  LET m == Head(toBrowser)
           IN  /\ Handles(m) /\ m \in Messages
               /\ \/ LoadsImage(m) \/ AsksForDraw(m) \/ TakesSize(m) \/ TakesMode(m)
                  \/ Displays(m)
<1> DEFINE m == Head(toBrowser)
<1>1. Handles(m) /\ m \in Messages
  BY Tailed DEF OnMessage, Handles, FigureTyped
<1>2. toKernel \in Seq(Messages)
  BY DEF FigureTyped
<1>3. CASE m.type = "image"
  <2>1. OnImage(m)
    BY <1>3 DEF OnMessage
  <2> HIDE DEF m
  <2>2. toKernel' = Append(toKernel, Msg("ack"))
    BY <1>2, <2>1, SentTogether, SignalTypes DEF OnImage, updated_canvas_event, Send
  <2>3. LoadsImage(m)
    BY <1>3, <2>1, <2>2 DEF OnImage, updated_canvas_event, LoadsImage
  <2> QED
    BY <1>1, <2>3 DEF m
<1>4. CASE m.type = "draw"
  <2>1. send_draw_message
    BY <1>4 DEF OnMessage
  <2> HIDE DEF m
  <2>2. toKernel' = IF waiting THEN toKernel ELSE Append(toKernel, Msg("draw"))
    BY <1>2, <2>1, SentTogether, SignalTypes DEF send_draw_message, Send
  <2>3. AsksForDraw(m)
    BY <1>4, <2>1, <2>2 DEF send_draw_message, AsksForDraw, shown
  <2> QED
    BY <1>1, <2>3 DEF m
<1>5. CASE m.type = "resize"
  <2>1. handle_resize(m)
    BY <1>5 DEF OnMessage
  <2> HIDE DEF m
  <2>2. Append(toKernel, Msg("refresh")) = toKernel \o <<Msg("refresh")>>
    BY <1>2, SentTogether, SignalTypes
  <2>3. TakesSize(m)
    BY <1>5, <2>1, <2>2 DEF handle_resize, TakesSize, Send
  <2> QED
    BY <1>1, <2>3 DEF m
<1>6. CASE m.type = "image_mode"
  <2>1. handle_image_mode(m)
    BY <1>6 DEF OnMessage
  <2> HIDE DEF m
  <2>2. TakesMode(m)
    BY <1>6, <2>1 DEF handle_image_mode, TakesMode, shown
  <2> QED
    BY <1>1, <2>2 DEF m
<1>7. CASE m.type \notin {"image", "draw", "resize", "image_mode"}
  <2>1. handle_close \/ handle_display
    BY <1>7 DEF OnMessage
  <2> HIDE DEF m
  <2>2. Idle
    BY <2>1, CloseIsIdle DEF handle_display, Idle, Tells, shown
  <2>3. Displays(m)
    BY <1>7, <2>2 DEF Displays
  <2> QED
    BY <1>1, <2>3 DEF m
<1> QED
  BY <1>3, <1>4, <1>5, <1>6, <1>7

(* What the user does is idle for the pictures.                            *)
Aside == Idle /\ UNCHANGED <<kernel, toBrowser, cell, mpl_ratio, late>>

LEMMA UserIsAside == ASSUME FigureTyped, User PROVE Aside
<1>1. toKernel \in Seq(Messages)
  BY DEF FigureTyped
<1>2. /\ toKernel \o <<>> = toKernel
      /\ \A m \in Messages : toKernel \o <<m>> = Append(toKernel, m)
  BY <1>1, SentTogether
<1> DEFINE Told == Messages \ (Draws \cup Refresh \cup AskMode)
<1>3. /\ \A k \in Keys : [type |-> "key_press", key |-> k] \in Told
      /\ \A s \in Sizes : [type |-> "resize", size |-> s] \in Told
  BY SignalTypes, MessageTypes DEF Draws, Refresh, AskMode
<1>4. \A t \in {"closing", "key_release", "mouse", "toolbar_button"} : Msg(t) \in Told
  BY ToldTypes
<1>5. ASSUME NEW msgs, UserDoes(msgs), msgs = <<>> \/ \E m \in Told : msgs = <<m>>
      PROVE  Aside
  <2>1. Tells
    BY <1>2, <1>5 DEF UserDoes, Send, Tells
  <2> QED
    BY <2>1, <1>5 DEF UserDoes, Aside, Idle, shown, saved, history
<1> HIDE DEF Told
<1>6. ASSUME key_event PROVE Aside
  <2>1. CASE \E k \in Keys :
                 UserDoes(IF key = k THEN <<>> ELSE <<[type |-> "key_press", key |-> k]>>)
    BY <1>3, <1>5, <2>1
  <2>2. CASE UserDoes(<<Msg("key_release")>>)
    BY <1>4, <1>5, <2>2
  <2> QED
    BY <1>6, <2>1, <2>2 DEF key_event
<1>7. ASSUME mouse_event PROVE Aside
  BY <1>4, <1>5, <1>7 DEF mouse_event
<1>8. ASSUME toolbar_button_onclick PROVE Aside
  BY <1>4, <1>5, <1>8 DEF toolbar_button_onclick
<1>9. ASSUME Drag PROVE Aside
  BY <1>3, <1>5, <1>9 DEF Drag
<1>10. ASSUME StopInteraction PROVE Aside
  BY <1>10, CloseIsIdle DEF StopInteraction, Aside
<1>11. ASSUME RemoveFigure PROVE Aside
  BY <1>4, <1>5, <1>11 DEF RemoveFigure
<1> QED
  BY <1>6, <1>7, <1>8, <1>9, <1>10, <1>11 DEF User, _init_canvas, _init_toolbar

-----------------------------------------------------------------------------
(* Types.                                                                  *)
LEMMA FigureChanges ==
    ASSUME NEW k \in Figures
    PROVE  /\ [k EXCEPT !.version = @ + 1] \in Figures
           /\ [k EXCEPT !.open = FALSE] \in Figures
           /\ [k EXCEPT !.force_full = TRUE] \in Figures
           /\ \A full \in BOOLEAN :
                  [k EXCEPT !.force_full = FALSE, !.mode = Mode(full), !.base = k.version]
                      \in Figures
           /\ \A s \in Sizes :
                  [k EXCEPT !.size = s, !.base = IF s = k.size THEN @ ELSE Blank] \in Figures
<1>1. [k EXCEPT !.version = @ + 1] \in Figures
  <2>1. k.version + 1 \in Nat \ {0}
    BY DEF Figures
  <2> QED
    BY <2>1 DEF Figures
<1>2. [k EXCEPT !.open = FALSE] \in Figures
  BY DEF Figures
<1>3. [k EXCEPT !.force_full = TRUE] \in Figures
  BY DEF Figures
<1>4. ASSUME NEW full \in BOOLEAN
      PROVE  [k EXCEPT !.force_full = FALSE, !.mode = Mode(full), !.base = k.version] \in Figures
  <2>1. Mode(full) \in {"full", "diff"}
    BY DEF Mode
  <2> QED
    BY <2>1 DEF Figures
<1>5. ASSUME NEW s \in Sizes
      PROVE  [k EXCEPT !.size = s, !.base = IF s = k.size THEN @ ELSE Blank] \in Figures
  BY DEF Figures, Blank
<1> QED
  BY <1>1, <1>2, <1>3, <1>4, <1>5

LEMMA TellsType == ASSUME FigureTyped, Tells PROVE toKernel' \in Seq(Messages)
BY DEF FigureTyped, Tells

LEMMA FigureNextType == ASSUME FigureTyped, [FigureNext]_figure_vars PROVE FigureTyped'
<1>1. /\ kernel \in Figures
      /\ toBrowser \in Seq(Messages) /\ toKernel \in Seq(Messages)
  BY DEF FigureTyped
<1>2. ASSUME Change PROVE FigureTyped'
  <2>1. Append(toBrowser, Msg("draw")) \in Seq(Messages)
    BY <1>1, SignalTypes
  <2>2. kernel' \in Figures
    BY <1>1, <1>2, FigureChanges DEF Change
  <2> QED
    BY <1>2, <2>1, <2>2 DEF Change, FigureTyped, shown, saved, user, history
<1>3. ASSUME Close PROVE FigureTyped'
  <2>1. Append(toBrowser, Msg("close")) \in Seq(Messages)
    BY <1>1, SignalTypes
  <2>2. kernel' \in Figures
    BY <1>1, <1>3, FigureChanges DEF Close
  <2> QED
    BY <1>3, <2>1, <2>2 DEF Close, FigureTyped, shown, saved, user, history
<1>4. ASSUME Kernel PROVE FigureTyped'
  <2> DEFINE m == Head(toKernel)
  <2>1. Takes(m) /\ m \in Messages
    BY <1>4, KernelCases
  <2>2. toKernel' \in Seq(Messages)
    BY <1>1, <2>1, Tailed DEF Takes
  <2> HIDE DEF m
  <2>3. kernel' \in Figures
        /\ toBrowser' \in Seq(Messages)
    <3>1. ASSUME NEW full \in BOOLEAN, DrawsIn(m, full)
          PROVE  <2>3!1 /\ <2>3!2
      <4>1. /\ Image(full) \in Messages
            /\ Mode(full) \in {"full", "diff"}
            /\ [type |-> "image_mode", mode |-> Mode(full)] \in Messages
        BY ImageTypes, SignalTypes DEF Images, Of
      <4> QED
        <5>1. kernel' \in Figures
          BY <1>1, <3>1, <4>1, FigureChanges DEF DrawsIn
        <5>2. toBrowser' \in Seq(Messages)
          BY <1>1, <3>1, <4>1, Appended DEF DrawsIn
        <5> QED
          BY <5>1, <5>2
    <3>2. ASSUME Refreshes(m) PROVE <2>3!1 /\ <2>3!2
      <4>1. Msg("figure_label") \in Messages /\ Msg("draw") \in Messages
        BY SignalTypes
      <4> QED
        <5>1. kernel' \in Figures
          BY <1>1, <3>2, <4>1, FigureChanges DEF Refreshes
        <5>2. toBrowser' \in Seq(Messages)
          BY <1>1, <3>2, <4>1, Appended DEF Refreshes
        <5> QED
          BY <5>1, <5>2
    <3>3. ASSUME ResizesTo(m) PROVE <2>3!1 /\ <2>3!2
      <4>1. m.size \in Sizes /\ [type |-> "resize", size |-> m.size] \in Messages
        BY <2>1, <3>3, MessageTypes, SignalTypes DEF ResizesTo
      <4> QED
        <5>1. kernel' \in Figures
          BY <1>1, <3>3, <4>1, FigureChanges DEF ResizesTo
        <5>2. toBrowser' \in Seq(Messages)
          BY <1>1, <3>3, <4>1, Appended DEF ResizesTo
        <5> QED
          BY <5>1, <5>2
    <3>4. ASSUME TellsMode(m) PROVE <2>3!1 /\ <2>3!2
      <4>1. [type |-> "image_mode", mode |-> kernel.mode] \in Messages
        BY <1>1, SignalTypes DEF Figures
      <4> QED
        BY <1>1, <3>4, <4>1 DEF TellsMode
    <3>5. ASSUME Ignores(m) PROVE <2>3!1 /\ <2>3!2
      BY <1>1, <3>5 DEF Ignores
    <3> QED
      BY <1>1, <1>4, <3>1, <3>2, <3>3, <3>4, <3>5, KernelCases, FigureChanges DEF m
  <2> QED
    BY <2>1, <2>2, <2>3 DEF Takes, Unseen, FigureTyped
<1>5. ASSUME OnMessage PROVE FigureTyped'
  <2> DEFINE m == Head(toBrowser)
  <2>1. Handles(m) /\ m \in Messages
    BY <1>5, BrowserCases
  <2>2. toBrowser' \in Seq(Messages)
    BY <1>1, <2>1, Tailed DEF Handles
  <2>3. \A t \in {"ack", "draw", "refresh"} : Append(toKernel, Msg(t)) \in Seq(Messages)
    BY <1>1, SignalTypes
  <2>4. late' \in BOOLEAN
    BY <2>1 DEF Handles
  <2> HIDE DEF m
  <2>5. ASSUME LoadsImage(m) PROVE FigureTyped'
    <3>1. m \in Pictures
      BY <2>1, <2>5, MessageTypes DEF LoadsImage, Pictures, Images
    <3>2. toKernel' \in Seq(Messages) /\ timers' \in Nat
      BY <2>3, <2>5 DEF LoadsImage, FigureTyped
    <3> QED
      BY <2>1, <2>2, <2>4, <2>5, <3>1, <3>2 DEF LoadsImage, Handles, FigureTyped
  <2>6. ASSUME AsksForDraw(m) PROVE FigureTyped'
    BY <2>1, <2>2, <2>3, <2>4, <2>6 DEF AsksForDraw, Handles, FigureTyped
  <2>7. ASSUME TakesSize(m) PROVE FigureTyped'
    <3>1. m.size \in Sizes
      BY <2>1, <2>7, MessageTypes DEF TakesSize
    <3>2. canvas' \in [size : Sizes, shows : Int]
      BY <2>7, <3>1 DEF TakesSize, FigureTyped, Blank
    <3>3. toKernel' \in Seq(Messages)
      BY <1>1, <2>3, <2>7 DEF TakesSize
    <3> QED
      BY <2>1, <2>2, <2>4, <2>7, <3>2, <3>3 DEF TakesSize, Handles, FigureTyped
  <2>8. ASSUME TakesMode(m) PROVE FigureTyped'
    <3>1. m.mode \in {"full", "diff"}
      BY <2>1, <2>8, MessageTypes DEF TakesMode
    <3> QED
      BY <2>1, <2>2, <2>4, <2>8, <3>1 DEF TakesMode, Handles, FigureTyped
  <2>9. ASSUME Displays(m) PROVE FigureTyped'
    BY <2>1, <2>2, <2>4, <2>9, TellsType DEF Displays, Idle, Handles, push_to_output, FigureTyped
  <2> QED
    BY <1>5, <2>5, <2>6, <2>7, <2>8, <2>9, BrowserCases DEF m
<1>6. ASSUME Onload PROVE FigureTyped'
  <2>1. NoImage \in Pictures
    BY FigureAssumption DEF NoImage, Pictures, Blank
  <2>2. loading.version \in Nat
    BY PictureTypes DEF FigureTyped
  <2>3. canvas' \in [size : Sizes, shows : Int]
    BY <1>6, <2>2 DEF Onload, Mixed, FigureTyped
  <2> QED
    BY <1>6, <2>1, <2>3 DEF Onload, FigureTyped, saved, user, history
<1>7. ASSUME Timer PROVE FigureTyped'
  <2>1. timers' \in Nat
    BY <1>7 DEF Timer, FigureTyped
  <2>2. overtaken' \in BOOLEAN
    BY <1>7 DEF Timer, push_to_output, FigureTyped
  <2> QED
    BY <1>7, <2>1, <2>2 DEF Timer, FigureTyped, shown, user
<1>8. ASSUME Aside PROVE FigureTyped'
  BY <1>8, TellsType DEF Aside, Idle, push_to_output, FigureTyped
<1>9. ASSUME UNCHANGED figure_vars PROVE FigureTyped'
  BY <1>9 DEF figure_vars, shown, saved, user, history, FigureTyped
<1> QED
  BY <1>2, <1>3, <1>4, <1>5, <1>6, <1>7, <1>8, <1>9, UserIsAside DEF FigureNext

-----------------------------------------------------------------------------
(* Queue r is queue q with m behind it, or without its head m, as far as   *)
(* the invariant is concerned.                                             *)
Gets(q, r, m) ==
    /\ \A A : Some(r, A) <=> Some(q, A) \/ m \in A
    /\ \A A, B : Every(r, A, B) <=> Every(q, A, B) /\ (m \in A => m \in B)
    /\ \A A, B : Behind(r, A, B) <=> m \in A \/ (Behind(q, A, B) /\ m \notin B)
    /\ \A A, B : Precedes(r, A, B) <=> Precedes(q, A, B) \/ (Some(q, A) /\ m \in B)
    /\ \A A : One(q, A) /\ (m \in A => ~Some(q, A)) => One(r, A)
    /\ \A A, B : m \notin A /\ (m \in B \/ Followed(q, A, B)) => Followed(r, A, B)
    /\ \A A, B : InFront(q, A, B) /\ (m \in A => ~Some(q, B) /\ m \notin B) => InFront(r, A, B)

Loses(q, r, m) ==
    /\ \A A : Some(q, A) <=> m \in A \/ Some(r, A)
    /\ \A A, B : Every(q, A, B) <=> (m \in A => m \in B) /\ Every(r, A, B)
    /\ \A A, B : Behind(q, A, B) <=> Behind(r, A, B) \/ (m \in A /\ ~Some(r, B))
    /\ \A A, B : Precedes(q, A, B) <=> Precedes(r, A, B) \/ (m \in A /\ Some(r, B))
    /\ \A A : One(q, A) => One(r, A) /\ (m \in A => ~Some(r, A))
    /\ \A A, B : Followed(q, A, B) => Followed(r, A, B) /\ (m \in A => Some(r, B))
    /\ \A A, B : InFront(q, A, B) =>
                     InFront(r, A, B) /\ (m \in B => ~Some(r, A) /\ m \notin A)

LEMMA AppendGets ==
    ASSUME NEW q \in Seq(Messages), NEW m \in Messages
    PROVE  Gets(q, Append(q, m), m)
BY WithAppended, WithAppendedOnce DEF Gets

LEMMA TailLoses ==
    ASSUME NEW q \in Seq(Messages), q # <<>>
    PROVE  Loses(q, Tail(q), Head(q))
BY WithTail, WithTailOnce DEF Loses

(* The kinds of messages the invariant tells apart.                        *)
LEMMA MessageKinds ==
    ASSUME NEW m \in Messages
    PROVE  /\ m \in Draws <=> m.type = "draw"
           /\ m \in Refresh <=> m.type = "refresh"
           /\ m \in Resize <=> m.type = "resize"
           /\ m \in AskMode <=> m.type = "send_image_mode"
           /\ m \in TellMode <=> m.type = "image_mode"
           /\ m \in Images <=> m.type = "image"
BY MessageTypes DEF Draws, Refresh, Resize, AskMode, TellMode, Images

LEMMA Subkinds ==
    /\ \A A \in {Fitting, Full, FromBlank} : A \subseteq Images
    /\ Clearing \subseteq Resize
    /\ \A v, w : Between(v, w) \subseteq Images /\ Of_version(v) \subseteq Images
    /\ \A s : Of_size(s) \subseteq Resize
    /\ \A o : Of_mode(o) \subseteq TellMode /\ In_mode(o) \subseteq Images
BY DEF Fitting, Full, FromBlank, Clearing, Between, Of_version, Of_size, Of_mode, In_mode

(* A change: it is announced.                                              *)
LEMMA ChangeKeeps ==
    ASSUME FigureTyped, FigureTyped', FigureInv, Change
    PROVE  FigureInv'
<1> DEFINE m == Msg("draw")
<1>1. /\ kernel.open /\ kernel'.open
      /\ kernel' = [kernel EXCEPT !.version = @ + 1]
      /\ toBrowser' = Append(toBrowser, m)
      /\ UNCHANGED <<toKernel, waiting, image_mode, loading, canvas, cell, output, timers,
                     mpl_ratio, last, late, overtaken>>
  BY DEF Change, shown, saved, history, FigureTyped, Figures
<1>2. /\ kernel'.size = kernel.size /\ kernel'.mode = kernel.mode /\ kernel'.base = kernel.base
      /\ kernel'.force_full = kernel.force_full /\ kernel'.version = kernel.version + 1
  BY <1>1 DEF FigureTyped, Figures
<1>3. m \in Messages /\ m \in Draws /\ m \notin Images \cup Resize \cup TellMode
  BY SignalTypes, MessageKinds
<1> HIDE DEF m
<1>4. Gets(toBrowser, toBrowser', m)
  BY <1>1, <1>3, AppendGets DEF FigureTyped
<1>5. kernel.version \in Nat /\ last.version \in Nat
  BY PictureTypes DEF FigureTyped, Figures
<1>6. /\ OneDraw /\ ImagesInOrder /\ ImageComes /\ SizeComes
      /\ ModeTold /\ LoadingLast /\ CanvasHeals /\ OutputComes
  BY <1>1 DEF FigureInv
<1>7. OneDraw'
  BY <1>1, <1>3, <1>4, <1>6 DEF OneDraw, Gets
<1>8. ImagesInOrder'
  <2>1. Between(last.version, kernel.version) \subseteq Between(last.version, kernel'.version)
    BY <1>2, <1>5, MessageTypes DEF Between, Images, Of
  <2>2. Every(toBrowser, Images, Between(last.version, kernel'.version))
    BY <1>6, <2>1, OtherSet DEF ImagesInOrder
  <2> QED
    BY <1>1, <1>2, <1>3, <1>4, <1>5, <1>6, <2>2 DEF ImagesInOrder, Gets
<1>9. ImageComes'
  BY <1>3, <1>4 DEF ImageComes, Gets
<1>10. SizeComes'
  BY <1>1, <1>2, <1>3, <1>4, <1>6, Subkinds DEF SizeComes, Gets
<1>11. ModeTold'
  BY <1>1, <1>2, <1>3, <1>4, <1>6 DEF ModeTold, Gets
<1>12. LoadingLast'
  BY <1>1, <1>6 DEF LoadingLast
<1>13. Heals => Heals'
  <2>1. Clearing' = Clearing
    BY <1>1 DEF Clearing
  <2> QED
    BY <1>1, <1>2, <1>3, <1>4, <2>1 DEF Heals, Gets
<1>14. CanvasHeals'
  <2>1. Fitting' = Fitting
    BY <1>1, <1>2 DEF Fitting
  <2> QED
    BY <1>1, <1>2, <1>3, <1>4, <1>6, <1>13, <2>1 DEF CanvasHeals, CanvasDrawn, Gets
<1>15. OutputComes'
  BY <1>1, <1>4, <1>6 DEF OutputComes, Gets
<1> QED
  BY <1>7, <1>8, <1>9, <1>10, <1>11, <1>12, <1>14, <1>15 DEF FigureInv

(* What the conjuncts that are about the browser alone rest on.            *)
LEMMA FigureInvParts ==
    ASSUME FigureTyped, FigureInv, kernel.open
    PROVE  /\ OneDraw /\ ImagesInOrder /\ ImageComes /\ SizeComes
           /\ ModeTold /\ LoadingLast /\ CanvasHeals /\ OutputComes
           /\ toBrowser \in Seq(Messages) /\ toKernel \in Seq(Messages)
           /\ kernel.version \in Nat \ {0} /\ last.version \in Nat
           /\ kernel.mode \in {"full", "diff"} /\ kernel.force_full \in BOOLEAN
           /\ kernel.size \in Sizes
BY PictureTypes DEF FigureInv, FigureTyped, Figures

(* A draw is answered.  No image is under way then, so that the new one is *)
(* a change of the last; and after a refresh it is a full one.             *)
LEMMA DrawsKeeps ==
    ASSUME FigureTyped, FigureInv, kernel.open, NEW m \in Messages, Takes(m),
           NEW full \in BOOLEAN, DrawsIn(m, full)
    PROVE  FigureInv'
<1> DEFINE i == Image(full)
           t == [type |-> "image_mode", mode |-> Mode(full)]
           told == Mode(full) # kernel.mode
           q == IF told THEN Append(toBrowser, t) ELSE toBrowser
<1>1. /\ i \in Images /\ i \in Messages /\ t \in Messages /\ q \in Seq(Messages)
      /\ t \in TellMode /\ t.mode = Mode(full)
  <2>1. i \in Images /\ i \in Messages /\ t \in Messages
    BY ImageTypes, SignalTypes DEF Images, Of
  <2>2. t \in TellMode
    <3>1. t.type = "image_mode"
      OBVIOUS
    <3> HIDE DEF t
    <3> QED
      BY <2>1, <3>1, MessageKinds
  <2>3. q \in Seq(Messages)
    <3> HIDE DEF t
    <3> QED
      BY <2>1 DEF FigureTyped
  <2> QED
    BY <2>1, <2>2, <2>3
<1>2. /\ i.version = kernel.version /\ i.full = full /\ i.size = kernel.size
      /\ i.base = IF full THEN Blank ELSE kernel.base
  BY ImageTypes
<1>3. /\ kernel'.version = kernel.version /\ kernel'.size = kernel.size
      /\ kernel'.mode = Mode(full) /\ kernel'.force_full = FALSE
      /\ kernel'.base = kernel.version
      /\ kernel.force_full => full
      /\ Mode(full) \in {"full", "diff"} /\ (full <=> Mode(full) = "full")
  <2>1. kernel' = [kernel EXCEPT !.force_full = FALSE, !.mode = Mode(full),
                                 !.base = kernel.version]
    BY DEF DrawsIn
  <2>2. Mode(full) \in {"full", "diff"} /\ (full <=> Mode(full) = "full")
    BY DEF Mode
  <2> QED
    BY <2>1, <2>2 DEF FigureTyped, Figures, DrawsIn
<1>4. Gets(q, toBrowser', i)
  <2>1. toBrowser' = Append(q, i)
    BY DEF DrawsIn
  <2> HIDE DEF q, i
  <2> QED
    BY <1>1, <2>1, AppendGets
<1>5. IF told THEN Gets(toBrowser, q, t) ELSE q = toBrowser
  BY <1>1, AppendGets DEF FigureTyped
<1>6. Loses(toKernel, toKernel', m)
  BY TailLoses DEF Takes, FigureTyped
<1>7. m \in Draws /\ m \notin Refresh /\ m \notin AskMode
  BY MessageKinds DEF DrawsIn
<1>8. i \notin Draws \cup Resize \cup TellMode /\ t \notin Draws \cup Resize \cup Images
  <2> HIDE DEF i, t
  <2> QED
    BY <1>1, MessageKinds
<1>9. /\ UNCHANGED <<waiting, image_mode, loading, canvas, cell, output, timers, mpl_ratio,
                     last, late, overtaken>>
  BY DEF Takes, Unseen
<1>10. /\ OneDraw /\ ImagesInOrder /\ ImageComes /\ SizeComes
       /\ ModeTold /\ LoadingLast /\ CanvasHeals /\ OutputComes
       /\ kernel.version \in Nat \ {0} /\ last.version \in Nat
  BY FigureInvParts
<1> HIDE DEF i, t, told, q
<1>11. /\ ~Some(toBrowser, Images) /\ ~Some(q, Images)
       /\ ~Some(toKernel', Draws) /\ waiting /\ ~Some(toKernel, AskMode)
  BY <1>5, <1>6, <1>7, <1>8, <1>10 DEF OneDraw, ModeTold, Loses, Gets
<1>12. OneDraw'
  <2>1. One(q, Images)
    BY <1>5, <1>8, <1>10 DEF OneDraw, Gets
  <2>2. One(toBrowser', Images) /\ Some(toBrowser', Images)
    BY <1>1, <1>4, <1>11, <2>1 DEF Gets
  <2> QED
    BY <1>6, <1>9, <1>10, <1>11, <2>2 DEF OneDraw, Loses
<1>13. ImagesInOrder'
  <2>1. i \in Between(last.version, kernel'.version) /\ i \in FromBlank
    BY <1>1, <1>2, <1>3, <1>10 DEF Between, FromBlank, ImagesInOrder
  <2>2. \A B : Every(q, Images, B)
    BY <1>11, WithNone
  <2> QED
    BY <1>3, <1>4, <1>9, <1>10, <2>1, <2>2 DEF ImagesInOrder, Gets
<1>14. ImageComes'
  <2>1. i \in Of_version(kernel'.version)
    BY <1>1, <1>2, <1>3 DEF Of_version
  <2> QED
    BY <1>4, <2>1 DEF ImageComes, Gets
<1>15. SizeComes'
  BY <1>3, <1>4, <1>5, <1>8, <1>9, <1>10, Subkinds DEF SizeComes, Gets
<1>16. ModeTold'
  <2>1. i \in In_mode(kernel'.mode) /\ (told => t \in Of_mode(kernel'.mode))
    BY <1>1, <1>2, <1>3 DEF In_mode, Of_mode
  <2>2. told => ~Some(toBrowser, TellMode)
    <3>1. told => Followed(toBrowser, TellMode, Images)
      BY <1>3, <1>10 DEF ModeTold, told
    <3> QED
      BY <1>11, <3>1, WithNone
  <2>3. InFront(toKernel', AskMode, Draws) /\ ~Some(toKernel', AskMode)
    BY <1>6, <1>10, <1>11 DEF ModeTold, Loses
  <2>4. Every(toBrowser', TellMode, Of_mode(kernel'.mode))
    <3>1. CASE told
      <4>1. Every(toBrowser, TellMode, Of_mode(kernel'.mode))
        BY <2>2, <3>1, WithNone
      <4> QED
        BY <1>4, <1>5, <1>8, <2>1, <3>1, <4>1 DEF Gets
    <3>2. CASE ~told
      BY <1>3, <1>4, <1>5, <1>8, <1>10, <3>2 DEF Gets, ModeTold, told
    <3> QED
      BY <3>1, <3>2
  <2>5. Followed(toBrowser', TellMode, Images)
    BY <1>1, <1>4, <1>8 DEF Gets
  <2>6. image_mode' = kernel'.mode \/ Precedes(toBrowser', TellMode, Images)
    <3>1. CASE told
      <4>1. Some(q, TellMode)
        BY <1>1, <1>5, <3>1 DEF Gets
      <4> QED
        BY <1>1, <1>4, <4>1 DEF Gets
    <3>2. CASE ~told
      BY <1>3, <1>4, <1>5, <1>9, <1>10, <3>2 DEF Gets, ModeTold, told
    <3> QED
      BY <3>1, <3>2
  <2>7. Every(toBrowser', Images, In_mode(kernel'.mode)) /\ Some(toBrowser', Images)
    BY <1>1, <1>4, <1>11, <2>1, WithNone DEF Gets
  <2> QED
    BY <2>3, <2>4, <2>5, <2>6, <2>7 DEF ModeTold
<1>17. LoadingLast'
  BY <1>9, <1>10 DEF LoadingLast
<1>18. ASSUME ~Heals', canvas'.size = kernel'.size
       PROVE  Every(toBrowser', Images, Fitting') /\ (Some(toBrowser', Full) \/ CanvasDrawn')
  <2>1. ~Some(toBrowser, Clearing) /\ ~Some(toKernel, Refresh)
    <3>1. Clearing' = Clearing
      BY <1>9 DEF Clearing
    <3> QED
      BY <1>4, <1>5, <1>6, <1>7, <1>18, <3>1 DEF Heals, Gets, Loses
  <2>2. canvas.size = kernel.size
    BY <1>3, <1>9, <1>18
  <2>3. CASE full
    <3>1. i \in Fitting' /\ i \in Full
      BY <1>1, <1>2, <1>3, <1>9, <2>2, <2>3 DEF Fitting, Full
    <3> QED
      BY <1>4, <1>11, <3>1, WithNone DEF Gets
  <2>4. CASE ~full
    <3>1. ~Heals
      BY <1>3, <2>1, <2>4 DEF Heals
    <3>2. CanvasDrawn /\ kernel.base = last.version
      <4>1. ~Some(toBrowser, Full)
        BY <1>11, Subset, Subkinds
      <4> QED
        BY <1>10, <1>11, <2>2, <3>1, <4>1 DEF CanvasHeals, CanvasDrawn
    <3>3. i \in Fitting'
      BY <1>1, <1>2, <1>3, <1>9, <2>2, <2>4, <3>2 DEF Fitting
    <3>4. Some(toBrowser', Images) /\ Every(toBrowser', Images, Fitting')
      BY <1>1, <1>4, <1>11, <3>3, WithNone DEF Gets
    <3>5. CanvasDrawn'
      BY <1>9, <3>2, <3>4 DEF CanvasDrawn
    <3> QED
      BY <3>4, <3>5
  <2> QED
    BY <2>3, <2>4
<1>19. OutputComes'
  BY <1>1, <1>4 DEF OutputComes, Gets
<1> QED
  BY <1>12, <1>13, <1>14, <1>15, <1>16, <1>17, <1>18, <1>19 DEF FigureInv, CanvasHeals

(* A refresh: the next image will be a full one, and a draw is announced   *)
(* behind every image there is.                                            *)
LEMMA RefreshesKeeps ==
    ASSUME FigureTyped, FigureInv, kernel.open, NEW m \in Messages, Takes(m), Refreshes(m)
    PROVE  FigureInv'
<1> DEFINE l == Msg("figure_label")
           d == Msg("draw")
           q == Append(toBrowser, l)
<1>1. /\ l \in Messages /\ l \notin Draws \cup Images \cup Resize \cup TellMode
      /\ d \in Messages /\ d \in Draws /\ d \notin Images \cup Resize \cup TellMode
  BY SignalTypes, MessageKinds
<1> HIDE DEF l, d
<1>2. q \in Seq(Messages) /\ Gets(toBrowser, q, l)
  BY <1>1, Appended, AppendGets DEF FigureTyped
<1>3. Gets(q, toBrowser', d)
  <2>1. toBrowser' = Append(q, d)
    BY DEF Refreshes, l, d
  <2> HIDE DEF q
  <2> QED
    BY <1>1, <1>2, <2>1, AppendGets
<1> HIDE DEF q
<1>4. Loses(toKernel, toKernel', m)
  BY TailLoses DEF Takes, FigureTyped
<1>5. m \notin Draws /\ m \notin AskMode
  BY MessageKinds DEF Refreshes
<1>6. /\ kernel'.version = kernel.version /\ kernel'.size = kernel.size
      /\ kernel'.mode = kernel.mode /\ kernel'.base = kernel.base
      /\ kernel'.force_full = TRUE
  BY DEF FigureTyped, Figures, Refreshes
<1>7. UNCHANGED <<waiting, image_mode, loading, canvas, cell, output, timers, mpl_ratio,
                  last, late, overtaken>>
  BY DEF Takes, Unseen
<1>8. /\ OneDraw /\ ImagesInOrder /\ ImageComes /\ SizeComes
      /\ ModeTold /\ LoadingLast /\ CanvasHeals /\ OutputComes
  BY FigureInvParts
<1>9. Behind(toBrowser', Draws, Images) /\ Some(toBrowser', Draws)
  BY <1>1, <1>2, <1>3 DEF Gets
<1>10. OneDraw'
  BY <1>1, <1>2, <1>3, <1>4, <1>5, <1>7, <1>8 DEF OneDraw, Gets, Loses
<1>11. ImagesInOrder'
  BY <1>1, <1>2, <1>3, <1>6, <1>7, <1>8 DEF ImagesInOrder, Gets
<1>12. ImageComes'
  BY <1>9 DEF ImageComes
<1>13. SizeComes'
  BY <1>1, <1>2, <1>3, <1>6, <1>7, <1>8 DEF SizeComes, Gets
<1>14. ModeTold'
  BY <1>1, <1>2, <1>3, <1>4, <1>5, <1>6, <1>7, <1>8 DEF ModeTold, Gets, Loses
<1>15. LoadingLast'
  BY <1>7, <1>8 DEF LoadingLast
<1>16. CanvasHeals'
  BY <1>6, <1>9 DEF CanvasHeals, Heals
<1>17. OutputComes'
  BY <1>9 DEF OutputComes
<1> QED
  BY <1>10, <1>11, <1>12, <1>13, <1>14, <1>15, <1>16, <1>17 DEF FigureInv

(* A new size: when it is a new one the canvas will be cleared.            *)
LEMMA ResizesKeeps ==
    ASSUME FigureTyped, FigureInv, kernel.open, NEW m \in Messages, Takes(m), ResizesTo(m)
    PROVE  FigureInv'
<1> DEFINE r == [type |-> "resize", size |-> m.size]
<1>1. r \in Messages /\ r.size = m.size /\ m.size \in Sizes /\ r.type = "resize"
  BY MessageTypes, SignalTypes DEF ResizesTo
<1>2. toBrowser' = Append(toBrowser, r)
  BY DEF ResizesTo
<1> HIDE DEF r
<1>3. r \in Resize /\ r \notin Draws \cup Images \cup TellMode
  BY <1>1, MessageKinds
<1>4. Gets(toBrowser, toBrowser', r)
  BY <1>1, <1>2, AppendGets DEF FigureTyped
<1>5. Loses(toKernel, toKernel', m)
  BY TailLoses DEF Takes, FigureTyped
<1>6. m \notin Draws /\ m \notin AskMode /\ m \notin Refresh
  BY MessageKinds DEF ResizesTo
<1>7. /\ kernel'.version = kernel.version /\ kernel'.size = m.size
      /\ kernel'.mode = kernel.mode /\ kernel'.force_full = kernel.force_full
      /\ kernel'.base = IF m.size = kernel.size THEN kernel.base ELSE Blank
  BY DEF FigureTyped, Figures, ResizesTo
<1>8. UNCHANGED <<waiting, image_mode, loading, canvas, cell, output, timers, mpl_ratio,
                  last, late, overtaken>>
  BY DEF Takes, Unseen
<1>9. /\ OneDraw /\ ImagesInOrder /\ ImageComes /\ SizeComes
      /\ ModeTold /\ LoadingLast /\ CanvasHeals /\ OutputComes
  BY FigureInvParts
<1>10. OneDraw'
  BY <1>3, <1>4, <1>5, <1>6, <1>8, <1>9 DEF OneDraw, Gets, Loses
<1>11. ImagesInOrder'
  BY <1>3, <1>4, <1>7, <1>8, <1>9 DEF ImagesInOrder, Gets
<1>12. ImageComes'
  BY <1>3, <1>4, <1>5, <1>6, <1>7, <1>8, <1>9 DEF ImageComes, Gets, Loses
<1>13. SizeComes'
  <2>1. r \in Of_size(kernel'.size)
    BY <1>1, <1>3, <1>7 DEF Of_size
  <2> QED
    BY <1>4, <2>1 DEF SizeComes, Gets
<1>14. ModeTold'
  BY <1>3, <1>4, <1>5, <1>6, <1>7, <1>8, <1>9 DEF ModeTold, Gets, Loses
<1>15. LoadingLast'
  BY <1>8, <1>9 DEF LoadingLast
<1>16. Clearing' = Clearing
  BY <1>8 DEF Clearing
<1>17. Heals => Heals'
  BY <1>3, <1>4, <1>5, <1>6, <1>7, <1>16 DEF Heals, Gets, Loses
<1>18. CanvasHeals'
  <2> SUFFICES ASSUME ~Heals', canvas'.size = kernel'.size PROVE CanvasHeals'
    BY DEF CanvasHeals
  <2>1. ~Heals /\ ~Some(toBrowser, Clearing) /\ ~Some(toBrowser', Clearing)
    BY <1>16, <1>17 DEF Heals
  <2>2. r \notin Clearing
    BY <1>4, <2>1 DEF Gets
  <2>3. mpl_ratio = 1 /\ m.size = canvas.size
    BY <1>1, <1>3, <2>2 DEF Clearing
  <2>4. m.size = kernel.size
    <3>1. ~Behind(toBrowser, Of_size(kernel.size), Resize) \/ kernel.size = canvas.size
      BY <2>1 DEF Behind, Some, Clearing, Of_size
    <3> QED
      BY <1>9, <2>3, <3>1, InPixels DEF SizeComes
  <2>5. kernel'.base = kernel.base
    BY <1>7, <2>4
  <2>6. Fitting' = Fitting
    BY <1>8, <2>5 DEF Fitting
  <2> QED
    BY <1>3, <1>4, <1>8, <1>9, <2>1, <2>3, <2>4, <2>5, <2>6 DEF CanvasHeals, CanvasDrawn, Gets
<1>19. OutputComes'
  BY <1>4, <1>5, <1>6, <1>8, <1>9 DEF OutputComes, Gets, Loses
<1> QED
  BY <1>10, <1>11, <1>12, <1>13, <1>14, <1>15, <1>18, <1>19 DEF FigureInv

(* The mode is asked for before the first draw, and is "full" till then.   *)
LEMMA TellsModeKeeps ==
    ASSUME FigureTyped, FigureInv, kernel.open, NEW m \in Messages, Takes(m), TellsMode(m)
    PROVE  FigureInv'
<1> DEFINE t == [type |-> "image_mode", mode |-> kernel.mode]
<1>1. t \in Messages /\ t.mode = kernel.mode /\ t.type = "image_mode"
  BY SignalTypes DEF FigureTyped, Figures
<1>2. toBrowser' = Append(toBrowser, t)
  BY DEF TellsMode
<1> HIDE DEF t
<1>3. t \in TellMode /\ t \notin Draws \cup Images \cup Resize /\ t \in Of_mode(kernel.mode)
  BY <1>1, MessageKinds DEF Of_mode
<1>4. Gets(toBrowser, toBrowser', t)
  BY <1>1, <1>2, AppendGets DEF FigureTyped
<1>5. Loses(toKernel, toKernel', m)
  BY TailLoses DEF Takes, FigureTyped
<1>6. m \in AskMode /\ m \notin Draws /\ m \notin Refresh
  BY MessageKinds DEF TellsMode
<1>7. UNCHANGED <<kernel, waiting, image_mode, loading, canvas, cell, output, timers, mpl_ratio,
                  last, late, overtaken>>
  BY DEF Takes, Unseen, TellsMode
<1>8. /\ OneDraw /\ ImagesInOrder /\ ImageComes /\ SizeComes
      /\ ModeTold /\ LoadingLast /\ CanvasHeals /\ OutputComes
  BY FigureInvParts
<1>9. kernel.force_full /\ kernel.mode = "full"
  BY <1>5, <1>6, <1>8 DEF ModeTold, Loses
<1>10. OneDraw'
  BY <1>3, <1>4, <1>5, <1>6, <1>7, <1>8 DEF OneDraw, Gets, Loses
<1>11. ImagesInOrder'
  BY <1>3, <1>4, <1>7, <1>8 DEF ImagesInOrder, Gets
<1>12. ImageComes'
  BY <1>3, <1>4, <1>5, <1>6, <1>7, <1>8 DEF ImageComes, Gets, Loses
<1>13. SizeComes'
  BY <1>3, <1>4, <1>7, <1>8 DEF SizeComes, Gets
<1>14. ModeTold'
  BY <1>3, <1>4, <1>5, <1>6, <1>7, <1>8, <1>9 DEF ModeTold, Gets, Loses
<1>15. LoadingLast'
  BY <1>7, <1>8 DEF LoadingLast
<1>16. Clearing' = Clearing /\ Fitting' = Fitting /\ t \notin Clearing
  BY <1>3, <1>7, Subkinds DEF Clearing, Fitting
<1>17. CanvasHeals'
  <2>1. Heals => Heals'
    BY <1>3, <1>4, <1>5, <1>6, <1>7, <1>16 DEF Heals, Gets, Loses
  <2> QED
    BY <1>3, <1>4, <1>7, <1>8, <1>16, <2>1 DEF CanvasHeals, CanvasDrawn, Gets
<1>18. OutputComes'
  BY <1>4, <1>5, <1>6, <1>7, <1>8 DEF OutputComes, Gets, Loses
<1> QED
  BY <1>10, <1>11, <1>12, <1>13, <1>14, <1>15, <1>17, <1>18 DEF FigureInv

(* Any other message is taken from the kernel's queue, and no more.        *)
LEMMA IgnoresKeeps ==
    ASSUME FigureTyped, FigureInv, kernel.open, NEW m \in Messages, Takes(m), Ignores(m)
    PROVE  FigureInv'
<1>1. Loses(toKernel, toKernel', m)
  BY TailLoses DEF Takes, FigureTyped
<1>2. m \notin AskMode /\ m \notin Draws /\ m \notin Refresh
  BY MessageKinds DEF Ignores
<1>3. UNCHANGED <<kernel, toBrowser, waiting, image_mode, loading, canvas, cell, output, timers,
                  mpl_ratio, last, late, overtaken>>
  BY DEF Takes, Unseen, Ignores
<1>4. /\ OneDraw /\ ImagesInOrder /\ ImageComes /\ SizeComes
      /\ ModeTold /\ LoadingLast /\ CanvasHeals /\ OutputComes
  BY FigureInvParts
<1>5. OneDraw' /\ ImagesInOrder' /\ ImageComes' /\ SizeComes'
  BY <1>1, <1>2, <1>3, <1>4 DEF OneDraw, ImagesInOrder, ImageComes, SizeComes, Loses
<1>6. ModeTold' /\ LoadingLast' /\ OutputComes'
  BY <1>1, <1>2, <1>3, <1>4 DEF ModeTold, LoadingLast, OutputComes, Loses
<1>7. CanvasHeals'
  BY <1>1, <1>2, <1>3, <1>4 DEF CanvasHeals, Heals, CanvasDrawn, Clearing, Fitting, Loses
<1> QED
  BY <1>5, <1>6, <1>7 DEF FigureInv

(* What is sent while the browser handles a message or the user acts.      *)
LEMMA TellsGets ==
    ASSUME FigureTyped, Tells
    PROVE  \/ toKernel' = toKernel
           \/ \E m \in Messages \ (Draws \cup Refresh \cup AskMode) : Gets(toKernel, toKernel', m)
BY AppendGets DEF FigureTyped, Tells

(* An image comes: it is the only one, and told of in front.               *)
LEMMA LoadsImageKeeps ==
    ASSUME FigureTyped, FigureInv, kernel.open, NEW m \in Messages, Handles(m), LoadsImage(m)
    PROVE  FigureInv'
<1> DEFINE a == Msg("ack")
<1>1. a \in Messages \ (Draws \cup Refresh \cup AskMode) /\ toKernel' = Append(toKernel, a)
  BY ToldTypes DEF LoadsImage
<1> HIDE DEF a
<1>2. Gets(toKernel, toKernel', a)
  BY <1>1, AppendGets DEF FigureTyped
<1>3. Loses(toBrowser, toBrowser', m)
  BY TailLoses DEF Handles, FigureTyped
<1>4. /\ m \in Images /\ m \notin Draws \cup Resize \cup TellMode
      /\ m # NoImage /\ m.version \in Nat
  BY MessageKinds, PictureTypes, MessageTypes DEF LoadsImage, Pictures
<1>5. /\ UNCHANGED <<kernel, cell, mpl_ratio, image_mode, canvas, output, overtaken>>
      /\ loading' = m /\ last' = m /\ timers' = timers + 1 /\ waiting' = FALSE
      /\ late' = (late \/ loading # NoImage)
  BY DEF Handles, LoadsImage
<1>6. /\ OneDraw /\ ImagesInOrder /\ ImageComes /\ SizeComes
      /\ ModeTold /\ LoadingLast /\ CanvasHeals /\ OutputComes
      /\ kernel.version \in Nat \ {0} /\ last.version \in Nat
  BY FigureInvParts
<1>7. ~Some(toBrowser', Images) /\ ~Some(toKernel, Draws)
  BY <1>3, <1>4, <1>6 DEF OneDraw, Loses
<1>8. \A A : A \subseteq Images => ~Some(toBrowser', A)
  BY <1>7, Subset
<1>9. /\ m \in Between(last.version, kernel.version) /\ m \in FromBlank
      /\ m \in In_mode(kernel.mode)
  BY <1>3, <1>4, <1>6 DEF ImagesInOrder, ModeTold, Loses
<1>10. /\ last.version <= m.version /\ m.version <= kernel.version
       /\ m.full => m.base = Blank
       /\ kernel.mode = Mode(m.full)
  BY <1>9 DEF Between, FromBlank, In_mode
<1>11. OneDraw'
  BY <1>1, <1>2, <1>3, <1>5, <1>6, <1>7 DEF OneDraw, Gets, Loses
<1>12. ImagesInOrder'
  BY <1>5, <1>7, <1>10, WithNone DEF ImagesInOrder
<1>13. ImageComes'
  <2>1. CASE last.version = kernel.version
    BY <1>4, <1>5, <1>6, <1>10, <2>1 DEF ImageComes
  <2>2. CASE Some(toBrowser, Of_version(kernel.version))
    <3>1. m \in Of_version(kernel.version)
      BY <1>3, <1>8, <2>2, Subkinds DEF Loses
    <3> QED
      BY <1>5, <3>1 DEF ImageComes, Of_version
  <2>3. CASE Some(toKernel, Refresh) \/ Behind(toBrowser, Draws, Images)
    BY <1>2, <1>3, <1>4, <2>3 DEF ImageComes, Gets, Loses
  <2> QED
    BY <1>6, <1>7, <2>1, <2>2, <2>3 DEF ImageComes
<1>14. SizeComes'
  BY <1>3, <1>4, <1>5, <1>6, Subkinds DEF SizeComes, Loses
<1>15. image_mode = kernel.mode
  <2>1. ~Precedes(toBrowser', TellMode, Images)
    BY <1>7, WithNone
  <2> QED
    BY <1>3, <1>4, <1>6, <2>1 DEF ModeTold, Loses
<1>16. ModeTold'
  <2>1. InFront(toKernel', AskMode, Draws) /\ (Some(toKernel', AskMode) <=> Some(toKernel, AskMode))
    BY <1>1, <1>2, <1>6 DEF ModeTold, Gets
  <2>2. /\ Every(toBrowser', TellMode, Of_mode(kernel.mode))
        /\ \/ kernel.force_full /\ kernel.mode = "full"
           \/ Followed(toBrowser', TellMode, Images)
        /\ Every(toBrowser', Images, In_mode(kernel.mode))
    BY <1>3, <1>6 DEF ModeTold, Loses
  <2> QED
    BY <1>5, <1>6, <1>10, <1>15, <2>1, <2>2 DEF ModeTold
<1>17. LoadingLast'
  BY <1>5, <1>10, <1>15 DEF LoadingLast, FigureTyped
<1>18. ASSUME ~Heals', canvas'.size = kernel'.size
       PROVE  Every(toBrowser', Images, Fitting') /\ CanvasDrawn'
  <2>1. Clearing' = Clearing /\ m \notin Clearing
    BY <1>4, <1>5, Subkinds DEF Clearing
  <2>2. ~Heals
    BY <1>2, <1>3, <1>4, <1>5, <1>18, <2>1 DEF Heals, Gets, Loses
  <2>3. m \in Fitting
    BY <1>3, <1>4, <1>5, <1>6, <1>18, <2>2 DEF CanvasHeals, Loses
  <2>4. m.size = canvas.size /\ kernel.base = m.version /\ (m.full \/ m.base = last.version)
    BY <2>3 DEF Fitting
  <2>5. ASSUME ~m.full, ~late' PROVE canvas.shows = m.base
    <3>1. m \notin Full
      BY <2>5 DEF Full
    <3>2. ~Some(toBrowser, Full)
      BY <1>3, <1>8, <3>1, Subkinds DEF Loses
    <3>3. CanvasDrawn
      BY <1>5, <1>6, <1>18, <2>2, <3>2 DEF CanvasHeals
    <3> QED
      BY <1>5, <2>4, <2>5, <3>3 DEF CanvasDrawn
  <2>6. CanvasDrawn'
    BY <1>4, <1>5, <2>4, <2>5 DEF CanvasDrawn
  <2> QED
    BY <1>7, <2>6, WithNone
<1>19. OutputComes'
  BY <1>5 DEF OutputComes, FigureTyped
<1> QED
  BY <1>11, <1>12, <1>13, <1>14, <1>16, <1>17, <1>18, <1>19 DEF FigureInv, CanvasHeals, Handles

(* A draw is announced: it is asked for, unless one is under way.          *)
LEMMA AsksForDrawKeeps ==
    ASSUME FigureTyped, FigureInv, kernel.open, NEW m \in Messages, Handles(m), AsksForDraw(m)
    PROVE  FigureInv'
<1> DEFINE d == Msg("draw")
<1>1. d \in Messages /\ d \in Draws /\ d \notin Refresh \cup AskMode
  BY SignalTypes, MessageKinds
<1>2. IF waiting THEN toKernel' = toKernel ELSE toKernel' = Append(toKernel, d)
  BY DEF AsksForDraw
<1> HIDE DEF d
<1>3. IF waiting THEN toKernel' = toKernel ELSE Gets(toKernel, toKernel', d)
  BY <1>1, <1>2, AppendGets DEF FigureTyped
<1>4. Loses(toBrowser, toBrowser', m)
  BY TailLoses DEF Handles, FigureTyped
<1>5. m \in Draws /\ m \notin Images \cup Resize \cup TellMode
  BY MessageKinds DEF AsksForDraw
<1>6. /\ UNCHANGED <<kernel, cell, mpl_ratio, image_mode, loading, canvas, output, timers, last,
                     overtaken>>
      /\ waiting' = TRUE /\ late' = (late \/ loading # NoImage)
  BY DEF Handles, AsksForDraw
<1>7. /\ OneDraw /\ ImagesInOrder /\ ImageComes /\ SizeComes
      /\ ModeTold /\ LoadingLast /\ CanvasHeals /\ OutputComes
  BY FigureInvParts
<1>8. Some(toKernel', Draws) \/ Some(toBrowser', Images)
  BY <1>1, <1>3, <1>4, <1>5, <1>7 DEF OneDraw, Gets, Loses
<1>9. Behind(toBrowser, Draws, Images) =>
          Some(toKernel', Draws) \/ Behind(toBrowser', Draws, Images)
  BY <1>4, <1>8 DEF Loses
<1>10. /\ Some(toKernel', Refresh) <=> Some(toKernel, Refresh)
       /\ Some(toKernel', AskMode) <=> Some(toKernel, AskMode)
       /\ Some(toKernel, Draws) => Some(toKernel', Draws)
       /\ InFront(toKernel', AskMode, Draws)
  BY <1>1, <1>3, <1>7 DEF Gets, ModeTold
<1>11. OneDraw'
  <2>1. One(toKernel', Draws) /\ One(toBrowser', Images)
    BY <1>1, <1>3, <1>4, <1>7 DEF OneDraw, Gets, Loses
  <2>2. ~(Some(toKernel', Draws) /\ Some(toBrowser', Images))
    BY <1>3, <1>4, <1>7 DEF OneDraw, Gets, Loses
  <2> QED
    BY <1>6, <1>8, <2>1, <2>2 DEF OneDraw
<1>12. ImagesInOrder'
  BY <1>4, <1>6, <1>7 DEF ImagesInOrder, Loses
<1>13. ImageComes'
  BY <1>4, <1>5, <1>6, <1>7, <1>9, <1>10, Subkinds DEF ImageComes, Loses
<1>14. SizeComes'
  BY <1>4, <1>5, <1>6, <1>7, Subkinds DEF SizeComes, Loses
<1>15. ModeTold'
  BY <1>4, <1>5, <1>6, <1>7, <1>10 DEF ModeTold, Loses
<1>16. LoadingLast'
  BY <1>6, <1>7 DEF LoadingLast
<1>17. Clearing' = Clearing /\ Fitting' = Fitting /\ m \notin Clearing /\ m \notin Full
  BY <1>5, <1>6, Subkinds DEF Clearing, Fitting
<1>18. CanvasHeals'
  <2>1. Heals => Heals'
    BY <1>4, <1>6, <1>9, <1>10, <1>17 DEF Heals, Loses
  <2> QED
    BY <1>4, <1>5, <1>6, <1>7, <1>17, <2>1 DEF CanvasHeals, CanvasDrawn, Loses
<1>19. OutputComes'
  BY <1>4, <1>5, <1>6, <1>7, <1>8, <1>10 DEF OutputComes, Loses
<1> QED
  BY <1>11, <1>12, <1>13, <1>14, <1>15, <1>16, <1>18, <1>19 DEF FigureInv, Handles

(* A size comes: the canvas has it then, and is cleared with a refresh; or *)
(* it has it in pixels, and is left alone.                                 *)
LEMMA TakesSizeKeeps ==
    ASSUME FigureTyped, FigureInv, kernel.open, NEW m \in Messages, Handles(m), TakesSize(m)
    PROVE  FigureInv'
<1> DEFINE r == Msg("refresh")
           pixels == mpl_ratio * canvas.size
<1>1. r \in Messages /\ r \in Refresh /\ r \notin Draws \cup AskMode
  BY SignalTypes, MessageKinds
<1>2. \/ canvas' = [size |-> m.size, shows |-> Blank] /\ toKernel' = Append(toKernel, r)
      \/ m.size = pixels /\ UNCHANGED <<canvas, toKernel>>
  BY DEF TakesSize
<1> HIDE DEF r
<1>3. \/ canvas'.size = m.size /\ Gets(toKernel, toKernel', r)
      \/ m.size = pixels /\ UNCHANGED <<canvas, toKernel>>
  <2>1. Gets(toKernel, Append(toKernel, r), r)
    BY <1>1, AppendGets DEF FigureTyped
  <2>2. CASE canvas' = [size |-> m.size, shows |-> Blank] /\ toKernel' = Append(toKernel, r)
    <3>1. canvas'.size = m.size
      BY <2>2
    <3> QED
      BY <2>1, <2>2, <3>1
  <2>3. CASE m.size = pixels /\ UNCHANGED <<canvas, toKernel>>
    BY <2>3
  <2> QED
    BY <1>2, <2>2, <2>3
<1>4. Loses(toBrowser, toBrowser', m)
  BY TailLoses DEF Handles, FigureTyped
<1>5. m \in Resize /\ m \notin Images \cup Draws \cup TellMode
  BY MessageKinds DEF TakesSize
<1>6. /\ UNCHANGED <<kernel, cell, mpl_ratio, waiting, image_mode, loading, output, timers, last,
                     overtaken>>
      /\ late' = (late \/ loading # NoImage)
  BY DEF Handles, TakesSize
<1>7. /\ OneDraw /\ ImagesInOrder /\ ImageComes /\ SizeComes
      /\ ModeTold /\ LoadingLast /\ CanvasHeals /\ OutputComes
  BY FigureInvParts
<1>8. /\ mpl_ratio = 1 => pixels = canvas.size
      /\ mpl_ratio # 1 => pixels # canvas.size
  BY InPixels
<1> HIDE DEF pixels
<1>9. /\ Some(toKernel', Draws) <=> Some(toKernel, Draws)
      /\ Some(toKernel', AskMode) <=> Some(toKernel, AskMode)
      /\ Some(toKernel, Refresh) => Some(toKernel', Refresh)
      /\ One(toKernel', Draws) /\ InFront(toKernel', AskMode, Draws)
  BY <1>1, <1>3, <1>7 DEF Gets, OneDraw, ModeTold
<1>10. OneDraw'
  BY <1>4, <1>5, <1>6, <1>7, <1>9 DEF OneDraw, Loses
<1>11. ImagesInOrder'
  BY <1>4, <1>6, <1>7 DEF ImagesInOrder, Loses
<1>12. ImageComes'
  BY <1>4, <1>5, <1>6, <1>7, <1>9, Subkinds DEF ImageComes, Loses
<1>13. \/ Behind(toBrowser', Of_size(kernel.size), Resize)
       \/ m.size = kernel.size /\ ~Some(toBrowser', Resize)
  <2>1. m \in Of_size(kernel.size) => m.size = kernel.size
    BY DEF Of_size
  <2> QED
    BY <1>4, <1>5, <1>7, <2>1 DEF SizeComes, Loses
<1>14. SizeComes'
  <2>1. CASE canvas'.size = m.size
    BY <1>6, <1>13, <2>1 DEF SizeComes
  <2>2. CASE m.size = pixels /\ UNCHANGED canvas
    <3>1. pixels = mpl_ratio' * canvas'.size
      BY <1>6, <2>2 DEF pixels
    <3> QED
      BY <1>6, <1>13, <2>2, <3>1 DEF SizeComes
  <2> QED
    BY <1>3, <2>1, <2>2
<1>15. ModeTold' /\ LoadingLast'
  BY <1>4, <1>5, <1>6, <1>7, <1>9 DEF ModeTold, LoadingLast, Loses
<1>16. CASE Gets(toKernel, toKernel', r)
  <2>1. Some(toKernel', Refresh)
    BY <1>1, <1>16 DEF Gets
  <2>2. CanvasHeals' /\ OutputComes'
    BY <2>1 DEF CanvasHeals, Heals, OutputComes
  <2> QED
    BY <1>10, <1>11, <1>12, <1>14, <1>15, <2>2 DEF FigureInv
<1>17. CASE m.size = pixels /\ UNCHANGED <<canvas, toKernel>>
  <2>1. Clearing' = Clearing /\ Fitting' = Fitting /\ m \notin Full
    BY <1>5, <1>6, <1>17, Subkinds DEF Clearing, Fitting
  <2>2. ASSUME canvas'.size = kernel'.size, ~Heals' PROVE ~Heals /\ canvas.size = kernel.size
    <3>1. mpl_ratio = 1
      <4> SUFFICES ASSUME mpl_ratio # 1 PROVE FALSE
        OBVIOUS
      <4>1. Clearing = Resize
        BY DEF Clearing
      <4>2. ~Some(toBrowser', Resize)
        BY <2>1, <2>2, <4>1 DEF Heals
      <4>3. ~Behind(toBrowser', Of_size(kernel.size), Resize)
        BY <4>2, Subkinds DEF Behind, Some
      <4> QED
        BY <1>6, <1>8, <1>13, <1>17, <2>2, <4>3
    <3>2. m \notin Clearing
      BY <1>8, <1>17, <3>1 DEF Clearing
    <3> QED
      BY <1>4, <1>5, <1>6, <1>17, <2>1, <2>2, <3>2 DEF Heals, Loses
  <2>3. CanvasHeals'
    BY <1>4, <1>5, <1>6, <1>7, <1>17, <2>1, <2>2 DEF CanvasHeals, CanvasDrawn, Loses
  <2>4. OutputComes'
    BY <1>4, <1>5, <1>6, <1>7, <1>17 DEF OutputComes, Loses
  <2> QED
    BY <1>10, <1>11, <1>12, <1>14, <1>15, <2>3, <2>4 DEF FigureInv
<1> QED
  BY <1>3, <1>16, <1>17

(* A mode comes.  If an image is still loading it is late then.            *)
LEMMA TakesModeKeeps ==
    ASSUME FigureTyped, FigureInv, kernel.open, NEW m \in Messages, Handles(m), TakesMode(m)
    PROVE  FigureInv'
<1>1. Loses(toBrowser, toBrowser', m)
  BY TailLoses DEF Handles, FigureTyped
<1>2. m \in TellMode /\ m \notin Images \cup Draws \cup Resize
  BY MessageKinds DEF TakesMode
<1>3. /\ UNCHANGED <<kernel, toKernel, cell, mpl_ratio, waiting, loading, canvas, output, timers,
                     last, overtaken>>
      /\ image_mode' = m.mode /\ late' = (late \/ loading # NoImage)
  BY DEF Handles, TakesMode
<1>4. /\ OneDraw /\ ImagesInOrder /\ ImageComes /\ SizeComes
      /\ ModeTold /\ LoadingLast /\ CanvasHeals /\ OutputComes
  BY FigureInvParts
<1>5. image_mode' = kernel.mode
  <2>1. m \in Of_mode(kernel.mode)
    BY <1>1, <1>2, <1>4 DEF ModeTold, Loses
  <2> QED
    BY <1>3, <2>1 DEF Of_mode
<1>6. OneDraw' /\ ImagesInOrder'
  BY <1>1, <1>2, <1>3, <1>4 DEF OneDraw, ImagesInOrder, Loses
<1>7. ImageComes' /\ SizeComes'
  BY <1>1, <1>2, <1>3, <1>4, Subkinds DEF ImageComes, SizeComes, Loses
<1>8. ModeTold'
  BY <1>1, <1>2, <1>3, <1>4, <1>5 DEF ModeTold, Loses
<1>9. LoadingLast'
  BY <1>3, <1>4 DEF LoadingLast
<1>10. CanvasHeals'
  <2>1. Clearing' = Clearing /\ Fitting' = Fitting /\ m \notin Clearing /\ m \notin Full
    BY <1>2, <1>3, Subkinds DEF Clearing, Fitting
  <2>2. Heals => Heals'
    BY <1>1, <1>2, <1>3, <2>1 DEF Heals, Loses
  <2> QED
    BY <1>1, <1>2, <1>3, <1>4, <2>1, <2>2 DEF CanvasHeals, CanvasDrawn, Loses
<1>11. OutputComes'
  BY <1>1, <1>2, <1>3, <1>4 DEF OutputComes, Loses
<1> QED
  BY <1>6, <1>7, <1>8, <1>9, <1>10, <1>11 DEF FigureInv

(* What is said to the kernel besides asks for no image.                   *)
LEMMA TellsKeeps ==
    ASSUME FigureTyped, Tells
    PROVE  /\ Some(toKernel', Draws) <=> Some(toKernel, Draws)
           /\ Some(toKernel', Refresh) <=> Some(toKernel, Refresh)
           /\ Some(toKernel', AskMode) <=> Some(toKernel, AskMode)
           /\ One(toKernel, Draws) => One(toKernel', Draws)
           /\ InFront(toKernel, AskMode, Draws) => InFront(toKernel', AskMode, Draws)
BY TellsGets DEF Gets

(* Other messages, and the user, leave the pictures alone.                 *)
LEMMA DisplaysKeeps ==
    ASSUME FigureTyped, FigureInv, kernel.open, NEW m \in Messages, Handles(m), Displays(m)
    PROVE  FigureInv'
<1>1. Loses(toBrowser, toBrowser', m)
  BY TailLoses DEF Handles, FigureTyped
<1>2. m \notin Images \cup Draws \cup Resize \cup TellMode
  BY MessageKinds DEF Displays
<1>3. /\ UNCHANGED <<kernel, cell, mpl_ratio, waiting, image_mode, loading, canvas, timers, last>>
      /\ push_to_output \/ UNCHANGED <<output, overtaken>>
      /\ late' = (late \/ loading # NoImage)
  BY DEF Handles, Displays, Idle
<1>4. /\ OneDraw /\ ImagesInOrder /\ ImageComes /\ SizeComes
      /\ ModeTold /\ LoadingLast /\ CanvasHeals /\ OutputComes
  BY FigureInvParts
<1>5. /\ Some(toKernel', Draws) <=> Some(toKernel, Draws)
      /\ Some(toKernel', Refresh) <=> Some(toKernel, Refresh)
      /\ Some(toKernel', AskMode) <=> Some(toKernel, AskMode)
      /\ One(toKernel, Draws) => One(toKernel', Draws)
      /\ InFront(toKernel, AskMode, Draws) => InFront(toKernel', AskMode, Draws)
  BY TellsKeeps DEF Displays, Idle
<1>6. OneDraw' /\ ImagesInOrder'
  BY <1>1, <1>2, <1>3, <1>4, <1>5 DEF OneDraw, ImagesInOrder, Loses
<1>7. ImageComes' /\ SizeComes'
  BY <1>1, <1>2, <1>3, <1>4, <1>5, Subkinds DEF ImageComes, SizeComes, Loses
<1>8. ModeTold' /\ LoadingLast'
  BY <1>1, <1>2, <1>3, <1>4, <1>5 DEF ModeTold, LoadingLast, Loses
<1>9. CanvasHeals'
  <2>1. Clearing' = Clearing /\ Fitting' = Fitting /\ m \notin Clearing /\ m \notin Full
    BY <1>2, <1>3, Subkinds DEF Clearing, Fitting
  <2>2. Heals => Heals'
    BY <1>1, <1>2, <1>3, <1>5, <2>1 DEF Heals, Loses
  <2> QED
    BY <1>1, <1>2, <1>3, <1>4, <2>1, <2>2 DEF CanvasHeals, CanvasDrawn, Loses
<1>10. OutputComes'
  BY <1>1, <1>2, <1>3, <1>4, <1>5 DEF OutputComes, push_to_output, Loses
<1> QED
  BY <1>6, <1>7, <1>8, <1>9, <1>10 DEF FigureInv

LEMMA AsideKeeps ==
    ASSUME FigureTyped, FigureInv, kernel.open, Aside
    PROVE  FigureInv'
<1>1. /\ UNCHANGED <<kernel, toBrowser, cell, mpl_ratio, waiting, image_mode, loading, canvas,
                     timers, last, late>>
      /\ push_to_output \/ UNCHANGED <<output, overtaken>>
  BY DEF Aside, Idle
<1>2. /\ OneDraw /\ ImagesInOrder /\ ImageComes /\ SizeComes
      /\ ModeTold /\ LoadingLast /\ CanvasHeals /\ OutputComes
  BY FigureInvParts
<1>3. /\ Some(toKernel', Draws) <=> Some(toKernel, Draws)
      /\ Some(toKernel', Refresh) <=> Some(toKernel, Refresh)
      /\ Some(toKernel', AskMode) <=> Some(toKernel, AskMode)
      /\ One(toKernel, Draws) => One(toKernel', Draws)
      /\ InFront(toKernel, AskMode, Draws) => InFront(toKernel', AskMode, Draws)
  BY TellsKeeps DEF Aside, Idle
<1>4. OneDraw' /\ ImagesInOrder' /\ ImageComes' /\ SizeComes'
  BY <1>1, <1>2, <1>3 DEF OneDraw, ImagesInOrder, ImageComes, SizeComes
<1>5. ModeTold' /\ LoadingLast' /\ OutputComes'
  BY <1>1, <1>2, <1>3 DEF ModeTold, LoadingLast, OutputComes, push_to_output
<1>6. CanvasHeals'
  BY <1>1, <1>2, <1>3 DEF CanvasHeals, Heals, CanvasDrawn, Clearing, Fitting
<1> QED
  BY <1>4, <1>5, <1>6 DEF FigureInv

(* The image is loaded: unless the canvas heals, a full one is drawn on a  *)
(* cleared canvas, and a change on what it is a change of if none was late.*)
LEMMA OnloadKeeps ==
    ASSUME FigureTyped, FigureInv, OutputKept, kernel.open, Onload
    PROVE  FigureInv'
<1>1. /\ UNCHANGED <<kernel, toBrowser, toKernel, waiting, image_mode, cell, output, timers,
                     mpl_ratio, last, late, overtaken>>
      /\ loading # NoImage /\ loading' = NoImage
      /\ canvas' = [canvas EXCEPT !.shows =
                        IF loading.size = canvas.size /\ Under(loading) = loading.base
                        THEN loading.version ELSE Mixed]
  BY DEF Onload, saved, user, history
<1>2. /\ canvas'.size = canvas.size
      /\ loading.size = canvas.size /\ Under(loading) = loading.base
             => canvas'.shows = loading.version
  BY <1>1 DEF FigureTyped
<1>3. /\ OneDraw /\ ImagesInOrder /\ ImageComes /\ SizeComes
      /\ ModeTold /\ LoadingLast /\ CanvasHeals /\ OutputComes
  BY FigureInvParts
<1>4. /\ loading = last /\ loading.full \in BOOLEAN
      /\ cell = "found" => timers > 0 \/ overtaken
  BY <1>1, <1>3, PictureTypes DEF LoadingLast, OutputKept, FigureTyped
<1>5. OneDraw' /\ ImagesInOrder' /\ ImageComes' /\ SizeComes'
  BY <1>1, <1>2, <1>3 DEF OneDraw, ImagesInOrder, ImageComes, SizeComes
<1>6. ModeTold' /\ LoadingLast' /\ OutputComes'
  BY <1>1, <1>3, <1>4 DEF ModeTold, LoadingLast, OutputComes
<1>7. Clearing' = Clearing /\ Fitting' = Fitting
  BY <1>1, <1>2 DEF Clearing, Fitting
<1>8. ASSUME ~Heals', canvas'.size = kernel'.size
      PROVE  Every(toBrowser', Images, Fitting') /\ (Some(toBrowser', Full) \/ CanvasDrawn')
  <2>1. ~Heals /\ canvas.size = kernel.size
    BY <1>1, <1>2, <1>7, <1>8 DEF Heals
  <2>2. Every(toBrowser', Images, Fitting')
    BY <1>1, <1>3, <1>7, <2>1 DEF CanvasHeals
  <2> SUFFICES ASSUME ~Some(toBrowser, Full) PROVE CanvasDrawn'
    BY <1>1, <2>2
  <2>3. CanvasDrawn
    BY <1>3, <2>1 DEF CanvasHeals
  <2>4. ASSUME ~late \/ (last.full /\ ~Some(toBrowser, Images))
        PROVE  canvas'.shows = last.version
    <3>1. image_mode = Mode(loading.full)
      <4>1. CASE ~late
        BY <1>1, <1>3, <4>1 DEF LoadingLast
      <4>2. CASE ~Some(toBrowser, Images)
        BY <1>1, <1>3, <1>4, <4>2, WithNone DEF ModeTold
      <4> QED
        BY <2>4, <4>1, <4>2
    <3>2. Under(loading) = loading.base
      <4>1. CASE loading.full
        BY <1>1, <1>3, <3>1, <4>1 DEF Under, Mode, LoadingLast
      <4>2. CASE ~loading.full
        <5>1. ~late
          BY <1>4, <2>4, <4>2
        <5> QED
          BY <1>1, <2>3, <3>1, <4>2, <5>1 DEF Under, Mode, CanvasDrawn
      <4> QED
        BY <4>1, <4>2
    <3> QED
      BY <1>1, <1>2, <1>4, <2>3, <3>2 DEF CanvasDrawn
  <2> QED
    BY <1>1, <2>3, <2>4 DEF CanvasDrawn
<1> QED
  BY <1>5, <1>6, <1>8 DEF FigureInv, CanvasHeals

(* The canvas is copied, be the last image on it or not.                   *)
LEMMA TimerKeeps ==
    ASSUME FigureTyped, FigureInv, kernel.open, Timer
    PROVE  FigureInv'
<1>1. /\ UNCHANGED <<kernel, toBrowser, toKernel, waiting, image_mode, loading, canvas, cell,
                     mpl_ratio, last, late>>
      /\ cell = "found" => output' = canvas.shows
  BY DEF Timer, push_to_output, shown, user
<1>2. /\ OneDraw /\ ImagesInOrder /\ ImageComes /\ SizeComes
      /\ ModeTold /\ LoadingLast /\ CanvasHeals /\ OutputComes
  BY FigureInvParts
<1>3. OneDraw' /\ ImagesInOrder' /\ ImageComes' /\ SizeComes'
  BY <1>1, <1>2 DEF OneDraw, ImagesInOrder, ImageComes, SizeComes
<1>4. ModeTold' /\ LoadingLast' /\ OutputComes'
  BY <1>1, <1>2 DEF ModeTold, LoadingLast, OutputComes
<1>5. CanvasHeals'
  BY <1>1, <1>2 DEF CanvasHeals, Heals, CanvasDrawn, Clearing, Fitting
<1> QED
  BY <1>3, <1>4, <1>5 DEF FigureInv

-----------------------------------------------------------------------------
(* What is saved is copied after every image that is drawn, be the figure  *)
(* live or closed, or an image has come later than its copy.               *)
LEMMA FigureNextKept ==
    ASSUME FigureTyped, OutputKept, [FigureNext]_figure_vars
    PROVE  OutputKept'
<1>1. ASSUME UNCHANGED <<loading, canvas, cell, timers>>,
             push_to_output \/ UNCHANGED <<output, overtaken>>
      PROVE  OutputKept'
  BY <1>1 DEF OutputKept, push_to_output
<1>2. CASE Change \/ Close \/ UNCHANGED figure_vars
  <2>1. UNCHANGED <<loading, canvas, cell, timers, output, overtaken>>
    BY <1>2 DEF Change, Close, figure_vars, shown, saved, history
  <2> QED
    BY <1>1, <2>1
<1>3. CASE Kernel
  <2>1. UNCHANGED <<loading, canvas, cell, timers, output, overtaken>>
    BY <1>3 DEF Kernel, shown, saved, history
  <2> QED
    BY <1>1, <2>1
<1>4. CASE OnMessage
  <2> DEFINE m == Head(toBrowser)
  <2>1. /\ cell' = cell
        /\ LoadsImage(m) \/ AsksForDraw(m) \/ TakesSize(m) \/ TakesMode(m) \/ Displays(m)
    BY <1>4, BrowserCases DEF Handles
  <2> HIDE DEF m
  <2>2. CASE LoadsImage(m)
    BY <2>1, <2>2 DEF LoadsImage, OutputKept, FigureTyped
  <2>3. CASE AsksForDraw(m) \/ TakesMode(m)
    BY <1>1, <2>1, <2>3 DEF AsksForDraw, TakesMode
  <2>4. CASE TakesSize(m)
    <3>1. canvas' = canvas \/ canvas'.shows = Blank
      BY <2>4 DEF TakesSize
    <3>2. UNCHANGED <<loading, cell, timers, output, overtaken>>
      BY <2>1, <2>4 DEF TakesSize
    <3> QED
      BY <3>1, <3>2 DEF OutputKept
  <2>5. CASE Displays(m)
    BY <1>1, <2>1, <2>5 DEF Displays, Idle
  <2> QED
    BY <2>1, <2>2, <2>3, <2>4, <2>5
<1>5. CASE Onload
  BY <1>5 DEF Onload, OutputKept, saved, history
<1>6. CASE Timer
  BY <1>6 DEF Timer, push_to_output, OutputKept, shown
<1>7. CASE User
  BY <1>1, <1>7, UserIsAside DEF Aside, Idle
<1> QED
  BY <1>2, <1>3, <1>4, <1>5, <1>6, <1>7 DEF FigureNext

-----------------------------------------------------------------------------
LEMMA InJoined ==
    ASSUME NEW q \in Seq(Messages), NEW r \in Seq(Messages), NEW A
    PROVE  /\ q \o r \in Seq(Messages)
           /\ Some(q \o r, A) <=> Some(q, A) \/ Some(r, A)
<1> DEFINE n == Len(q)
           l == Len(r)
           s == q \o r
<1>1. /\ n \in Nat /\ l \in Nat /\ s \in Seq(Messages)
      /\ DOMAIN q = 1 .. n /\ DOMAIN r = 1 .. l /\ DOMAIN s = 1 .. n + l
      /\ \A i \in 1 .. n : s[i] = q[i]
      /\ \A i \in 1 .. l : s[n + i] = r[i]
  OBVIOUS
<1> HIDE DEF n, l, s
<1>2. \A i \in 1 .. n + l : i \in 1 .. n \/ (i - n \in 1 .. l /\ i = n + (i - n))
  BY <1>1
<1>3. ASSUME Some(s, A) PROVE Some(q, A) \/ Some(r, A)
  <2>1. PICK i \in 1 .. n + l : s[i] \in A
    BY <1>1, <1>3 DEF Some
  <2>2. CASE i \in 1 .. n
    BY <1>1, <2>1, <2>2 DEF Some
  <2>3. CASE i \notin 1 .. n
    <3>1. PICK k \in 1 .. l : k = i - n /\ i = n + k
      BY <1>2, <2>3
    <3>2. r[k] \in A
      BY <1>1, <2>1, <3>1
    <3> QED
      BY <1>1, <3>2 DEF Some
  <2> QED
    BY <2>2, <2>3
<1>4. /\ \A i \in 1 .. n : i \in 1 .. n + l
      /\ \A i \in 1 .. l : n + i \in 1 .. n + l
  BY <1>1
<1>5. Some(q, A) \/ Some(r, A) => Some(s, A)
  BY <1>1, <1>4 DEF Some
<1> QED
  BY <1>1, <1>3, <1>5 DEF s

(* In the beginning a size is on its way to the browser, and a question    *)
(* for the mode and a refresh to the kernel.                               *)
LEMMA FigureInitInv == FigureInit => FigureInv
<1> SUFFICES ASSUME FigureInit PROVE FigureInv
  OBVIOUS
<1>1. PICK s \in Sizes :
          /\ kernel = [version |-> 1, size |-> s, mode |-> "full", force_full |-> TRUE,
                       base |-> Blank, open |-> TRUE]
          /\ toBrowser = <<[type |-> "resize", size |-> s]>>
  BY DEF FigureInit
<1>2. /\ kernel.version = 1 /\ kernel.size = s /\ kernel.mode = "full" /\ kernel.force_full
  BY <1>1
<1>3. /\ toKernel = onopen /\ waiting = FALSE /\ image_mode = "full" /\ loading = NoImage
      /\ canvas = [size |-> Default, shows |-> Blank] /\ last = NoImage /\ output = Blank
  BY DEF FigureInit, figure
<1>4. /\ DOMAIN toBrowser = {1} /\ toBrowser[1] \in Messages
      /\ toBrowser[1].type = "resize" /\ toBrowser[1].size = s
  BY <1>1, SignalTypes
<1>5. ~Some(toKernel, Draws) /\ Some(toKernel, Refresh)
  <2> DEFINE a == Msg("supports_binary")
             b == Msg("send_image_mode")
             c == IF mpl_ratio # 1 THEN <<Msg("set_dpi_ratio")>> ELSE <<>>
             d == Msg("refresh")
  <2>1. /\ a \in Messages /\ b \in Messages /\ d \in Messages /\ c \in Seq(Messages)
        /\ a \notin Draws /\ b \notin Draws /\ d \notin Draws /\ d \in Refresh
        /\ ~Some(c, Draws)
    BY SignalTypes, MessageKinds DEF Some
  <2>2. toKernel = <<a, b>> \o c \o <<d>>
    BY <1>3 DEF onopen
  <2> HIDE DEF a, b, c, d
  <2>3. <<a, b>> \in Seq(Messages) /\ <<d>> \in Seq(Messages)
    BY <2>1
  <2>4. ~Some(<<a, b>>, Draws) /\ ~Some(<<d>>, Draws) /\ Some(<<d>>, Refresh)
    BY <2>1 DEF Some
  <2> QED
    BY <2>1, <2>2, <2>3, <2>4, InJoined
<1>6. ~Some(toBrowser, Images) /\ ~Some(toBrowser, TellMode)
  BY <1>4, MessageKinds DEF Some
<1>7. OneDraw
  BY <1>3, <1>4, <1>5, <1>6 DEF OneDraw, One, Some
<1>8. ImagesInOrder
  BY <1>2, <1>3, <1>6, WithNone DEF ImagesInOrder, NoImage, Blank
<1>9. SizeComes
  <2>1. toBrowser[1] \in Of_size(s)
    BY <1>4, MessageKinds DEF Of_size
  <2> QED
    BY <1>2, <1>4, <2>1 DEF SizeComes, Behind
<1>10. ModeTold
  <2>1. InFront(toKernel, AskMode, Draws)
    BY <1>5 DEF InFront, Some
  <2> QED
    BY <1>2, <1>3, <1>6, <2>1, WithNone DEF ModeTold
<1>11. ImageComes /\ CanvasHeals /\ OutputComes /\ LoadingLast
  BY <1>3, <1>5 DEF ImageComes, CanvasHeals, Heals, OutputComes, LoadingLast
<1> QED
  BY <1>7, <1>8, <1>9, <1>10, <1>11 DEF FigureInv

LEMMA FigureNextInv ==
    ASSUME FigureTyped, FigureInv, OutputKept, [FigureNext]_figure_vars
    PROVE  FigureInv'
<1> SUFFICES ASSUME kernel'.open PROVE FigureInv'
  BY DEF FigureInv
<1> DEFINE k == Head(toKernel)
           b == Head(toBrowser)
<1>1. CASE Change
  BY <1>1, ChangeKeeps, FigureNextType
<1>2. CASE Close
  BY <1>2 DEF Close, FigureTyped, Figures
<1>3. CASE Kernel
  <2>1. Takes(k) /\ k \in Messages
    BY <1>3, KernelCases
  <2>2. CASE \E full \in BOOLEAN : DrawsIn(k, full)
    <3>1. kernel.open
      BY <2>2 DEF DrawsIn, FigureTyped, Figures
    <3> QED
      BY <2>1, <2>2, <3>1, DrawsKeeps
  <2>3. CASE Refreshes(k)
    <3>1. kernel.open
      BY <2>3 DEF Refreshes, FigureTyped, Figures
    <3> QED
      BY <2>1, <2>3, <3>1, RefreshesKeeps
  <2>4. CASE ResizesTo(k)
    <3>1. kernel.open
      BY <2>4 DEF ResizesTo, FigureTyped, Figures
    <3> QED
      BY <2>1, <2>4, <3>1, ResizesKeeps
  <2>5. CASE TellsMode(k)
    <3>1. kernel.open
      BY <2>5 DEF TellsMode
    <3> QED
      BY <2>1, <2>5, <3>1, TellsModeKeeps
  <2>6. CASE Ignores(k)
    <3>1. kernel.open
      BY <2>6 DEF Ignores
    <3> QED
      BY <2>1, <2>6, <3>1, IgnoresKeeps
  <2>7. CASE kernel' = [kernel EXCEPT !.open = FALSE]
    BY <2>7 DEF FigureTyped, Figures
  <2>8. CASE ~kernel.open /\ kernel' = kernel
    BY <2>8
  <2> QED
    BY <1>3, <2>2, <2>3, <2>4, <2>5, <2>6, <2>7, <2>8, KernelCases
<1>4. CASE OnMessage
  <2>1. Handles(b) /\ b \in Messages
    BY <1>4, BrowserCases
  <2>2. kernel.open
    BY <2>1 DEF Handles
  <2> HIDE DEF b
  <2>3. \/ LoadsImage(b) \/ AsksForDraw(b) \/ TakesSize(b) \/ TakesMode(b) \/ Displays(b)
    BY <1>4, BrowserCases DEF b
  <2> QED
    BY <2>1, <2>2, <2>3, LoadsImageKeeps, AsksForDrawKeeps, TakesSizeKeeps, TakesModeKeeps,
       DisplaysKeeps
<1>5. CASE Onload
  BY <1>5, OnloadKeeps DEF Onload
<1>6. CASE Timer
  BY <1>6, TimerKeeps DEF Timer
<1>7. CASE User
  BY <1>7, UserIsAside, AsideKeeps DEF Aside
<1>8. CASE UNCHANGED figure_vars
  <2>1. UNCHANGED <<kernel, toBrowser, toKernel, waiting, image_mode, loading, canvas, cell,
                    output, timers, mpl_ratio, last, late, overtaken>>
    BY <1>8 DEF figure_vars, shown, saved, history
  <2>2. Aside
    BY <2>1 DEF Aside, Idle, Tells
  <2> QED
    BY <2>1, <2>2, AsideKeeps
<1> QED
  BY <1>1, <1>2, <1>3, <1>4, <1>5, <1>6, <1>7, <1>8 DEF FigureNext

LEMMA FigureInductive == FigureSpec => [](FigureTyped /\ FigureInv /\ OutputKept)
<1>1. FigureInit => OutputKept
  BY DEF FigureInit, figure, OutputKept
<1>2. FigureInit => FigureTyped /\ FigureInv /\ OutputKept
  BY <1>1, FigureInitType, FigureInitInv
<1>3. FigureTyped /\ FigureInv /\ OutputKept /\ [FigureNext]_figure_vars
          => (FigureTyped /\ FigureInv /\ OutputKept)'
  BY FigureNextType, FigureNextInv, FigureNextKept
<1> QED
  BY <1>2, <1>3, PTL DEF FigureSpec

(* When nothing is under way the last image is that of the figure as it    *)
(* is, and a canvas of the figure's size shows it.                         *)
THEOREM UpdatesAreShown == FigureSpec => []UpdatesShown
<1>1. FigureTyped /\ FigureInv => UpdatesShown
  <2> SUFFICES ASSUME FigureTyped, FigureInv, AtRest, kernel.open
               PROVE  /\ ~waiting
                      /\ last.version = kernel.version
                      /\ kernel.size \in {canvas.size, mpl_ratio * canvas.size}
                      /\ canvas.size = kernel.size /\ (last.full \/ ~late)
                             => canvas.shows = kernel.version
    BY DEF UpdatesShown
  <2>1. /\ OneDraw /\ ImagesInOrder /\ ImageComes /\ SizeComes
        /\ ModeTold /\ LoadingLast /\ CanvasHeals /\ OutputComes
    BY FigureInvParts
  <2>2. \A A, B : /\ ~Some(toBrowser, A) /\ ~Some(toKernel, A)
                  /\ ~Behind(toBrowser, A, B)
    BY WithNone DEF AtRest
  <2>3. ~Heals /\ (canvas.size = kernel.size => CanvasDrawn)
    BY <2>1, <2>2 DEF Heals, CanvasHeals
  <2>4. ~waiting /\ last.version = kernel.version
    BY <2>1, <2>2 DEF OneDraw, ImageComes
  <2>5. kernel.size \in {canvas.size, mpl_ratio * canvas.size}
    BY <2>1, <2>2 DEF SizeComes
  <2>6. canvas.size = kernel.size /\ (last.full \/ ~late) => canvas.shows = kernel.version
    BY <2>2, <2>3, <2>4 DEF AtRest, CanvasDrawn
  <2> QED
    BY <2>4, <2>5, <2>6
<1> QED
  BY <1>1, FigureInductive, PTL

(* And the output of the cell has been copied from it, also of a figure    *)
(* that is closed or removed, with the two exceptions that the property    *)
(* names.                                                                  *)
THEOREM OutputIsSaved == FigureSpec => []OutputSaved
<1>1. FigureTyped /\ FigureInv /\ OutputKept => OutputSaved
  <2> SUFFICES ASSUME FigureTyped, FigureInv, OutputKept,
                      AtRest, timers = 0, cell = "found", ~overtaken
               PROVE  output = canvas.shows \/ (~kernel.open /\ canvas.shows = Blank)
    BY DEF OutputSaved
  <2>1. CASE kernel.open
    <3>1. OutputComes
      BY <2>1, FigureInvParts
    <3>2. \A A : ~Some(toBrowser, A) /\ ~Some(toKernel, A)
      BY WithNone DEF AtRest
    <3> QED
      BY <3>1, <3>2 DEF OutputComes
  <2>2. CASE ~kernel.open
    BY <2>2 DEF OutputKept
  <2> QED
    BY <2>1, <2>2
<1> QED
  BY <1>1, FigureInductive, PTL
=============================================================================
