----------------------------- MODULE LoggedClient -----------------------------
(***************************************************************************)
(* The run of a client (ClientProcess) together with the two pipes that    *)
(* start_logging_subprocess (utils.py) puts between the client's stdout    *)
(* and stderr and the log.                                                 *)
(*                                                                         *)
(* A thread for each pipe reads it line by line and decodes the line as    *)
(* ASCII; a line that is not ends the thread with an exception.  Nobody    *)
(* reads the pipe any more, and a client that fills it waits in its write, *)
(* as run_test does for the client.                                        *)
(*                                                                         *)
(* A stream is the sequence of its lines, of which sent[s] are written and *)
(* read[s] are read; those between them are in the pipe.                   *)
(***************************************************************************)
EXTENDS ClientProcess, Sequences

CONSTANTS
    Streams,    \* stdout and stderr
    Outputs,    \* what clients write: for each stream its lines
    Capacity    \* of a pipe, in lines

ASSUME PipeAssumption == /\ Capacity \in Nat \ {0}
                         /\ \A o \in Outputs : o \in [Streams -> Seq({"ascii", "other"})]

VARIABLES
    lines,     \* what this client writes
    sent, read, logged,
    reader     \* reader[s]: the thread of _log_output, reading, ended or dead

pipes == <<lines, sent, read, logged, reader>>
allVars == <<vars, pipes>>

LoggedInit == /\ Init
              /\ lines \in Outputs
              /\ sent = [s \in Streams |-> 0]
              /\ read = [s \in Streams |-> 0]
              /\ logged = [s \in Streams |-> 0]
              /\ reader = [s \in Streams |-> "reading"]

-----------------------------------------------------------------------------
(* The client writes a line, when there is room for it.                    *)
Write(s) == /\ child = "running"
            /\ sent[s] < Len(lines[s])
            /\ sent[s] - read[s] < Capacity
            /\ sent' = [sent EXCEPT ![s] = @ + 1]
            /\ UNCHANGED <<vars, lines, read, logged, reader>>

\* Fault: the thread ends with the child, whatever is left in the pipe.
LogOutputUntilExit(s) ==
    /\ reader[s] = "reading"
    /\ IF child # "running"
       THEN reader' = [reader EXCEPT ![s] = "ended"] /\ UNCHANGED <<read, logged>>
       ELSE /\ read[s] < sent[s]
            /\ read' = [read EXCEPT ![s] = @ + 1]
            /\ logged' = [logged EXCEPT ![s] = @ + 1]
            /\ UNCHANGED reader
    /\ UNCHANGED <<vars, lines, sent>>

\* Fault: what cannot be decoded is put aside and the pipe not read until the client ends.
LogOutputWaits(s) ==
    /\ reader[s] = "reading"
    /\ read[s] < sent[s]
    /\ lines[s][read[s] + 1] = "ascii" \/ child # "running"
    /\ read' = [read EXCEPT ![s] = @ + 1]
    /\ logged' = [logged EXCEPT ![s] = @ + 1]
    /\ UNCHANGED <<vars, lines, sent, reader>>

(* One line is read and logged; readline gives b'' when the pipe is empty  *)
(* and nobody can write to it any more.                                    *)
_log_output(s) ==
    /\ reader[s] = "reading"
    /\ \/ /\ read[s] < sent[s]
          /\ read' = [read EXCEPT ![s] = @ + 1]
          /\ IF lines[s][read[s] + 1] = "ascii"
             THEN logged' = [logged EXCEPT ![s] = @ + 1] /\ UNCHANGED reader
             ELSE reader' = [reader EXCEPT ![s] = "dead"] /\ UNCHANGED logged
       \/ /\ read[s] = sent[s] /\ child # "running"
          /\ reader' = [reader EXCEPT ![s] = "ended"]
          /\ UNCHANGED <<read, logged>>
    /\ UNCHANGED <<vars, lines, sent>>

(* A client that has written all its lines may end.                        *)
Finish == /\ \A s \in Streams : sent[s] = Len(lines[s])
          /\ ChildExit
          /\ UNCHANGED pipes

ClientStep == Finish \/ \E s \in Streams : Write(s)

LoggedNext == \/ Next /\ UNCHANGED pipes
              \/ \E s \in Streams : Write(s) \/ _log_output(s)

(* The threads are scheduled, also those of the pipes; the client goes on  *)
(* when it can, and when it has written everything ends.  It may die any   *)
(* time.                                                                   *)
LoggedSpec == /\ LoggedInit /\ [][LoggedNext]_allVars
              /\ WF_allVars(MainStep /\ UNCHANGED pipes)
              /\ WF_allVars(RtStep /\ UNCHANGED pipes)
              /\ WF_allVars(ListStep /\ UNCHANGED pipes)
              /\ \A s \in Streams : WF_allVars(_log_output(s))
              /\ WF_allVars(ClientStep)

-----------------------------------------------------------------------------
(* PROPERTIES *)

(* A thread that has reached the end of its pipe has logged every line the *)
(* client ever wrote to it; a dead one every line before the one it could  *)
(* not decode (utils.py 38-42).                                            *)
LogComplete ==
    \A s \in Streams :
        /\ reader[s] = "ended" => child # "running" /\ logged[s] = sent[s]
        /\ reader[s] = "dead" => logged[s] = read[s] - 1

(* The lines behind the first that is not ASCII fit into the pipe.         *)
Fits(s) == \A k \in 1 .. Len(lines[s]) :
               lines[s][k] = "other" => Len(lines[s]) - k <= Capacity

(* run_test ends once the client has exited, and no sampler keeps the lock *)
(* from it; and that the client exits depends on the log.  It can write    *)
(* all its lines, in whichever order it fills the pipes, if they are ASCII *)
(* or few enough follow one that is not.  (A client that writes more may   *)
(* wait in its write, and run_test with it.)                               *)
LoggedRunEnds == (\A s \in Streams : Fits(s)) \/ <>(child # "running")
                     => <>(main \in {"returned", "no_program", "no_clock"})
=============================================================================
