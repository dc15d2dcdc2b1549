----------------------------- MODULE Visualizer -----------------------------
(***************************************************************************)
(* visualizer/: the board (dns_sim.ino) sends lines "url, count"; a thread *)
(* (serial_reader.py) reads one line, pushes it to the database, exports   *)
(* the list to data.csv and sleeps; the plot (visualizer.py) reads the     *)
(* file from the main thread.  The window may be closed, which leaves the  *)
(* thread and its port alive, the program killed, and started again.       *)
(***************************************************************************)
EXTENDS Database, SequencesExt

CONSTANTS
    Names,         \* of the board
    Other,         \* every url that is not one of Names
    Digits,        \* the counts of the board, one digit each
    BufferTokens,  \* of the serial driver
    MaxLines, MaxRuns,
    FirstFile      \* what data.csv may hold when the program first starts

ASSUME VisualizerAssumption ==
    Names \cup {Other} = Urls /\ Digits \subseteq {"0", "1", "2"}

VARIABLES
    sending, sent,   \* the rest of the line that the board sends; lines so far
    buffer,          \* tokens received and not read
    reader,          \* the thread that has the port, or the last that had it
    file, plotted,
    plot,            \* the window
    runs,
    exported         \* the last whole export

readerVars == <<buffer, reader>>
plotVars   == <<plotted, plot, runs>>
vars == <<dbVars, sending, sent, readerVars, file, exported, plotVars>>

Init ==
    /\ DbInit
    /\ sending = <<>> /\ sent = 0 /\ buffer = <<>> /\ reader = "setup"
    /\ file \in FirstFile /\ exported = file
    /\ plotted = <<>> /\ plot = "starting" /\ runs = 1

-----------------------------------------------------------------------------
(* The board and the serial driver.  A token is what is kept or lost.      *)

PortOpen == reader \notin {"setup", "dead"}

StartLine ==
    /\ sending = <<>> /\ sent < MaxLines
    /\ \E name \in Names, digit \in Digits : sending' = <<name, ", ", digit, "nl">>
    /\ sent' = sent + 1
    /\ UNCHANGED <<dbVars, readerVars, file, exported, plotVars>>

SendToken ==
    /\ sending # <<>>
    /\ sending' = Tail(sending)
    /\ buffer' = IF PortOpen /\ Len(buffer) < BufferTokens
                 THEN Append(buffer, Head(sending)) ELSE buffer
    /\ UNCHANGED <<dbVars, sent, reader, file, exported, plotVars>>

-----------------------------------------------------------------------------
(* The thread of the reader.  An exception ends it.                        *)

Setup ==
    /\ reader = "setup"
    /\ reader' \in {"readline", "dead"} /\ buffer' = <<>>
    /\ UNCHANGED <<dbVars, sending, sent, file, exported, plotVars>>

(* readline() returns at a newline, or what there is after 0.1 s.          *)
LineEnd ==
    LET ends == {i \in DOMAIN buffer : buffer[i] = "nl"}
    IN  IF ends = {} THEN Len(buffer) ELSE Min(ends)

(* strip(): a newline goes, and the blank of a separator at the end.       *)
Text       == SelectSeq(SubSeq(buffer, 1, LineEnd), LAMBDA t : t # "nl")
Separators == {i \in DOMAIN Text : Text[i] = ", " /\ i < Len(Text)} \cup {Len(Text) + 1}
FieldEnd(start) == Min({i \in Separators : i >= start}) - 1
UrlField   == SubSeq(Text, 1, FieldEnd(1))
CountField == SubSeq(Text, Len(UrlField) + 2, FieldEnd(Len(UrlField) + 2))

Readable ==
    /\ Len(UrlField) < Len(Text)
    /\ CountField # <<>> /\ Range(CountField) \subseteq Digits

UrlRead   == IF Len(UrlField) = 1 /\ UrlField[1] \in Names THEN UrlField[1] ELSE Other
DigitValue == [d \in {"0", "1", "2"} |-> CASE d = "0" -> 0 [] d = "1" -> 1 [] OTHER -> 2]
CountRead == FoldLeft(LAMBDA value, d : 10 * value + DigitValue[d], 0, CountField)

ReadLine ==
    /\ reader = "readline" /\ buffer # <<>>
    /\ buffer' = SubSeq(buffer, LineEnd + 1, Len(buffer))
    /\ IF Readable
         THEN Push(UrlRead, CountRead) /\ reader' = "export"
         ELSE UNCHANGED dbVars /\ reader' = "dead"
    /\ UNCHANGED <<sending, sent, file, exported, plotVars>>

(* export(): opening the file truncates it; what is written is in it when  *)
(* the file is closed, all at once as long as it fits the buffer.          *)
OpenFile ==
    /\ reader = "export"
    /\ file' = <<>> /\ reader' = "write"
    /\ UNCHANGED <<dbVars, sending, sent, buffer, exported, plotVars>>


CloseFile ==
    /\ reader = "write"
    /\ file' = most_accessed /\ exported' = most_accessed /\ reader' = "sleep"
    /\ UNCHANGED <<dbVars, sending, sent, buffer, plotVars>>

Wake ==
    /\ reader = "sleep" /\ reader' = "readline"
    /\ UNCHANGED <<dbVars, sending, sent, buffer, file, exported, plotVars>>

-----------------------------------------------------------------------------
(* The plot.  update() clears the axes and then reads.  An empty file is   *)
(* an exception: in the first drawing the animation does not begin; later  *)
(* the timer of the toolkit goes on or stops.                              *)

(* Mutant: the plot reads the list of the other thread.                    *)
MutDraw ==
    /\ plot \in {"starting", "running"} /\ most_accessed # <<>>
    /\ plotted' = most_accessed /\ plot' = "running"
    /\ UNCHANGED <<dbVars, sending, sent, readerVars, file, exported, runs>>

Draw ==
    /\ plot \in {"starting", "running"} /\ file # <<>>
    /\ plotted' = file /\ plot' = "running"
    /\ UNCHANGED <<dbVars, sending, sent, readerVars, file, exported, runs>>

DrawFails ==
    /\ plot \in {"starting", "running"} /\ file = <<>>
    /\ plotted' = <<>>
    /\ plot' \in {"stopped"} \cup ({plot} \ {"starting"})
    /\ UNCHANGED <<dbVars, sending, sent, readerVars, file, exported, runs>>

(* The thread is no daemon: it outlives the window.                        *)
CloseWindow ==
    /\ plot # "closed"
    /\ plot' = "closed" /\ plotted' = <<>>
    /\ UNCHANGED <<dbVars, sending, sent, readerVars, file, exported, runs>>

Kill ==
    /\ reader' = "dead" /\ buffer' = <<>>
    /\ plot' = "closed" /\ plotted' = <<>>
    /\ UNCHANGED <<dbVars, sending, sent, file, exported, runs>>

(* The thread of a second program finds the port taken, and dies, as long  *)
(* as the first one has it.                                                *)
Rerun ==
    /\ plot = "closed" /\ runs < MaxRuns
    /\ runs' = runs + 1 /\ plot' = "starting"
    /\ IF PortOpen
         THEN UNCHANGED <<dbVars, reader>>
         ELSE /\ reader' = "setup"
              /\ most_accessed' = <<>> /\ bottom_top_n' = 0
              /\ latest' = [u \in Urls |-> 0] /\ totals' = TRUE
    /\ UNCHANGED <<sending, sent, buffer, file, exported, plotted>>

-----------------------------------------------------------------------------
Next ==
    \/ StartLine \/ SendToken
    \/ Setup \/ ReadLine \/ OpenFile \/ CloseFile \/ Wake
    \/ Draw \/ DrawFails \/ CloseWindow \/ Kill \/ Rerun

(* A file that is open is closed within microseconds.  The plot is redrawn *)
(* every 0.5 s and the thread sleeps 5 s between two exports, so that not  *)
(* every redrawing falls between the truncation and the close.             *)
Spec == Init /\ [][Next]_vars /\ WF_vars(CloseFile) /\ SF_vars(Draw)

(* What is drawn is nothing or the last whole export: never a list that is *)
(* pushed and not exported, and never half a file (Database.export,        *)
(* Visualizer.fread).                                                      *)
PlotIsAnExport == [][plotted' # plotted => plotted' \in {<<>>, exported}]_vars


=============================================================================
