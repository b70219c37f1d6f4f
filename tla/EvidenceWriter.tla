---------------------------- MODULE EvidenceWriter ----------------------------
(***************************************************************************)
(* EvidenceWriter and EvidenceWriterV3 of native/src/runtime/evidence.cpp: *)
(* how one event becomes an image, a row of the v2 CSV report and, for a   *)
(* PPE violation, a line of the v3 report, in files that outlive the       *)
(* process.  Any step may fail, an append may be cut short, and the        *)
(* process may die between and inside the steps and be started again.      *)
(*                                                                         *)
(* A report is a sequence of lines.  Its last line is torn when it lacks   *)
(* its newline: the next append continues it.  A line that is neither the  *)
(* header nor one whole record is "broken".                                *)
(*                                                                         *)
(* The caller is the monitor loop in synchronous mode, which goes on after *)
(* a failure, or the worker of EvidenceWriterQueue, which does not.        *)
(***************************************************************************)
EXTENDS Integers, Sequences, FiniteSets

CONSTANTS
    Events,    \* the events detected, over all runs
    PpeEvents, \* those of type ppe.violation.v2
    NoEvent,   \* no event in hand
    RunBound   \* bound: starts of the process

ASSUME WriterAssumption ==
    /\ PpeEvents \subseteq Events
    /\ {"header", "broken", NoEvent} \cap Events = {}
    /\ RunBound \in Nat

VARIABLES
    synchronous, \* evidence_writer_queue_capacity = 0: constant
    \* The files.
    csv,         \* lines of Reporte_Eventos_Seguridad_v2.csv
    csvTorn,     \* its last line lacks the newline
    jsonl,       \* lines of Reporte_Eventos_Seguridad_v3.jsonl
    jsonlTorn,
    images,      \* the events whose final JPEG is in Evidencias
    temps,       \* the events whose temporary JPEG is there
    \* The process.
    position,    \* where it is in append
    event,       \* the event in hand
    healthy,     \* not the terminal failure of the queue
    \* History.
    runs,        \* starts of the process
    begun,       \* the events append was called for
    written,     \* the events counted as written
    cuts,        \* appends to the CSV that were cut short
    headerCut,   \* one of them was to write the header
    strays       \* the events whose temporary could not be removed

files == <<csv, csvTorn, jsonl, jsonlTorn, images, temps>>
process == <<position, event, healthy>>
history == <<runs, begun, written, cuts, headerCut, strays>>
vars == <<synchronous, files, process, history>>

Positions == {"down", "refused", "idle", "image", "rename", "row", "line"}

Lines == Events \cup {"header", "broken"}

Init ==
    /\ synchronous \in BOOLEAN
    /\ csv = <<>> /\ csvTorn = FALSE
    /\ jsonl = <<>> /\ jsonlTorn = FALSE
    /\ images = {} /\ temps = {}
    /\ position = "down" /\ event = NoEvent /\ healthy = TRUE
    /\ runs = 0 /\ begun = {} /\ written = {} /\ cuts = 0
    /\ headerCut = FALSE /\ strays = {}

-----------------------------------------------------------------------------
(* Reports. *)

Records(lines) == {lines[i] : i \in DOMAIN lines} \cap Events

\* (Fault: a header goes before every row.)
NewLinesAlwaysHeader(lines, e) == <<"header", e>>

\* What appendDurably hands to the file: the header goes before the first row.
NewLines(lines, e) == IF lines = <<>> THEN <<"header", e>> ELSE <<e>>

\* Bytes are appended as they are: a torn last line is continued.
Join(lines, torn, new) ==
    IF torn
    THEN [lines EXCEPT ![Len(lines)] = "broken"] \o Tail(new)
    ELSE lines \o new

\* The reports an append that was cut short may leave: the first n new lines
\* whole, and then possibly a part of the next one, which may be all of it but
\* its newline.
CutShort(lines, torn, new) ==
    LET part(n) == Join(lines, torn, SubSeq(new, 1, n))
        tail(n) == IF new[n + 1] = "header" THEN {"header", "broken"}
                   ELSE {"broken"}
    IN {[lines |-> lines, torn |-> torn]}
       \cup {[lines |-> part(n), torn |-> FALSE] : n \in 1..(Len(new) - 1)}
       \cup (UNION {{[lines |-> Join(part(n), FALSE, <<l>>), torn |-> TRUE] :
                        l \in tail(n)} : n \in 1..(Len(new) - 1)})
       \cup IF torn
            THEN {[lines |-> [lines EXCEPT ![Len(lines)] = "broken"],
                   torn |-> TRUE]}
            ELSE {[lines |-> Append(lines, l), torn |-> TRUE] : l \in tail(0)}

AppendCsv ==
    /\ csv' = Join(csv, csvTorn, NewLines(csv, event))
    /\ csvTorn' = FALSE
    /\ UNCHANGED <<cuts, headerCut>>

CutCsv ==
    \E cut \in CutShort(csv, csvTorn, NewLines(csv, event)) :
        /\ csv' = cut.lines
        /\ csvTorn' = cut.torn
        /\ IF cut.lines = csv /\ cut.torn = csvTorn
           THEN UNCHANGED <<cuts, headerCut>>
           ELSE /\ cuts' = cuts + 1
                /\ headerCut' = (headerCut \/ csv = <<>>)

AppendJsonl ==
    /\ jsonl' = Join(jsonl, jsonlTorn, <<event>>)
    /\ jsonlTorn' = FALSE

CutJsonl ==
    \E cut \in CutShort(jsonl, jsonlTorn, <<event>>) :
        /\ jsonl' = cut.lines
        /\ jsonlTorn' = cut.torn

-----------------------------------------------------------------------------
(* The process. *)

\* The constructors: an existing report must begin with the header.  The
\* check reads a line, with or without its newline.
Start ==
    /\ position = "down" /\ runs < RunBound
    /\ runs' = runs + 1
    /\ healthy' = TRUE
    /\ position' = IF csv = <<>> \/ csv[1] = "header" THEN "idle" ELSE "refused"
    /\ UNCHANGED <<synchronous, files, event, begun, written, cuts, headerCut,
                   strays>>

Begin(e) ==
    /\ position = "idle" /\ healthy
    /\ e \notin begun
    /\ begun' = begun \cup {e}
    /\ event' = e
    /\ position' = "image"
    /\ UNCHANGED <<synchronous, files, healthy, runs, written, cuts, headerCut,
                   strays>>

\* The exception reaches the caller: the monitor logs it and goes on, the
\* worker of the queue becomes terminal.
Fail ==
    /\ position' = "idle"
    /\ event' = NoEvent
    /\ healthy' = synchronous

WriteTemporary ==
    /\ position = "image"
    /\ temps' = temps \cup {event}
    /\ position' = "rename"
    /\ UNCHANGED <<synchronous, csv, csvTorn, jsonl, jsonlTorn, images, event,
                   healthy, history>>

\* (Fault: the temporary is not removed when the image fails.)
FailImageLeaving ==
    /\ position \in {"image", "rename"}
    /\ Fail
    /\ UNCHANGED <<synchronous, files, history>>

\* The encoder, the flush or the rename fails: the temporary is removed, if
\* that is possible.
FailImage ==
    /\ position \in {"image", "rename"}
    /\ Fail
    /\ \/ temps' = temps \ {event} /\ UNCHANGED strays
       \/ temps' = temps \cup {event} /\ strays' = strays \cup {event}
    /\ UNCHANGED <<synchronous, csv, csvTorn, jsonl, jsonlTorn, images, runs,
                   begun, written, cuts, headerCut>>

\* (Fault: the row is appended before the image has its final name.)
RenameLater ==
    /\ position = "rename"
    /\ position' = "row"
    /\ UNCHANGED <<synchronous, files, event, healthy, history>>

RenameImage ==
    /\ position = "rename"
    /\ temps' = temps \ {event}
    /\ images' = images \cup {event}
    /\ position' = "row"
    /\ UNCHANGED <<synchronous, csv, csvTorn, jsonl, jsonlTorn, event, healthy,
                   history>>

\* append returned for every report the event goes to.
Written ==
    /\ written' = written \cup {event}
    /\ position' = "idle"
    /\ event' = NoEvent

AppendRow ==
    /\ position = "row"
    /\ AppendCsv
    /\ IF event \in PpeEvents
       THEN position' = "line" /\ UNCHANGED <<event, written>>
       ELSE Written
    /\ UNCHANGED <<synchronous, jsonl, jsonlTorn, images, temps, healthy, runs,
                   begun, strays>>

\* The append throws: cut short, or only its flush failed.
FailRow ==
    /\ position = "row"
    /\ AppendCsv \/ CutCsv
    /\ Fail
    /\ UNCHANGED <<synchronous, jsonl, jsonlTorn, images, temps, runs, begun,
                   written, strays>>

AppendLine ==
    /\ position = "line"
    /\ AppendJsonl
    /\ Written
    /\ UNCHANGED <<synchronous, csv, csvTorn, images, temps, healthy, runs,
                   begun, cuts, headerCut, strays>>

FailLine ==
    /\ position = "line"
    /\ AppendJsonl \/ CutJsonl
    /\ Fail
    /\ UNCHANGED <<synchronous, csv, csvTorn, images, temps, runs, begun,
                   written, cuts, headerCut, strays>>

\* The process exits or dies, in the middle of what it was doing.
Exit ==
    /\ position \notin {"down", "refused"}
    /\ position' = "down"
    /\ event' = NoEvent
    /\ IF position = "row"
       THEN AppendCsv \/ CutCsv
       ELSE UNCHANGED <<csv, csvTorn, cuts, headerCut>>
    /\ IF position = "line"
       THEN AppendJsonl \/ CutJsonl
       ELSE UNCHANGED <<jsonl, jsonlTorn>>
    /\ IF position \in {"image", "rename"}
       THEN /\ temps' \in {temps, temps \cup {event}}
            /\ strays' = strays \cup {event}
       ELSE UNCHANGED <<temps, strays>>
    /\ UNCHANGED <<synchronous, images, healthy, runs, begun, written>>

Terminated ==
    /\ position \in {"down", "refused"}
    /\ UNCHANGED vars

Next ==
    \/ Start
    \/ \E e \in Events : Begin(e)
    \/ WriteTemporary \/ FailImage \/ RenameImage
    \/ AppendRow \/ FailRow \/ AppendLine \/ FailLine
    \/ Exit
    \/ Terminated

Spec == Init /\ [][Next]_vars

-----------------------------------------------------------------------------
(* Safety. *)

\* No row without its photo: every event the reports name has its final image,
\* whatever failed and wherever the process died.
RecordHasImage == Records(csv) \cup Records(jsonl) \subseteq images

\* The header is the first line of the report and no other one, also when
\* appends were cut short and the process was started again.
HeaderOnlyFirst == \A i \in DOMAIN csv : csv[i] = "header" => i = 1

\* An append that was cut short costs at most one event counted as written
\* later on: the one whose row continues the torn line.
LossIsBounded == Cardinality(written \ Records(csv)) <= cuts

\* An existing report keeps the program from starting only if the append that
\* was to write its header was cut short.
RefusedOnlyAfterCutHeader == position = "refused" => headerCut

\* Whatever was cut short, and however often the program was started again: the
\* reports keep their form, what a cut costs is bounded, and only a cut header
\* makes a report unusable.
ReportsAreReadable == HeaderOnlyFirst /\ LossIsBounded /\ RefusedOnlyAfterCutHeader

\* A temporary image is left behind only by a process that died while it
\* wrote it, or that could not remove it.
StraysAreExplained ==
    temps \ strays \subseteq IF position = "rename" THEN {event} ELSE {}
=============================================================================
