------------------------ MODULE EvidenceWriterProofs ------------------------
(***************************************************************************)
(* What the evidence writer leaves on disk, for any events, any number of  *)
(* restarts, and failures, cut-short appends and deaths of the process     *)
(* wherever they may fall.                                                 *)
(***************************************************************************)
EXTENDS EvidenceWriter, FiniteSetTheorems, SequenceTheorems, TLAPS

\* The report whose last line was continued by other bytes.
Broken(lines) == [lines EXCEPT ![Len(lines)] = "broken"]

-----------------------------------------------------------------------------
(* Lines and records. *)

(* The words that are no events. *)
LEMMA Words ==
    /\ "header" \notin Events /\ "broken" \notin Events /\ NoEvent \notin Events
    /\ "header" \in Lines /\ "broken" \in Lines /\ Events \subseteq Lines
  BY WriterAssumption DEF Lines

(* A new line adds its record, if it is one. *)
LEMMA RecordsAppend ==
    ASSUME NEW lines \in Seq(Lines), NEW l \in Lines
    PROVE  /\ Append(lines, l) \in Seq(Lines)
           /\ Records(Append(lines, l)) = Records(lines) \cup ({l} \cap Events)
<1>1. /\ DOMAIN lines = 1..Len(lines) /\ Len(lines) \in Nat
      /\ DOMAIN Append(lines, l) = 1..(Len(lines) + 1)
      /\ \A i \in 1..Len(lines) : Append(lines, l)[i] = lines[i]
      /\ Append(lines, l)[Len(lines) + 1] = l
      /\ Append(lines, l) \in Seq(Lines)
  OBVIOUS
<1>2. \A i : i \in 1..(Len(lines) + 1) <=> i \in 1..Len(lines) \/ i = Len(lines) + 1
  BY <1>1
<1>3. QED
  BY <1>1, <1>2 DEF Records

(* A broken last line keeps the others, and loses no record but its own. *)
LEMMA BrokenLine ==
    ASSUME NEW lines \in Seq(Lines), lines # <<>>
    PROVE  /\ Broken(lines) \in Seq(Lines) /\ Len(Broken(lines)) = Len(lines)
           /\ Broken(lines)[Len(lines)] = "broken" /\ Broken(lines) # <<>>
           /\ \A i \in 1..Len(lines) : i # Len(lines) => Broken(lines)[i] = lines[i]
           /\ Records(Broken(lines)) \subseteq Records(lines)
           /\ lines[Len(lines)] \notin Events => Records(Broken(lines)) = Records(lines)
<1>1. DOMAIN lines = 1..Len(lines) /\ Len(lines) \in Nat \ {0}
  OBVIOUS
<1>2. /\ Broken(lines) \in Seq(Lines) /\ Len(Broken(lines)) = Len(lines)
      /\ DOMAIN Broken(lines) = 1..Len(lines)
      /\ \A i \in 1..Len(lines) :
            Broken(lines)[i] = IF i = Len(lines) THEN "broken" ELSE lines[i]
  BY <1>1, Words DEF Broken
<1>3. Len(lines) \in 1..Len(lines)
  BY <1>1
<1>4. Broken(lines) # <<>>
  BY <1>1, <1>2
<1>5. Records(Broken(lines)) \subseteq Records(lines)
  BY <1>1, <1>2, Words DEF Records
<1>6. ASSUME lines[Len(lines)] \notin Events
      PROVE  Records(lines) \subseteq Records(Broken(lines))
  BY <1>1, <1>2, <1>6 DEF Records
<1>7. QED
  BY <1>2, <1>3, <1>4, <1>5, <1>6

(* One record is appended, or continues the torn line. *)
LEMMA JoinOne ==
    ASSUME NEW lines \in Seq(Lines), NEW torn \in BOOLEAN, torn => lines # <<>>,
           NEW e \in Events
    PROVE  Join(lines, torn, <<e>>) = IF torn THEN Broken(lines) ELSE Append(lines, e)
<1>1. CASE torn
  <2>1. Tail(<<e>>) = <<>>
    OBVIOUS
  <2>2. Broken(lines) \in Seq(Lines)
    BY <1>1, BrokenLine
  <2>3. Broken(lines) \o <<>> = Broken(lines)
    BY <2>2
  <2>4. QED
    BY <1>1, <2>1, <2>3 DEF Join, Broken
<1>2. CASE ~torn
  BY <1>2 DEF Join
<1>3. QED
  BY <1>1, <1>2

(* The lines of which a part may follow the first n new ones. *)
Part(new, n) == IF new[n + 1] = "header" THEN {"header", "broken"} ELSE {"broken"}

(* The reports an append that was cut short may leave, one by one. *)
CutForm(lines, torn, new, cut) ==
    \/ cut = [lines |-> lines, torn |-> torn]
    \/ \E n \in 1..(Len(new) - 1) :
          cut = [lines |-> Join(lines, torn, SubSeq(new, 1, n)), torn |-> FALSE]
    \/ \E n \in 1..(Len(new) - 1) : \E l \in Part(new, n) :
          cut = [lines |-> Join(Join(lines, torn, SubSeq(new, 1, n)), FALSE, <<l>>),
                 torn |-> TRUE]
    \/ torn /\ cut = [lines |-> Broken(lines), torn |-> TRUE]
    \/ ~torn /\ \E l \in Part(new, 0) : cut = [lines |-> Append(lines, l), torn |-> TRUE]

(* There are no others. *)
LEMMA CutCases ==
    ASSUME NEW lines, NEW torn \in BOOLEAN, NEW new, NEW cut \in CutShort(lines, torn, new)
    PROVE  CutForm(lines, torn, new, cut)
<1> DEFINE N == 1..(Len(new) - 1)
           P(n) == Join(lines, torn, SubSeq(new, 1, n))
           Q(n, l) == [lines |-> Join(P(n), FALSE, <<l>>), torn |-> TRUE]
           A == {[lines |-> P(n), torn |-> FALSE] : n \in N}
           B == UNION {{Q(n, l) : l \in Part(new, n)} : n \in N}
           C == IF torn THEN {[lines |-> Broken(lines), torn |-> TRUE]}
                ELSE {[lines |-> Append(lines, l), torn |-> TRUE] : l \in Part(new, 0)}
<1>1. CutShort(lines, torn, new) = {[lines |-> lines, torn |-> torn]} \cup A \cup B \cup C
  BY DEF CutShort, Part, Broken
<1>2. cut \in B => \E n \in N : \E l \in Part(new, n) : cut = Q(n, l)
  <2> HIDE DEF N, Q
  <2>1. QED
    OBVIOUS
<1>3. cut \in A => \E n \in N : cut = [lines |-> P(n), torn |-> FALSE]
  <2> HIDE DEF N, P
  <2>1. QED
    OBVIOUS
<1>4. cut \in C => \/ torn /\ cut = [lines |-> Broken(lines), torn |-> TRUE]
                   \/ ~torn /\ \E l \in Part(new, 0) :
                                   cut = [lines |-> Append(lines, l), torn |-> TRUE]
  OBVIOUS
<1>5. \/ cut = [lines |-> lines, torn |-> torn]
      \/ cut \in A \/ cut \in B \/ cut \in C
  <2> HIDE DEF A, B, C
  <2>1. QED
    BY <1>1
<1>6. QED
  BY <1>2, <1>3, <1>4, <1>5 DEF CutForm

(* What one record leaves when its append is cut short. *)
LEMMA CutOne ==
    ASSUME NEW lines \in Seq(Lines), NEW torn \in BOOLEAN, torn => lines # <<>>,
           NEW e \in Events, NEW cut \in CutShort(lines, torn, <<e>>)
    PROVE  \/ cut.lines = lines /\ cut.torn = torn
           \/ torn /\ cut.lines = Broken(lines) /\ cut.torn = TRUE
           \/ ~torn /\ cut.lines = Append(lines, "broken") /\ cut.torn = TRUE
<1>1. Len(<<e>>) - 1 = 0 /\ <<e>>[0 + 1] = e /\ e # "header"
  BY Words
<1>2. 1..(Len(<<e>>) - 1) = {}
  BY <1>1
<1>3. \/ cut = [lines |-> lines, torn |-> torn]
      \/ torn /\ cut = [lines |-> Broken(lines), torn |-> TRUE]
      \/ ~torn /\ \E l \in {"broken"} : cut = [lines |-> Append(lines, l), torn |-> TRUE]
  BY <1>1, <1>2, CutCases DEF CutForm, Part
<1>4. QED
  BY <1>3

(* What the header and the first record leave when their append is cut short. *)
LEMMA CutFirst ==
    ASSUME NEW lines, lines = <<>>, NEW torn \in BOOLEAN, ~torn, NEW e \in Events,
           NEW new, new = <<"header", e>>, NEW cut \in CutShort(lines, torn, new)
    PROVE  \/ cut.lines = <<>> /\ cut.torn = FALSE
           \/ cut.lines = <<"header">> /\ cut.torn \in BOOLEAN
           \/ cut.lines \in {<<"broken">>, <<"header", "broken">>} /\ cut.torn = TRUE
<1> DEFINE one == SubSeq(new, 1, 1)
<1>1. Len(new) - 1 = 1 /\ new[0 + 1] = "header" /\ new[1 + 1] = e /\ e # "header"
      /\ new[1] = "header"
  BY Words
<1>2. 1..(Len(new) - 1) = {1}
  BY <1>1
<1>3. one = <<"header">>
  <2>1. \A i \in 1..1 : new[i] \in Lines
    BY <1>1, Words
  <2>2. /\ one \in Seq(Lines)
        /\ Len(one) = (IF 1 <= 1 THEN 1 - 1 + 1 ELSE 0)
        /\ \A i \in 1..(1 - 1 + 1) : one[i] = new[1 + i - 1]
    BY <2>1, SubSeqProperties
  <2>3. Len(one) = 1 /\ one[1] = "header"
    <3>1. Len(one) = 1 /\ one[1] = new[1 + 1 - 1]
      BY <2>2
    <3>2. QED
      BY <3>1, <1>1
  <2>4. <<"header">> \in Seq(Lines) /\ Len(<<"header">>) = 1 /\ <<"header">>[1] = "header"
    BY Words
  <2> HIDE DEF one
  <2>5. \A i \in 1..Len(one) : one[i] = <<"header">>[i]
    BY <2>3, <2>4
  <2>6. QED
    BY <2>2, <2>3, <2>4, <2>5, SeqEqual
<1>4. ASSUME NEW l \in Lines
      PROVE  <<"header">> \o <<l>> = <<"header", l>> /\ Append(<<>>, l) = <<l>>
             /\ <<>> \o <<l>> = <<l>>
  <2>1. <<>> \in Seq(Lines) /\ <<l>> \in Seq(Lines) /\ <<"header">> \in Seq(Lines)
        /\ <<"header", l>> \in Seq(Lines)
    BY Words
  <2>2. <<>> \o <<l>> = <<l>>
    BY <2>1, ConcatEmptySeq
  <2>3. <<"header">> \o <<l>> = <<"header", l>>
    <3> DEFINE s == <<"header">>  t == <<l>>  u == <<"header", l>>
    <3>1. Len(s) = 1 /\ s[1] = "header" /\ Len(t) = 1 /\ t[1] = l
          /\ Len(u) = 2 /\ u[1] = "header" /\ u[2] = l
      OBVIOUS
    <3>2. s \in Seq(Lines) /\ t \in Seq(Lines) /\ u \in Seq(Lines)
      BY <2>1
    <3> HIDE DEF s, t, u
    <3>3. /\ s \o t \in Seq(Lines)
          /\ Len(s \o t) = Len(s) + Len(t)
          /\ \A i \in 1..(Len(s) + Len(t)) :
                (s \o t)[i] = IF i <= Len(s) THEN s[i] ELSE t[i - Len(s)]
      BY <3>2, ConcatProperties
    <3>4. Len(s \o t) = 2 /\ (s \o t)[1] = "header" /\ (s \o t)[2] = l
      BY <3>1, <3>3
    <3>5. \A i \in 1..2 : (s \o t)[i] = u[i]
      BY <3>1, <3>4
    <3>6. s \o t = u
      BY <3>1, <3>2, <3>3, <3>4, <3>5, SeqEqual
    <3>7. QED
      BY <3>6 DEF s, t, u
  <2>4. Append(<<>>, l) = <<l>>
    OBVIOUS
  <2>5. QED
    BY <2>2, <2>3, <2>4
<1>5. Join(<<>>, FALSE, one) = <<"header">>
  <2>1. <<>> \o <<"header">> = <<"header">>
    BY <1>4, Words
  <2>2. QED
    BY <1>3, <2>1 DEF Join
<1>6. Join(<<"header">>, FALSE, <<"broken">>) = <<"header", "broken">>
  BY <1>4, Words DEF Join
<1>8. \/ cut = [lines |-> <<>>, torn |-> FALSE]
      \/ \E n \in {1} : cut = [lines |-> Join(<<>>, FALSE, SubSeq(new, 1, n)), torn |-> FALSE]
      \/ \E n \in {1} : \E l \in Part(new, n) :
            cut = [lines |-> Join(Join(<<>>, FALSE, SubSeq(new, 1, n)), FALSE, <<l>>),
                   torn |-> TRUE]
      \/ \E l \in Part(new, 0) : cut = [lines |-> Append(<<>>, l), torn |-> TRUE]
  <2>1. \/ cut = [lines |-> lines, torn |-> torn]
        \/ \E n \in 1..(Len(new) - 1) :
              cut = [lines |-> Join(lines, torn, SubSeq(new, 1, n)), torn |-> FALSE]
        \/ \E n \in 1..(Len(new) - 1) : \E l \in Part(new, n) :
              cut = [lines |-> Join(Join(lines, torn, SubSeq(new, 1, n)), FALSE, <<l>>),
                     torn |-> TRUE]
        \/ torn /\ cut = [lines |-> Broken(lines), torn |-> TRUE]
        \/ ~torn /\ \E l \in Part(new, 0) : cut = [lines |-> Append(lines, l), torn |-> TRUE]
    <3>1. CutForm(lines, torn, new, cut)
      BY CutCases
    <3>2. QED
      BY <3>1, Zenon DEF CutForm
  <2>2. torn = FALSE
    OBVIOUS
  <2>3. QED
    BY <1>2, <2>1, <2>2
<1>9. Part(new, 1) = {"broken"} /\ Part(new, 0) = {"header", "broken"}
  BY <1>1 DEF Part
<1> HIDE DEF Part
<1>10. \/ cut = [lines |-> <<>>, torn |-> FALSE]
       \/ cut = [lines |-> <<"header">>, torn |-> FALSE]
       \/ cut = [lines |-> <<"header", "broken">>, torn |-> TRUE]
       \/ \E l \in {"header", "broken"} : cut = [lines |-> <<l>>, torn |-> TRUE]
  BY <1>4, <1>5, <1>6, <1>8, <1>9, Words
<1>11. QED
  <2>1. CASE cut = [lines |-> <<>>, torn |-> FALSE]
    BY <2>1
  <2>2. CASE cut = [lines |-> <<"header">>, torn |-> FALSE]
    BY <2>2
  <2>3. CASE cut = [lines |-> <<"header", "broken">>, torn |-> TRUE]
    BY <2>3
  <2>4. CASE \E l \in {"header", "broken"} : cut = [lines |-> <<l>>, torn |-> TRUE]
    BY <2>4
  <2>5. QED
    BY <1>10, <2>1, <2>2, <2>3, <2>4

-----------------------------------------------------------------------------
(* The inductive invariant. *)

WriterTypes ==
    /\ synchronous \in BOOLEAN /\ healthy \in BOOLEAN /\ headerCut \in BOOLEAN
    /\ csv \in Seq(Lines) /\ csvTorn \in BOOLEAN
    /\ jsonl \in Seq(Lines) /\ jsonlTorn \in BOOLEAN
    /\ images \subseteq Events /\ temps \subseteq Events /\ strays \subseteq Events
    /\ begun \subseteq Events /\ written \subseteq Events /\ IsFiniteSet(written)
    /\ position \in Positions
    /\ event \in Events \cup {NoEvent}
    /\ position \in {"image", "rename", "row", "line"} => event \in Events
    /\ runs \in Nat /\ cuts \in Nat
    /\ jsonlTorn => jsonl # <<>>

\* A row follows the image of its event.
ImageInv ==
    /\ RecordHasImage
    /\ position \in {"row", "line"} => event \in images

\* The lines of a report: nothing but a header that was cut short makes it begin
\* with another line or end torn in its first one, and a torn line is no record.
LinesInv(lines, torn, headerLost) ==
    /\ \A i \in DOMAIN lines : lines[i] = "header" => i = 1
    /\ torn => lines # <<>> /\ lines[Len(lines)] \notin Events
    /\ lines # <<>> /\ lines[1] # "header" => headerLost
    /\ torn /\ Len(lines) = 1 => headerLost

HeaderInv ==
    /\ LinesInv(csv, csvTorn, headerCut)
    /\ position = "refused" => headerCut

\* A torn line is a cut that has not yet cost its event.
Tear(torn) == IF torn THEN 1 ELSE 0

\* The events counted as written, or about to be, that have no row.
Lost == (written \cup (IF position = "line" THEN {event} ELSE {})) \ Records(csv)

LossInv == Cardinality(Lost) + Tear(csvTorn) <= cuts

WriterInv == WriterTypes /\ ImageInv /\ HeaderInv /\ LossInv /\ StraysAreExplained

-----------------------------------------------------------------------------
(* What an append does to a report. *)

(* A new line is no header. *)
LEMMA AppendedLines ==
    ASSUME NEW lines \in Seq(Lines), NEW torn \in BOOLEAN, NEW lost \in BOOLEAN,
           LinesInv(lines, torn, lost), lines # <<>>, NEW l \in Lines, l # "header",
           NEW broken \in BOOLEAN, broken => l \notin Events
    PROVE  LinesInv(Append(lines, l), broken, lost)
<1> DEFINE more == Append(lines, l)
<1>1. /\ Len(lines) \in Nat \ {0} /\ DOMAIN lines = 1..Len(lines)
      /\ Len(more) = Len(lines) + 1 /\ DOMAIN more = 1..(Len(lines) + 1)
      /\ \A i \in 1..Len(lines) : more[i] = lines[i]
      /\ more[Len(lines) + 1] = l /\ more \in Seq(Lines)
  OBVIOUS
<1> HIDE DEF more
<1>2. more # <<>> /\ Len(more) # 1 /\ more[Len(more)] = l /\ more[1] = lines[1]
  BY <1>1
<1>3. \A i \in 1..(Len(lines) + 1) : i \in 1..Len(lines) \/ i = Len(lines) + 1
  BY <1>1
<1>4. \A i \in DOMAIN more : more[i] = "header" => i = 1
  BY <1>1, <1>3 DEF LinesInv
<1>5. LinesInv(more, broken, lost)
  BY <1>2, <1>4 DEF LinesInv
<1>6. QED
  BY <1>5 DEF more

(* A line that continues a torn one breaks it, and no header or record with it, *)
(* but for a header that was cut short.                                         *)
LEMMA BrokenLines ==
    ASSUME NEW lines \in Seq(Lines), NEW torn \in BOOLEAN, NEW lost \in BOOLEAN,
           LinesInv(lines, torn, lost), torn, NEW broken \in BOOLEAN
    PROVE  /\ LinesInv(Broken(lines), broken, lost)
           /\ Records(Broken(lines)) = Records(lines)
<1>1. lines # <<>> /\ lines[Len(lines)] \notin Events
  BY DEF LinesInv
<1>2. /\ Broken(lines) \in Seq(Lines) /\ Len(Broken(lines)) = Len(lines)
      /\ Broken(lines)[Len(lines)] = "broken" /\ Broken(lines) # <<>>
      /\ \A i \in 1..Len(lines) : i # Len(lines) => Broken(lines)[i] = lines[i]
      /\ Records(Broken(lines)) = Records(lines)
  BY <1>1, BrokenLine
<1>3. /\ Len(lines) \in Nat \ {0} /\ DOMAIN lines = 1..Len(lines)
      /\ DOMAIN Broken(lines) = 1..Len(lines)
  BY <1>1, <1>2
<1>4. \A i \in 1..Len(lines) : Broken(lines)[i] = "header" => i = 1
  BY <1>2, <1>3 DEF LinesInv
<1>5. Broken(lines)[1] # "header" => lost
  <2>1. CASE Len(lines) = 1
    BY <2>1 DEF LinesInv
  <2>2. CASE Len(lines) # 1
    <3>1. 1 \in 1..Len(lines) /\ 1 # Len(lines)
      BY <1>3, <2>2
    <3>2. Broken(lines)[1] = lines[1]
      BY <1>2, <3>1
    <3>3. QED
      BY <1>1, <3>2 DEF LinesInv
  <2>3. QED
    BY <2>1, <2>2
<1>6. Len(Broken(lines)) = 1 => lost
  BY <1>2 DEF LinesInv
<1>7. QED
  BY <1>2, <1>3, <1>4, <1>5, <1>6, Words DEF LinesInv

\* What may happen to the CSV report while e is in hand.
CsvEffect(e) ==
    /\ csv' \in Seq(Lines) /\ csvTorn' \in BOOLEAN
    /\ cuts' \in Nat /\ headerCut' \in BOOLEAN
    /\ Records(csv) \subseteq Records(csv')
    /\ Records(csv') \subseteq Records(csv) \cup {e}
    /\ LinesInv(csv', csvTorn', headerCut')
    /\ headerCut => headerCut'
    /\ cuts - Tear(csvTorn) <= cuts' - Tear(csvTorn')

(* The first lines of a report. *)
LEMMA FirstLines ==
    ASSUME NEW e \in Events, NEW lost \in BOOLEAN
    PROVE  /\ <<>> \in Seq(Lines) /\ Records(<<>>) = {} /\ LinesInv(<<>>, FALSE, lost)
           /\ \A l \in {e, "broken"} :
                 /\ <<"header", l>> \in Seq(Lines) /\ <<"header", l>> # <<>>
                 /\ Records(<<"header", l>>) = {l} \cap {e}
                 /\ LinesInv(<<"header", l>>, l # e, lost) /\ LinesInv(<<"header", l>>, FALSE, lost)
           /\ \A l \in {"header", "broken"} :
                 /\ <<l>> \in Seq(Lines) /\ <<l>> # <<>> /\ Records(<<l>>) = {}
                 /\ \A torn \in BOOLEAN : LinesInv(<<l>>, torn, TRUE)
<1>1. <<>> \in Seq(Lines) /\ Records(<<>>) = {} /\ LinesInv(<<>>, FALSE, lost)
  BY DEF Records, LinesInv
<1>2. ASSUME NEW l \in {e, "broken"}
      PROVE  /\ <<"header", l>> \in Seq(Lines) /\ <<"header", l>> # <<>>
             /\ Records(<<"header", l>>) = {l} \cap {e}
             /\ LinesInv(<<"header", l>>, l # e, lost) /\ LinesInv(<<"header", l>>, FALSE, lost)
  <2> DEFINE s == <<"header", l>>
  <2>1. Len(s) = 2 /\ s[1] = "header" /\ s[2] = l /\ DOMAIN s = 1..2 /\ s # <<>>
    OBVIOUS
  <2>2. s \in Seq(Lines)
    BY Words
  <2> HIDE DEF s
  <2>3. \A i : i \in 1..2 <=> i = 1 \/ i = 2
    OBVIOUS
  <2>4. l # "header" /\ (l # e => l \notin Events)
    BY Words
  <2>5. Records(s) = {"header", l} \cap Events
    BY <2>1, <2>3 DEF Records
  <2>6. Records(s) = {l} \cap {e}
    BY <2>5, <2>4, Words
  <2>7. \A i \in DOMAIN s : s[i] = "header" => i = 1
    BY <2>1, <2>3, <2>4
  <2>8. LinesInv(s, l # e, lost) /\ LinesInv(s, FALSE, lost)
    BY <2>1, <2>4, <2>7 DEF LinesInv
  <2>9. QED
    BY <2>1, <2>2, <2>6, <2>8 DEF s
<1>3. ASSUME NEW l \in {"header", "broken"}
      PROVE  /\ <<l>> \in Seq(Lines) /\ <<l>> # <<>> /\ Records(<<l>>) = {}
             /\ \A torn \in BOOLEAN : LinesInv(<<l>>, torn, TRUE)
  <2> DEFINE s == <<l>>
  <2>1. Len(s) = 1 /\ s[1] = l /\ DOMAIN s = 1..1 /\ s # <<>> /\ l \notin Events
    BY Words
  <2>2. s \in Seq(Lines)
    BY Words
  <2> HIDE DEF s
  <2>3. \A i : i \in 1..1 <=> i = 1
    OBVIOUS
  <2>4. Records(s) = {}
    BY <2>1, <2>3 DEF Records
  <2>5. \A torn \in BOOLEAN : LinesInv(s, torn, TRUE)
    BY <2>1, <2>3 DEF LinesInv
  <2>6. QED
    BY <2>1, <2>2, <2>4, <2>5 DEF s
<1>4. QED
  BY <1>1, <1>2, <1>3

(* A row, or what is left of it when its append is cut short, keeps the report in *)
(* its form and costs no record; a cut makes at most one tear.                    *)
LEMMA CsvStep ==
    ASSUME WriterTypes, HeaderInv, event \in Events, AppendCsv \/ CutCsv
    PROVE  CsvEffect(event)
<1>1. /\ csv \in Seq(Lines) /\ csvTorn \in BOOLEAN /\ cuts \in Nat /\ headerCut \in BOOLEAN
      /\ LinesInv(csv, csvTorn, headerCut)
      /\ csvTorn => csv # <<>>
  BY DEF WriterTypes, HeaderInv, LinesInv
<1>2. "broken" \in Lines /\ event \in Lines /\ "broken" # "header" /\ event # "header"
      /\ "broken" \notin Events
  BY Words
<1>3. ASSUME NEW l \in {event, "broken"}, csv # <<>>, csv' = Append(csv, l)
      PROVE  /\ csv' \in Seq(Lines)
             /\ Records(csv) \subseteq Records(csv')
             /\ Records(csv') \subseteq Records(csv) \cup {event}
             /\ LinesInv(csv', FALSE, headerCut)
             /\ l = "broken" => LinesInv(csv', TRUE, headerCut)
  <2>1. csv' \in Seq(Lines) /\ Records(csv') = Records(csv) \cup ({l} \cap Events)
    BY <1>1, <1>2, <1>3, RecordsAppend
  <2>2. LinesInv(csv', FALSE, headerCut)
    BY <1>1, <1>2, <1>3, AppendedLines
  <2>3. l = "broken" => LinesInv(csv', TRUE, headerCut)
    BY <1>1, <1>2, <1>3, AppendedLines
  <2>4. QED
    BY <1>2, <2>1, <2>2, <2>3
<1>4. ASSUME csvTorn, csv' = Broken(csv)
      PROVE  /\ csv' \in Seq(Lines) /\ Records(csv') = Records(csv)
             /\ LinesInv(csv', FALSE, headerCut) /\ LinesInv(csv', TRUE, headerCut)
  BY <1>1, <1>4, BrokenLine, BrokenLines
<1>5. CASE AppendCsv
  <2>1. csvTorn' = FALSE /\ cuts' = cuts /\ headerCut' = headerCut
        /\ csv' = Join(csv, csvTorn, NewLines(csv, event))
    BY <1>5 DEF AppendCsv
  <2>2. CASE csv = <<>>
    <3>1. csv' = <<>> \o <<"header", event>> /\ ~csvTorn
      BY <1>1, <2>1, <2>2 DEF Join, NewLines
    <3>2. csv' = <<"header", event>>
      <4>1. <<"header", event>> \in Seq(Lines)
        BY FirstLines, <1>1
      <4>2. QED
        BY <3>1, <4>1, ConcatEmptySeq
    <3>3. /\ <<"header", event>> \in Seq(Lines) /\ Records(<<>>) = {}
          /\ Records(<<"header", event>>) = {event} \cap {event}
          /\ LinesInv(<<"header", event>>, FALSE, headerCut)
      BY <1>1, FirstLines
    <3>4. /\ csv' \in Seq(Lines) /\ Records(csv) = {} /\ Records(csv') = {event}
          /\ LinesInv(csv', csvTorn', headerCut')
      BY <2>1, <2>2, <3>2, <3>3
    <3>5. cuts - Tear(csvTorn) <= cuts' - Tear(csvTorn')
      BY <1>1, <2>1, <3>1 DEF Tear
    <3>6. QED
      BY <1>1, <2>1, <3>4, <3>5 DEF CsvEffect
  <2>3. CASE csv # <<>> /\ csvTorn
    <3>1. csv' = Broken(csv)
      BY <1>1, <2>1, <2>3, JoinOne DEF NewLines
    <3>2. cuts - Tear(csvTorn) <= cuts' - Tear(csvTorn')
      BY <1>1, <2>1, <2>3 DEF Tear
    <3>3. QED
      BY <1>1, <1>4, <2>1, <2>3, <3>1, <3>2 DEF CsvEffect
  <2>4. CASE csv # <<>> /\ ~csvTorn
    <3>1. csv' = Append(csv, event)
      BY <1>1, <2>1, <2>4, JoinOne DEF NewLines
    <3>2. cuts - Tear(csvTorn) <= cuts' - Tear(csvTorn')
      BY <1>1, <2>1, <2>4 DEF Tear
    <3>3. QED
      BY <1>1, <1>3, <2>1, <2>4, <3>1, <3>2 DEF CsvEffect
  <2>5. QED
    BY <2>2, <2>3, <2>4
<1>6. CASE CutCsv
  <2>1. PICK cut \in CutShort(csv, csvTorn, NewLines(csv, event)) :
          /\ csv' = cut.lines /\ csvTorn' = cut.torn
          /\ \/ csv' = csv /\ csvTorn' = csvTorn /\ cuts' = cuts /\ headerCut' = headerCut
             \/ cuts' = cuts + 1 /\ headerCut' = (headerCut \/ csv = <<>>)
    BY <1>6 DEF CutCsv
  <2>2. CASE csv' = csv /\ csvTorn' = csvTorn /\ cuts' = cuts /\ headerCut' = headerCut
    <3>1. cuts - Tear(csvTorn) <= cuts' - Tear(csvTorn')
      BY <1>1, <2>2 DEF Tear
    <3>2. QED
      BY <1>1, <2>2, <3>1 DEF CsvEffect
  <2>3. CASE cuts' = cuts + 1 /\ headerCut' = (headerCut \/ csv = <<>>)
    <3>1. cuts' \in Nat /\ headerCut' \in BOOLEAN /\ (headerCut => headerCut')
      BY <1>1, <2>3
    <3>2. ASSUME csvTorn' \in BOOLEAN
          PROVE  cuts - Tear(csvTorn) <= cuts' - Tear(csvTorn')
      BY <1>1, <2>3, <3>2 DEF Tear
    <3>3. CASE csv = <<>>
      <4>1. NewLines(csv, event) = <<"header", event>> /\ ~csvTorn /\ headerCut'
        BY <1>1, <2>3, <3>3 DEF NewLines
      <4>2. \/ csv' = <<>> /\ csvTorn' = FALSE
            \/ csv' = <<"header">> /\ csvTorn' \in BOOLEAN
            \/ csv' \in {<<"broken">>, <<"header", "broken">>} /\ csvTorn' = TRUE
        BY <1>1, <2>1, <3>3, <4>1, CutFirst
      <4>3. /\ csv' \in Seq(Lines) /\ Records(csv) = {} /\ Records(csv') = {}
            /\ csvTorn' \in BOOLEAN /\ LinesInv(csv', csvTorn', TRUE)
        <5>1. CASE csv' = <<>> /\ csvTorn' = FALSE
          BY <3>3, <5>1, FirstLines
        <5>2. CASE csv' = <<"header">> /\ csvTorn' \in BOOLEAN
          BY <3>3, <5>2, FirstLines
        <5>3. CASE csv' = <<"broken">> /\ csvTorn' = TRUE
          BY <3>3, <5>3, FirstLines
        <5>4. CASE csv' = <<"header", "broken">> /\ csvTorn' = TRUE
          <6>1. /\ <<"header", "broken">> \in Seq(Lines) /\ Records(<<>>) = {}
                /\ Records(<<"header", "broken">>) = {"broken"} \cap {event}
                /\ LinesInv(<<"header", "broken">>, "broken" # event, TRUE)
            BY FirstLines
          <6>2. "broken" # event
            BY <1>2
          <6>3. QED
            BY <3>3, <5>4, <6>1, <6>2
        <5>5. QED
          BY <4>2, <5>1, <5>2, <5>3, <5>4
      <4>4. headerCut' = TRUE
        BY <3>1, <4>1
      <4>5. QED
        BY <3>1, <3>2, <4>3, <4>4 DEF CsvEffect
    <3>4. CASE csv # <<>>
      <4>1. NewLines(csv, event) = <<event>> /\ headerCut' = headerCut
        BY <1>1, <2>3, <3>4 DEF NewLines
      <4>2. \/ csv' = csv /\ csvTorn' = csvTorn
            \/ csvTorn /\ csv' = Broken(csv) /\ csvTorn' = TRUE
            \/ ~csvTorn /\ csv' = Append(csv, "broken") /\ csvTorn' = TRUE
        BY <1>1, <2>1, <4>1, CutOne
      <4>3. CASE csv' = csv /\ csvTorn' = csvTorn
        BY <1>1, <3>1, <3>2, <4>1, <4>3 DEF CsvEffect
      <4>4. CASE csvTorn /\ csv' = Broken(csv) /\ csvTorn' = TRUE
        BY <1>4, <3>1, <3>2, <4>1, <4>4 DEF CsvEffect
      <4>5. CASE ~csvTorn /\ csv' = Append(csv, "broken") /\ csvTorn' = TRUE
        BY <1>3, <3>1, <3>2, <3>4, <4>1, <4>5 DEF CsvEffect
      <4>6. QED
        BY <4>2, <4>3, <4>4, <4>5
    <3>5. QED
      BY <3>3, <3>4
  <2>4. QED
    BY <2>1, <2>2, <2>3
<1>7. QED
  BY <1>5, <1>6

(* A v3 line, or what is left of it, names the event in hand and no other. *)
LEMMA JsonlStep ==
    ASSUME WriterTypes, event \in Events, AppendJsonl \/ CutJsonl
    PROVE  /\ jsonl' \in Seq(Lines) /\ jsonlTorn' \in BOOLEAN
           /\ jsonlTorn' => jsonl' # <<>>
           /\ Records(jsonl') \subseteq Records(jsonl) \cup {event}
<1>1. jsonl \in Seq(Lines) /\ jsonlTorn \in BOOLEAN /\ (jsonlTorn => jsonl # <<>>)
  BY DEF WriterTypes
<1>2. "broken" \in Lines /\ event \in Lines /\ "broken" \notin Events
  BY Words
<1>3. \/ jsonl' = jsonl /\ jsonlTorn' = jsonlTorn
      \/ jsonlTorn /\ jsonl' = Broken(jsonl) /\ jsonlTorn' \in BOOLEAN
      \/ (\E l \in {event, "broken"} : jsonl' = Append(jsonl, l)) /\ jsonlTorn' \in BOOLEAN
  <2>1. CASE AppendJsonl
    <3>1. jsonl' = (IF jsonlTorn THEN Broken(jsonl) ELSE Append(jsonl, event))
          /\ jsonlTorn' = FALSE
      BY <1>1, <2>1, JoinOne DEF AppendJsonl
    <3>2. QED
      BY <1>1, <3>1
  <2>2. CASE CutJsonl
    <3>1. PICK cut \in CutShort(jsonl, jsonlTorn, <<event>>) :
             jsonl' = cut.lines /\ jsonlTorn' = cut.torn
      BY <2>2 DEF CutJsonl
    <3>2. QED
      BY <1>1, <3>1, CutOne
  <2>3. QED
    BY <2>1, <2>2
<1>4. CASE jsonl' = jsonl /\ jsonlTorn' = jsonlTorn
  BY <1>1, <1>4
<1>5. CASE jsonlTorn /\ jsonl' = Broken(jsonl) /\ jsonlTorn' \in BOOLEAN
  BY <1>1, <1>5, BrokenLine
<1>6. ASSUME NEW l \in {event, "broken"}, jsonl' = Append(jsonl, l), jsonlTorn' \in BOOLEAN
      PROVE  /\ jsonl' \in Seq(Lines) /\ jsonl' # <<>>
             /\ Records(jsonl') \subseteq Records(jsonl) \cup {event}
  <2>1. jsonl' \in Seq(Lines) /\ Records(jsonl') = Records(jsonl) \cup ({l} \cap Events)
    BY <1>1, <1>2, <1>6, RecordsAppend
  <2>2. jsonl' # <<>>
    BY <1>1, <1>6
  <2>3. QED
    BY <1>2, <2>1, <2>2
<1>7. QED
  BY <1>3, <1>4, <1>5, <1>6

(* Lost events only become fewer when the report grows. *)
LEMMA LostShrinks ==
    ASSUME WriterTypes, LossInv, Lost' \subseteq Lost, IsFiniteSet(Lost), cuts' \in Nat,
           cuts - Tear(csvTorn) <= cuts' - Tear(csvTorn')
    PROVE  LossInv'
<1>1. IsFiniteSet(Lost') /\ Cardinality(Lost') <= Cardinality(Lost)
  BY FS_Subset
<1>2. Cardinality(Lost) \in Nat /\ Cardinality(Lost') \in Nat
  BY <1>1, FS_CardinalityType
<1>3. Tear(csvTorn) \in Nat /\ Tear(csvTorn') \in Nat /\ cuts \in Nat
  BY DEF Tear, WriterTypes
<1>4. Cardinality(Lost) <= cuts - Tear(csvTorn)
  BY <1>2, <1>3 DEF LossInv
<1>5. Cardinality(Lost') <= cuts' - Tear(csvTorn')
  BY <1>1, <1>2, <1>3, <1>4
<1>6. QED
  BY <1>2, <1>3, <1>5 DEF LossInv

(* The lost events are finitely many. *)
LEMMA LostIsFinite == ASSUME WriterTypes PROVE IsFiniteSet(Lost)
<1>1. IsFiniteSet(written) /\ IsFiniteSet({event}) /\ IsFiniteSet({})
  BY FS_Singleton, FS_EmptySet DEF WriterTypes
<1>2. IsFiniteSet(written \cup (IF position = "line" THEN {event} ELSE {}))
  BY <1>1, FS_Union
<1>3. QED
  BY <1>2, FS_Difference DEF Lost

-----------------------------------------------------------------------------
(* The steps. *)

(* Begin, the image, a failed image: no report changes. *)
LEMMA ImageSteps ==
    ASSUME WriterInv,
           (\E e \in Events : Begin(e)) \/ WriteTemporary \/ FailImage \/ RenameImage
    PROVE  WriterInv'
<1>1. /\ UNCHANGED <<synchronous, csv, csvTorn, jsonl, jsonlTorn, runs, cuts, headerCut, written>>
      /\ position \notin {"line", "refused"} /\ position' \notin {"line", "refused"}
  BY DEF Begin, WriteTemporary, FailImage, RenameImage, Fail, files, process, history
<1>2. WriterTypes'
  <2>1. CASE \E e \in Events : Begin(e)
    BY <1>1, <2>1 DEF Begin, WriterInv, WriterTypes, Positions, files
  <2>2. CASE WriteTemporary
    BY <1>1, <2>2 DEF WriteTemporary, WriterInv, WriterTypes, Positions, history
  <2>3. CASE FailImage
    BY <1>1, <2>3 DEF FailImage, Fail, WriterInv, WriterTypes, Positions
  <2>4. CASE RenameImage
    BY <1>1, <2>4 DEF RenameImage, WriterInv, WriterTypes, Positions, history
  <2>5. QED
    BY <2>1, <2>2, <2>3, <2>4
<1>3. ImageInv'
  <2>1. images \subseteq images' /\ (position' \in {"row", "line"} => event' \in images')
    BY DEF Begin, WriteTemporary, FailImage, RenameImage, Fail, files, history
  <2>2. Records(csv)' = Records(csv) /\ Records(jsonl)' = Records(jsonl)
    BY <1>1 DEF Records
  <2>3. QED
    BY <2>1, <2>2 DEF WriterInv, ImageInv, RecordHasImage
<1>4. HeaderInv'
  BY <1>1 DEF WriterInv, HeaderInv, LinesInv
<1>5. LossInv'
  <2>1. Lost' = Lost
    BY <1>1 DEF Lost, Records
  <2>2. QED
    BY <1>1, <2>1 DEF WriterInv, LossInv, Tear
<1>6. StraysAreExplained'
  BY DEF Begin, WriteTemporary, FailImage, RenameImage, Fail, files, history, WriterInv,
     StraysAreExplained
<1>7. QED
  BY <1>2, <1>3, <1>4, <1>5, <1>6 DEF WriterInv

(* The start of the process refuses only a report that lost its header. *)
LEMMA StartStep == ASSUME WriterInv, Start PROVE WriterInv'
<1>1. /\ position = "down" /\ runs' = runs + 1 /\ healthy' = TRUE
      /\ position' = (IF csv = <<>> \/ csv[1] = "header" THEN "idle" ELSE "refused")
      /\ UNCHANGED <<synchronous, csv, csvTorn, jsonl, jsonlTorn, images, temps, event, begun,
                     written, cuts, headerCut, strays>>
  BY DEF Start, files
<1>2. WriterTypes'
  BY <1>1 DEF WriterInv, WriterTypes, Positions
<1>3. ImageInv'
  BY <1>1 DEF WriterInv, ImageInv, RecordHasImage, Records
<1>4. HeaderInv'
  BY <1>1 DEF WriterInv, HeaderInv, LinesInv
<1>5. LossInv'
  <2>1. Lost' = Lost
    BY <1>1 DEF Lost, Records
  <2>2. QED
    BY <1>1, <2>1 DEF WriterInv, LossInv, Tear
<1>6. StraysAreExplained'
  BY <1>1 DEF WriterInv, StraysAreExplained
<1>7. QED
  BY <1>2, <1>3, <1>4, <1>5, <1>6 DEF WriterInv

(* A row is appended: its event is recorded, or it mends the tear and is lost. *)
LEMMA AppendRowStep == ASSUME WriterInv, AppendRow PROVE WriterInv'
<1>1. /\ position = "row" /\ AppendCsv /\ WriterTypes /\ HeaderInv /\ ImageInv /\ LossInv
      /\ event \in Events /\ event \in images
      /\ UNCHANGED <<synchronous, jsonl, jsonlTorn, images, temps, healthy, runs, begun, strays>>
  BY DEF AppendRow, WriterInv, WriterTypes, ImageInv
<1>2. \/ position' = "line" /\ UNCHANGED <<event, written>>
      \/ position' = "idle" /\ event' = NoEvent /\ written' = written \cup {event}
  BY DEF AppendRow, Written
<1>3. CsvEffect(event)
  BY <1>1, CsvStep
<1>4. LinesInv(csv', csvTorn', headerCut')
  BY <1>3 DEF CsvEffect
<1>5. WriterTypes'
  <2>1. IsFiniteSet(written')
    <3>1. IsFiniteSet(written) /\ IsFiniteSet(written \cup {event})
      BY <1>1, FS_AddElement DEF WriterTypes
    <3>2. QED
      BY <1>2, <3>1
  <2>2. written' \subseteq Events /\ event' \in Events \cup {NoEvent}
        /\ (position' = "line" => event' \in Events) /\ position' \in {"idle", "line"}
    BY <1>1, <1>2 DEF WriterTypes
  <2>3. QED
    BY <1>1, <1>3, <2>1, <2>2 DEF WriterTypes, CsvEffect, Positions
<1>6. ImageInv'
  <2>1. Records(jsonl)' = Records(jsonl)
    BY <1>1 DEF Records
  <2>2. Records(csv') \subseteq Records(csv) \cup {event}
    BY <1>3 DEF CsvEffect
  <2>3. position' \in {"row", "line"} => event' \in images'
    BY <1>1, <1>2
  <2>4. QED
    BY <1>1, <2>1, <2>2, <2>3 DEF ImageInv, RecordHasImage
<1>7. HeaderInv'
  BY <1>2, <1>4 DEF HeaderInv
<1>8. LossInv'
  <2>1. IsFiniteSet(Lost) /\ Cardinality(Lost) \in Nat /\ IsFiniteSet(Lost \cup {event})
        /\ (Cardinality(Lost \cup {event}) = Cardinality(Lost)
            \/ Cardinality(Lost \cup {event}) = Cardinality(Lost) + 1)
    BY <1>1, LostIsFinite, FS_AddElement, FS_CardinalityType
  <2>2. Lost = written \ Records(csv)
    BY <1>1 DEF Lost
  <2>3. Lost' \subseteq (written \cup {event}) \ Records(csv')
    BY <1>2 DEF Lost
  <2>4. Records(csv) \subseteq Records(csv')
    BY <1>3 DEF CsvEffect
  <2>5. cuts' = cuts /\ csvTorn' = FALSE
    BY <1>1 DEF AppendCsv
  <2>6. CASE csvTorn
    <3>1. Lost' \subseteq Lost \cup {event}
      BY <2>2, <2>3, <2>4
    <3>2. IsFiniteSet(Lost') /\ Cardinality(Lost') <= Cardinality(Lost \cup {event})
      BY <2>1, <3>1, FS_Subset
    <3>3. Cardinality(Lost') \in Nat
      BY <3>2, FS_CardinalityType
    <3>4. Cardinality(Lost) + 1 <= cuts /\ cuts \in Nat
      BY <1>1, <2>6 DEF LossInv, Tear, WriterTypes
    <3>5. Cardinality(Lost') <= cuts
      BY <2>1, <3>2, <3>3, <3>4
    <3>6. QED
      BY <2>5, <3>3, <3>5 DEF LossInv, Tear
  <2>7. CASE ~csvTorn
    <3>1. event \in Records(csv')
      <4>1. csv' = Join(csv, csvTorn, NewLines(csv, event)) /\ csv \in Seq(Lines)
        BY <1>1 DEF AppendCsv, WriterTypes
      <4>2. CASE csv = <<>>
        <5>1. csv' = <<>> \o <<"header", event>>
          BY <2>7, <4>1, <4>2 DEF Join, NewLines
        <5>2. <<"header", event>> \in Seq(Lines)
              /\ Records(<<"header", event>>) = {event} \cap {event}
          BY <1>1, FirstLines DEF WriterTypes
        <5>3. csv' = <<"header", event>>
          BY <5>1, <5>2, ConcatEmptySeq
        <5>4. QED
          BY <5>2, <5>3
      <4>3. CASE csv # <<>>
        <5>1. csv' = Append(csv, event)
          <6>1. csvTorn \in BOOLEAN
            BY <1>1 DEF WriterTypes
          <6>2. QED
            BY <1>1, <2>7, <4>1, <4>3, <6>1, JoinOne DEF NewLines
        <5>2. Records(csv') = Records(csv) \cup ({event} \cap Events)
          BY <1>1, <4>1, <5>1, Words, RecordsAppend
        <5>3. QED
          BY <1>1, <5>2
      <4>4. QED
        BY <4>2, <4>3
    <3>2. Lost' \subseteq Lost
      BY <2>2, <2>3, <2>4, <3>1
    <3>3. cuts \in Nat /\ cuts' \in Nat /\ cuts - Tear(csvTorn) <= cuts' - Tear(csvTorn')
      BY <1>1, <1>3 DEF CsvEffect, WriterTypes
    <3>4. QED
      BY <1>1, <2>1, <3>2, <3>3, LostShrinks
  <2>8. QED
    BY <1>1, <2>6, <2>7 DEF WriterTypes
<1>9. StraysAreExplained'
  BY <1>1 DEF WriterInv, StraysAreExplained
<1>10. QED
  BY <1>5, <1>6, <1>7, <1>8, <1>9 DEF WriterInv

(* A row fails, or the process dies in it. *)
LEMMA RowEnds ==
    ASSUME WriterInv, position = "row", AppendCsv \/ CutCsv,
           position' \in {"idle", "down"}, event' = NoEvent, healthy' \in BOOLEAN,
           UNCHANGED <<synchronous, jsonl, jsonlTorn, images, temps, runs, begun, written, strays>>
    PROVE  WriterInv'
<1>1. WriterTypes /\ HeaderInv /\ ImageInv /\ LossInv /\ event \in Events /\ event \in images
  BY DEF WriterInv, WriterTypes, ImageInv
<1>2. CsvEffect(event)
  BY <1>1, CsvStep
<1>3. WriterTypes'
  <2>1. position' \in Positions /\ event' \in Events \cup {NoEvent}
        /\ position' \notin {"image", "rename", "row", "line"}
    BY DEF Positions
  <2>2. QED
    BY <1>1, <1>2, <2>1 DEF WriterTypes, CsvEffect
<1>4. ImageInv'
  <2>1. Records(jsonl)' = Records(jsonl) /\ Records(csv') \subseteq Records(csv) \cup {event}
    BY <1>2 DEF Records, CsvEffect
  <2>2. QED
    BY <1>1, <2>1 DEF ImageInv, RecordHasImage
<1>5. HeaderInv'
  BY <1>2 DEF HeaderInv, CsvEffect
<1>6. LossInv'
  <2>1. Lost' \subseteq Lost
    BY <1>2 DEF Lost, CsvEffect
  <2>2. QED
    BY <1>1, <1>2, <2>1, LostIsFinite, LostShrinks DEF CsvEffect
<1>7. StraysAreExplained'
  BY DEF WriterInv, StraysAreExplained
<1>8. QED
  BY <1>3, <1>4, <1>5, <1>6, <1>7 DEF WriterInv

(* A line is appended or fails, or the process dies in it. *)
LEMMA LineEnds ==
    ASSUME WriterInv, position = "line", AppendJsonl \/ CutJsonl,
           position' \in {"idle", "down"}, event' = NoEvent, healthy' \in BOOLEAN,
           written' \in {written, written \cup {event}},
           UNCHANGED <<synchronous, csv, csvTorn, images, temps, runs, begun, cuts, headerCut,
                       strays>>
    PROVE  WriterInv'
<1>1. WriterTypes /\ HeaderInv /\ ImageInv /\ LossInv /\ event \in Events /\ event \in images
  BY DEF WriterInv, WriterTypes, ImageInv
<1>2. /\ jsonl' \in Seq(Lines) /\ jsonlTorn' \in BOOLEAN
      /\ jsonlTorn' => jsonl' # <<>>
      /\ Records(jsonl') \subseteq Records(jsonl) \cup {event}
  BY <1>1, JsonlStep
<1>3. WriterTypes'
  <2>1. position' \in Positions /\ event' \in Events \cup {NoEvent}
        /\ position' \notin {"image", "rename", "row", "line"}
    BY DEF Positions
  <2>2. IsFiniteSet(written') /\ written' \subseteq Events
    <3>1. IsFiniteSet(written) /\ IsFiniteSet(written \cup {event}) /\ written \subseteq Events
      BY <1>1, FS_AddElement DEF WriterTypes
    <3>2. QED
      BY <1>1, <3>1
  <2>3. QED
    BY <1>1, <1>2, <2>1, <2>2 DEF WriterTypes
<1>4. ImageInv'
  <2>1. Records(csv)' = Records(csv)
    BY DEF Records
  <2>2. QED
    BY <1>1, <1>2, <2>1 DEF ImageInv, RecordHasImage
<1>5. HeaderInv'
  BY <1>1 DEF HeaderInv, LinesInv
<1>6. LossInv'
  <2>1. Lost' \subseteq Lost
    BY DEF Lost, Records
  <2>2. cuts' \in Nat /\ cuts - Tear(csvTorn) <= cuts' - Tear(csvTorn')
    BY <1>1 DEF WriterTypes, Tear
  <2>3. QED
    BY <1>1, <2>1, <2>2, LostIsFinite, LostShrinks
<1>7. StraysAreExplained'
  BY DEF WriterInv, StraysAreExplained
<1>8. QED
  BY <1>3, <1>4, <1>5, <1>6, <1>7 DEF WriterInv

(* The process exits, or dies anywhere else. *)
LEMMA ExitElsewhere ==
    ASSUME WriterInv, Exit, position \notin {"row", "line"}
    PROVE  WriterInv'
<1>1. /\ position' = "down" /\ event' = NoEvent
      /\ UNCHANGED <<synchronous, csv, csvTorn, jsonl, jsonlTorn, images, healthy, runs, begun,
                     written, cuts, headerCut>>
  BY DEF Exit
<1>2. WriterTypes'
  BY <1>1 DEF Exit, WriterInv, WriterTypes, Positions
<1>3. ImageInv'
  BY <1>1 DEF WriterInv, ImageInv, RecordHasImage, Records
<1>4. HeaderInv'
  BY <1>1 DEF WriterInv, HeaderInv, LinesInv
<1>5. LossInv'
  <2>1. Lost' = Lost
    BY <1>1 DEF Lost, Records
  <2>2. QED
    BY <1>1, <2>1 DEF WriterInv, LossInv, Tear
<1>6. StraysAreExplained'
  BY <1>1 DEF Exit, WriterInv, StraysAreExplained
<1>7. QED
  BY <1>2, <1>3, <1>4, <1>5, <1>6 DEF WriterInv

(* Every step of the writer keeps its invariant. *)
LEMMA WriterInvStep == ASSUME WriterInv, [Next]_vars PROVE WriterInv'
<1>0. synchronous \in BOOLEAN /\ healthy \in BOOLEAN
  BY DEF WriterInv, WriterTypes
<1>1. CASE Start
  BY <1>1, StartStep
<1>2. CASE (\E e \in Events : Begin(e)) \/ WriteTemporary \/ FailImage \/ RenameImage
  BY <1>2, ImageSteps
<1>3. CASE AppendRow
  BY <1>3, AppendRowStep
<1>4. CASE FailRow
  BY <1>0, <1>4, RowEnds DEF FailRow, Fail
<1>5. CASE AppendLine
  BY <1>0, <1>5, LineEnds DEF AppendLine, Written
<1>6. CASE FailLine
  BY <1>0, <1>6, LineEnds DEF FailLine, Fail
<1>7. CASE Exit
  <2>1. CASE position = "row"
    BY <1>0, <1>7, <2>1, RowEnds DEF Exit
  <2>2. CASE position = "line"
    BY <1>0, <1>7, <2>2, LineEnds DEF Exit
  <2>3. CASE position \notin {"row", "line"}
    BY <1>7, <2>3, ExitElsewhere
  <2>4. QED
    BY <2>1, <2>2, <2>3
<1>8. CASE UNCHANGED vars
  <2>1. UNCHANGED <<synchronous, csv, csvTorn, jsonl, jsonlTorn, images, temps, position, event,
                    healthy, runs, begun, written, cuts, headerCut, strays>>
    BY <1>8 DEF vars, files, process, history
  <2>2. WriterTypes' /\ StraysAreExplained'
    BY <2>1 DEF WriterInv, WriterTypes, StraysAreExplained
  <2>3. ImageInv' /\ HeaderInv'
    BY <2>1 DEF WriterInv, ImageInv, RecordHasImage, Records, HeaderInv, LinesInv
  <2>4. Lost' = Lost
    BY <2>1 DEF Lost, Records
  <2>5. LossInv'
    BY <2>1, <2>4 DEF WriterInv, LossInv, Tear
  <2>6. QED
    BY <2>2, <2>3, <2>5 DEF WriterInv
<1>9. QED
  BY <1>1, <1>2, <1>3, <1>4, <1>5, <1>6, <1>7, <1>8 DEF Next, Terminated

-----------------------------------------------------------------------------
(* The theorems. *)

(* The inductive invariant of the writer: types, images, the form of the     *)
(* report and the account of the events that were lost.                      *)
THEOREM WriterCorrect == Spec => []WriterInv
<1>1. Init => WriterInv
  <2> SUFFICES ASSUME Init PROVE WriterInv
    OBVIOUS
  <2>1. csv = <<>> /\ jsonl = <<>> /\ ~csvTorn /\ written = {} /\ position = "down"
        /\ headerCut = FALSE /\ cuts = 0
    BY DEF Init
  <2>2. WriterTypes
    <3>1. <<>> \in Seq(Lines) /\ IsFiniteSet({})
      BY FS_EmptySet
    <3>2. event = NoEvent /\ runs = 0 /\ ~jsonlTorn /\ healthy = TRUE
          /\ images = {} /\ temps = {} /\ begun = {} /\ strays = {} /\ synchronous \in BOOLEAN
      BY DEF Init
    <3>3. QED
      <4>1. csv \in Seq(Lines) /\ jsonl \in Seq(Lines) /\ IsFiniteSet(written)
        BY <2>1, <3>1
      <4>2. csvTorn \in BOOLEAN /\ jsonlTorn \in BOOLEAN /\ healthy \in BOOLEAN
            /\ headerCut \in BOOLEAN
        BY DEF Init
      <4>3. /\ position \in Positions /\ event \in Events \cup {NoEvent}
            /\ position \notin {"image", "rename", "row", "line"}
            /\ runs \in Nat /\ cuts \in Nat
        BY <2>1, <3>2 DEF Positions
      <4>4. /\ images \subseteq Events /\ temps \subseteq Events /\ strays \subseteq Events
            /\ begun \subseteq Events /\ written \subseteq Events
        BY <2>1, <3>2
      <4>5. QED
        BY <3>2, <4>1, <4>2, <4>3, <4>4 DEF WriterTypes
  <2>3. Records(<<>>) = {}
    BY DEF Records
  <2>4. ImageInv
    BY <2>1, <2>3 DEF ImageInv, RecordHasImage
  <2>5. HeaderInv
    BY <2>1 DEF HeaderInv, LinesInv
  <2>6. Lost = {}
    BY <2>1 DEF Lost
  <2>7. LossInv
    BY <2>1, <2>6, FS_EmptySet DEF LossInv, Tear
  <2>8. StraysAreExplained
    BY DEF Init, StraysAreExplained
  <2>9. QED
    BY <2>2, <2>4, <2>5, <2>7, <2>8 DEF WriterInv
<1>2. WriterInv /\ [Next]_vars => WriterInv'
  BY WriterInvStep
<1>3. QED
  BY <1>1, <1>2, PTL DEF Spec

(* No row without its photo, whatever failed and wherever the process died. *)
THEOREM PhotoBeforeRecord == Spec => []RecordHasImage
<1>1. WriterInv => RecordHasImage
  BY DEF WriterInv, ImageInv
<1>2. QED
  BY <1>1, WriterCorrect, PTL

(* Appends that were cut short cost at most one event each, and only one that *)
(* was to write the header makes the report unusable.                         *)
THEOREM ReportsStayReadable == Spec => []ReportsAreReadable
<1>1. WriterInv => ReportsAreReadable
  <2> SUFFICES ASSUME WriterInv PROVE ReportsAreReadable
    OBVIOUS
  <2>1. HeaderOnlyFirst /\ RefusedOnlyAfterCutHeader
    BY DEF WriterInv, HeaderInv, LinesInv, HeaderOnlyFirst, RefusedOnlyAfterCutHeader
  <2>2. IsFiniteSet(Lost)
    BY LostIsFinite DEF WriterInv
  <2>3. written \ Records(csv) \subseteq Lost
    BY DEF Lost
  <2>4. /\ IsFiniteSet(written \ Records(csv))
        /\ Cardinality(written \ Records(csv)) <= Cardinality(Lost)
    BY <2>2, <2>3, FS_Subset
  <2>5. Cardinality(Lost) \in Nat /\ Cardinality(written \ Records(csv)) \in Nat
    BY <2>2, <2>4, FS_CardinalityType
  <2>6. Cardinality(Lost) <= cuts
    <3>1. Cardinality(Lost) + Tear(csvTorn) <= cuts /\ cuts \in Nat /\ Tear(csvTorn) \in Nat
      BY DEF WriterInv, WriterTypes, LossInv, Tear
    <3>2. QED
      BY <2>5, <3>1
  <2>7. LossIsBounded
    <3>1. cuts \in Nat
      BY DEF WriterInv, WriterTypes
    <3>2. QED
      BY <2>4, <2>5, <2>6, <3>1 DEF LossIsBounded
  <2>8. QED
    BY <2>1, <2>7 DEF ReportsAreReadable
<1>2. QED
  BY <1>1, WriterCorrect, PTL

(* A temporary image is left only by a death or a removal that failed. *)
THEOREM StraysStayExplained == Spec => []StraysAreExplained
<1>1. WriterInv => StraysAreExplained
  BY DEF WriterInv
<1>2. QED
  BY <1>1, WriterCorrect, PTL
=============================================================================
