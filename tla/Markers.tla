------------------------------ MODULE Markers ------------------------------
(***************************************************************************)
(* The pure text operations of hosts/markers.go and hosts/store.go.  A     *)
(* hosts file is a sequence of logical lines; a line's text matters only   *)
(* as far as the code tells lines apart: it reads as the BEGIN marker, it  *)
(* reads as the END marker, or it is anything else.  locateMarkers ignores *)
(* one trailing carriage return, so several lines may read as a marker:    *)
(* the LF and the CRLF spelling are different members of BeginLines.  The  *)
(* last line of a file may lack its newline; that is a spelling of its own *)
(* too, and Terminate maps it to the terminated one.                       *)
(***************************************************************************)
EXTENDS Integers, Sequences

CONSTANTS
  Line,          \* every logical line that occurs
  BeginLines,    \* the lines that read as "# BEGIN <section>"
  EndLines,      \* the lines that read as "# END <section>"
  BeginMarker,   \* the spelling of the BEGIN marker SDHM itself writes
  EndMarker,     \* the spelling of the END marker SDHM itself writes
  Terminate,     \* Terminate[l]: line l with the newline it may be lacking
  Baseline       \* the lines freshHostsFile puts before the empty section

PlainLine == Line \ (BeginLines \cup EndLines)

Content == Seq(Line)

ASSUME MarkerAssumption ==
  /\ BeginLines \subseteq Line /\ EndLines \subseteq Line
  /\ BeginLines \cap EndLines = {}
  /\ BeginMarker \in BeginLines /\ EndMarker \in EndLines
  /\ Baseline \in Seq(PlainLine)
  /\ Terminate \in [Line -> Line]
  /\ \A l \in PlainLine : Terminate[l] \in PlainLine
  /\ \A l \in Line : Terminate[Terminate[l]] = Terminate[l]

Begins(data) == {i \in DOMAIN data : data[i] \in BeginLines}
Ends(data)   == {i \in DOMAIN data : data[i] \in EndLines}

(***************************************************************************)
(* "valid": one BEGIN line before one END line; "none": neither occurs;    *)
(* "corrupt": every case in which locateMarkers returns an error.          *)
(***************************************************************************)
HasSection(data, b, e) == Begins(data) = {b} /\ Ends(data) = {e} /\ b < e

locateMarkers(data) ==
  IF Begins(data) = {} /\ Ends(data) = {} THEN "none"
  ELSE IF \E b, e \in DOMAIN data : HasSection(data, b, e) THEN "valid"
  ELSE "corrupt"

beginLine(data) == CHOOSE b \in DOMAIN data : data[b] \in BeginLines
endLine(data)   == CHOOSE e \in DOMAIN data : data[e] \in EndLines

replaceManagedSectionFromMarker(data, body) ==
  <<data[beginLine(data)]>> \o body \o SubSeq(data, endLine(data), Len(data))

(***************************************************************************)
(* Only the lines strictly between the markers are replaced.               *)
(***************************************************************************)
replaceManagedSection(data, body) ==
  SubSeq(data, 1, beginLine(data)) \o body
    \o SubSeq(data, endLine(data), Len(data))

\* The line that was last gets the newline it lacked before more are appended.
Terminated(data) == [i \in DOMAIN data |-> IF i = Len(data) THEN Terminate[data[i]]
                                                           ELSE data[i]]

appendEmptySection(data) == Terminated(data) \o <<BeginMarker, EndMarker>>

freshHostsFile == Baseline \o <<BeginMarker, EndMarker>>

(***************************************************************************)
(* What a user of the file owns: everything outside the managed section.   *)
(***************************************************************************)
Outside(data) ==
  IF locateMarkers(data) = "valid"
  THEN SubSeq(data, 1, beginLine(data) - 1)
         \o SubSeq(data, endLine(data) + 1, Len(data))
  ELSE data

ManagedBody(data) == SubSeq(data, beginLine(data) + 1, endLine(data) - 1)
============================================================================
