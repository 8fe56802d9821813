----------------------------- MODULE MarkerScan -----------------------------
(***************************************************************************)
(* The loop of hosts/markers.go locateMarkers, one action per line read.   *)
(* Markers states what the loop should compute; this module shows that it  *)
(* does.  A position of 0 stands for a marker not found yet.               *)
(***************************************************************************)
EXTENDS Markers

CONSTANT Inputs   \* the files the loop is run on

ASSUME InputAssumption == Inputs \subseteq Content

VARIABLES
  scanned,     \* the file being scanned
  lineStart,   \* the line to read next
  beginAt,     \* beginFound and section.beginStart
  endAt,       \* endFound and section.endStart
  verdict      \* "scanning" until the function returns

scanVars == <<scanned, lineStart, beginAt, endAt, verdict>>

ScanInit ==
  /\ scanned \in Inputs
  /\ lineStart = 1 /\ beginAt = 0 /\ endAt = 0 /\ verdict = "scanning"

Reading == verdict = "scanning" /\ lineStart <= Len(scanned)

BeginLine ==
  /\ Reading /\ scanned[lineStart] \in BeginLines
  /\ \/ beginAt # 0 /\ verdict' = "corrupt" /\ UNCHANGED <<lineStart, beginAt>>
     \/ beginAt = 0 /\ beginAt' = lineStart /\ lineStart' = lineStart + 1 /\ UNCHANGED verdict
  /\ UNCHANGED <<scanned, endAt>>

EndLineLastWins ==
  /\ Reading /\ scanned[lineStart] \in EndLines
  /\ endAt' = lineStart /\ lineStart' = lineStart + 1
  /\ UNCHANGED <<scanned, beginAt, verdict>>

EndLine ==
  /\ Reading /\ scanned[lineStart] \in EndLines
  /\ \/ endAt # 0 /\ verdict' = "corrupt" /\ UNCHANGED <<lineStart, endAt>>
     \/ endAt = 0 /\ endAt' = lineStart /\ lineStart' = lineStart + 1 /\ UNCHANGED verdict
  /\ UNCHANGED <<scanned, beginAt>>

OtherLine ==
  /\ Reading /\ scanned[lineStart] \notin BeginLines \cup EndLines
  /\ lineStart' = lineStart + 1
  /\ UNCHANGED <<scanned, beginAt, endAt, verdict>>

\* The checks after the loop: both missing, one missing, END before BEGIN.
Finish ==
  /\ verdict = "scanning" /\ lineStart > Len(scanned)
  /\ verdict' = IF beginAt = 0 /\ endAt = 0 THEN "none"
                ELSE IF beginAt = 0 \/ endAt = 0 \/ endAt < beginAt THEN "corrupt"
                ELSE "valid"
  /\ UNCHANGED <<scanned, lineStart, beginAt, endAt>>

ScanNext == BeginLine \/ EndLine \/ OtherLine \/ Finish

ScanSpec == ScanInit /\ [][ScanNext]_scanVars

-----------------------------------------------------------------------------
(***************************************************************************)
(* The scan classifies every file as the declarative definition does, and  *)
(* in a valid one it reports the positions of the two marker lines.  Early *)
(* returns on a duplicate marker are covered: they must not hide a file    *)
(* that is valid, nor call an unmarked file corrupt.                       *)
(***************************************************************************)
ScanCorrect ==
  verdict # "scanning" =>
    /\ verdict = locateMarkers(scanned)
    /\ verdict = "valid" => beginAt = beginLine(scanned) /\ endAt = endLine(scanned)
=============================================================================
