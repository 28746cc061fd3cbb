----------------------------- MODULE SseScanner -----------------------------
(***************************************************************************)
(* SseScanner (util/stream_usage_scanner.rs), as the proxy uses it: push   *)
(* for every chunk upstream sends, finish at the end of the stream, the    *)
(* first value found counts.  Chunks are cut anywhere.                     *)
(*                                                                         *)
(* Of the bytes only this is kept: "data" and a member of Values are the   *)
(* two parts of a line that holds a value, cut somewhere in a string of    *)
(* it, so that what comes between them spoils it; "n" is \n, "r" is \r,    *)
(* and "bad" is a byte that is not UTF-8.                                  *)
(***************************************************************************)
EXTENDS Naturals, Sequences, FiniteSetsExt

CONSTANTS
  Values,      \* what the scan function finds
  MaxStream    \* bound: the length of a stream

ASSUME ScanAssumption == Values \cap {"data", "n", "r", "bad", "none"} = {}

VARIABLES
  received,   \* history: the stream so far
  tail,       \* SseScanner.tail
  found,      \* the value found, "none" as long as not done
  ended       \* finish has been called

scanVars == <<received, tail, found, ended>>

Bytes == Values \cup {"data", "n", "r", "bad"}

ScanInit == received = <<>> /\ tail = <<>> /\ found = "none" /\ ended = FALSE

(* The lines of buf, as pairs of their first and last position.            *)
LinesOf(buf) ==
  {l \in (1..Len(buf)) \X (1..Len(buf)) :
     /\ l[1] = 1 \/ buf[l[1] - 1] = "n"
     /\ l[2] = Len(buf) \/ buf[l[2] + 1] = "n"
     /\ \A i \in l[1]..l[2] : buf[i] # "n"}

(* A \r at the end of a line is white space.                               *)
HoldsValue(buf, l) ==
  /\ l[1] < l[2]
  /\ buf[l[1]] = "data" /\ buf[l[1] + 1] \in Values
  /\ \A i \in l[1] + 2 .. l[2] : buf[i] = "r"

(* scan_sse_buf: the first value, and none if buf is not UTF-8.            *)
ScanSseBuf(buf) ==
  LET starts == {l[1] : l \in {k \in LinesOf(buf) : HoldsValue(buf, k)}}
  IN  IF starts = {} \/ \E i \in 1..Len(buf) : buf[i] = "bad" THEN "none"
      ELSE buf[Min(starts) + 1]

BlankLines(buf) == {i \in 2..Len(buf) : buf[i - 1] = "n" /\ buf[i] = "n"}

Chunks(n) == UNION {[1..k -> Bytes] : k \in 1..n}

\* Mutant: up to the first blank line.
PushToFirst(chunk) ==
  LET grown == tail \o chunk
      first == Min(BlankLines(grown))
  IN  /\ ~ended
      /\ received' = received \o chunk
      /\ IF found # "none" THEN UNCHANGED <<tail, found>>
         ELSE IF BlankLines(grown) = {} THEN tail' = grown /\ UNCHANGED found
         ELSE /\ found' = ScanSseBuf(SubSeq(grown, 1, first))
              /\ tail' = SubSeq(grown, first + 1, Len(grown))
      /\ UNCHANGED ended

(* Up to the last \n\n; what follows waits for more.                       *)
Push(chunk) ==
  LET grown == tail \o chunk
      last == Max(BlankLines(grown))
  IN  /\ ~ended
      /\ received' = received \o chunk
      /\ IF found # "none" THEN UNCHANGED <<tail, found>>
         ELSE IF BlankLines(grown) = {} THEN tail' = grown /\ UNCHANGED found
         ELSE /\ found' = ScanSseBuf(SubSeq(grown, 1, last))
              /\ tail' = SubSeq(grown, last + 1, Len(grown))
      /\ UNCHANGED ended

\* Mutant: what has no blank line after it is not looked at.
FinishClears ==
  /\ ~ended
  /\ ended' = TRUE
  /\ tail' = <<>>
  /\ UNCHANGED <<received, found>>

Finish ==
  /\ ~ended
  /\ ended' = TRUE
  /\ IF found # "none" THEN UNCHANGED <<tail, found>>
     ELSE found' = ScanSseBuf(tail) /\ tail' = <<>>
  /\ UNCHANGED received

ScanNext ==
  \/ \E chunk \in Chunks(MaxStream - Len(received)) : Push(chunk)
  \/ Finish

ScanSpec == ScanInit /\ [][ScanNext]_scanVars
-----------------------------------------------------------------------------
IsUtf8(buf) == \A i \in 1..Len(buf) : buf[i] # "bad"

(* However the stream is cut into chunks, what has been found at its end   *)
(* is the first value of the whole stream, in a last line without an end   *)
(* and in streams with \r\n, too.                                          *)
ChunksDoNotMatter ==
  ended /\ IsUtf8(received) => found = ScanSseBuf(received)

(* A value is found as soon as a blank line has come after it, not only    *)
(* when the stream ends.  (With \r\n there is no \n\n: found at the end.)  *)
FoundAtBlankLine ==
  IsUtf8(received) =>
    \A i \in BlankLines(received) :
      ScanSseBuf(SubSeq(received, 1, i)) # "none" => found # "none"
=============================================================================
