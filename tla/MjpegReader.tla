---------------------------- MODULE MjpegReader ----------------------------
(***************************************************************************)
(* Pulling one frame from an HTTP camera that never stops sending: chunks  *)
(* are collected until they hold a whole JPEG image, whatever the places   *)
(* at which the network cut the stream, and no more than a given number of *)
(* bytes is held.                                                          *)
(*                                                                         *)
(* Bytes are those that matter: the two-byte markers FF D8 (start of       *)
(* image) and FF D9 (end of image), and any other byte.                    *)
(***************************************************************************)
EXTENDS Integers, Sequences

CONSTANTS
    MaxHeld,     \* MAX_MJPEG_BYTES
    MaxChunk,    \* bound: bytes of a chunk
    MaxReceived  \* bound: bytes of the stream

ASSUME MjpegAssumption ==
    MaxHeld \in Nat /\ MaxChunk \in Nat \ {0} /\ MaxReceived \in Nat

VARIABLES
    received,  \* all the camera sent
    held,      \* buffer
    reading    \* "reading", the frame returned, or why there is none

readerVars == <<received, held, reading>>

Bytes == {"FF", "D8", "D9", "x"}

Chunks == UNION {[1 .. n -> Bytes] : n \in 1 .. MaxChunk}

ReaderInit ==
    /\ received = << >>
    /\ held = << >>
    /\ reading = [pc |-> "reading", frame |-> << >>]

-----------------------------------------------------------------------------
(* grab_mjpeg_frame *)

\* Where a marker stands in s, from a place on.
Marks(s, second, from) ==
    {k \in from .. Len(s) - 1 : s[k] = "FF" /\ s[k + 1] = second}

Least(S) == CHOOSE k \in S : \A l \in S : k <= l

\* Mutant: what comes before a start of image is not kept either.
Trimmed_Empties(s) ==
    LET starts == Marks(s, "D8", 1)
    IN  IF starts = {} THEN << >> ELSE SubSeq(s, Least(starts), Len(s))

\* What comes before the first start of image is let go.
Trimmed(s) ==
    LET starts == Marks(s, "D8", 1)
    IN  IF starts = {} THEN s ELSE SubSeq(s, Least(starts), Len(s))

\* A chunk arrives: the frame is complete, the limit is passed, or on it goes.
ChunkArrives(chunk) ==
    /\ reading.pc = "reading"
    /\ received' = received \o chunk
    /\ LET s      == held \o chunk
           starts == Marks(s, "D8", 1)
           ends   == IF starts = {} THEN {}
                     ELSE Marks(s, "D9", Least(starts) + 2)
       IN  IF ends # {}
           THEN /\ reading' = [pc |-> "frame",
                               frame |-> SubSeq(s, Least(starts), Least(ends) + 1)]
                /\ held' = s
           ELSE /\ held' = Trimmed(s)
                /\ reading' = [reading EXCEPT !.pc =
                       IF Len(Trimmed(s)) > MaxHeld THEN "toolong" ELSE "reading"]

\* The camera closes the connection, answers with an error or falls silent.
StreamEnds ==
    /\ reading.pc = "reading"
    /\ reading' = [reading EXCEPT !.pc = "ended"]
    /\ UNCHANGED <<received, held>>

ReaderNext ==
    \/ \E chunk \in Chunks : /\ Len(received) + Len(chunk) <= MaxReceived
                             /\ ChunkArrives(chunk)
    \/ StreamEnds

ReaderSpec == ReaderInit /\ [][ReaderNext]_readerVars

-----------------------------------------------------------------------------
(* Properties *)

\* Every variable keeps to its type.
ReaderTypeOK ==
    /\ received \in Seq(Bytes) /\ held \in Seq(Bytes)
    /\ reading.pc \in {"reading", "frame", "toolong", "ended"}
    /\ reading.frame \in Seq(Bytes)

\* The first image in all that was sent: from the first start of image to the
\* first end after it.
Image(from, to) ==
    /\ from \in Marks(received, "D8", 1)
    /\ \A k \in Marks(received, "D8", 1) : from <= k
    /\ to \in Marks(received, "D9", from + 2)
    /\ \A k \in Marks(received, "D9", from + 2) : to <= k

\* However the stream is cut into chunks, a marker included, the reader returns
\* the first image of the stream, as soon as it has arrived; it gives up only
\* on a stream that sent more than the limit without one ("returns it, then
\* closes the connection", http_source.py:95-96).
FirstImageReturned ==
    LET whole == {p \in (1 .. Len(received)) \X (1 .. Len(received)) :
                      Image(p[1], p[2])}
    IN  /\ reading.pc = "frame"
               => \E p \in whole : reading.frame = SubSeq(received, p[1], p[2] + 1)
        /\ whole # {} => reading.pc = "frame"
        /\ reading.pc = "toolong" => Len(received) > MaxHeld
=============================================================================
