---------------------------- MODULE RequestReader -----------------------------
(***************************************************************************)
(* ChunkedRequestHandler (utils.py): how a satellite reads the body of a   *)
(* report from its connection, before POST sees it.  The peer may be slow, *)
(* and may be cut off after any byte.                                      *)
(*                                                                         *)
(* Bytes are one-character strings.  A body may look like framing: it may  *)
(* hold line ends and digits.  rfile.read(n) waits for n bytes or the end  *)
(* of the connection, and at its end returns what there is.                *)
(***************************************************************************)
EXTENDS Integers, Sequences, SequencesExt

CONSTANTS
    Bytes,
    Bodies,     \* the bodies that are sent
    Splits,     \* ways to cut them: sequences of lengths
    Widths,     \* digits of a chunk length
    Extensions, \* what follows the digits: nothing, or an extension, from a semicolon
    max_bytes   \* of the line of a chunk length, 16 in the code

CR == "r"
LF == "n"
Semicolon == ";"
Delimiter == <<CR, LF>>
Digits == <<"0", "1", "2", "3">>

ASSUME ReaderAssumption ==
    /\ {CR, LF} \cup {Digits[d] : d \in DOMAIN Digits} \subseteq Bytes
    /\ Bodies \cup Extensions \subseteq Seq(Bytes)
    /\ \A s \in Splits : s \in Seq(1 .. Len(Digits) - 1)
    /\ Widths \subseteq Nat \ {0} /\ max_bytes \in Nat
    /\ \A e \in Extensions : e = <<>> \/ Head(e) = Semicolon

VARIABLES
    request,      \* the report and how it is sent
    wire,         \* its bytes, and where the lines of chunk lengths begin
    arrived,      \* how many of its bytes have arrived
    closed,       \* the connection has ended after them
    pos,          \* how many are read
    reader_pc,    \* what do_POST does next
    buf,          \* the line of a chunk length
    read_len, binary_body

reader_vars == <<request, wire, arrived, closed, pos, reader_pc, buf, read_len,
                 binary_body>>

-----------------------------------------------------------------------------
(* What a peer sends: a body of known length, or chunks and a last chunk   *)
(* of length 0, each with its length in front and a line end behind.       *)
Total(split) == FoldLeft(LAMBDA a, n : a + n, 0, split)

LengthLine(r, n) == [i \in 1 .. r.width - 1 |-> "0"] \o <<Digits[n + 1]>>
                        \o r.extension \o Delimiter

Framed(r) == FoldLeft(LAMBDA w, n :
                          [bytes |-> w.bytes \o LengthLine(r, n)
                                         \o SubSeq(r.body, w.from + 1, w.from + n) \o Delimiter,
                           lengths |-> w.lengths \cup {Len(w.bytes)},
                           from |-> w.from + n],
                      [bytes |-> <<>>, lengths |-> {}, from |-> 0],
                      Append(r.split, 0))

Requests ==
    [kind : {"fixed", "neither"}, body : Bodies]
        \cup {r \in [kind : {"chunked"}, body : Bodies, split : Splits, width : Widths,
                      extension : Extensions] : Total(r.split) = Len(r.body)}

ReaderInit == /\ request \in Requests
              /\ wire = IF request.kind = "chunked" THEN Framed(request)
                        ELSE [bytes |-> request.body, lengths |-> {}, from |-> 0]
              /\ arrived = 0 /\ closed = FALSE
              /\ pos = 0
              /\ reader_pc = "headers"
              /\ buf = <<>> /\ read_len = 0 /\ binary_body = <<>>

reader == <<pos, reader_pc, buf, read_len, binary_body>>

ArriveByte == /\ ~closed /\ arrived < Len(wire.bytes)
              /\ arrived' = arrived + 1
              /\ UNCHANGED <<request, wire, closed, reader>>

Cut == /\ ~closed
       /\ closed' = TRUE
       /\ UNCHANGED <<request, wire, arrived, reader>>

-----------------------------------------------------------------------------
(* rfile.read(n)                                                           *)
Available(n) == closed \/ arrived - pos >= n

Got(n) == SubSeq(wire.bytes, pos + 1, IF arrived < pos + n THEN arrived ELSE pos + n)

(* The kind of body is that of the headers; without any do_POST raises.    *)
ReadHeaders == /\ reader_pc = "headers"
               /\ reader_pc' = CASE request.kind = "fixed" -> "fixed"
                                 [] request.kind = "chunked" -> "length"
                                 [] request.kind = "neither" -> "raised"
               /\ UNCHANGED <<request, wire, arrived, closed, pos, buf, read_len, binary_body>>

\* Fault: the body is read in a loop that waits for all of it.
ReadFixedWhole == /\ reader_pc = "fixed" /\ arrived = Len(request.body)
                  /\ binary_body' = Got(Len(request.body))
                  /\ pos' = arrived
                  /\ reader_pc' = "post"
                  /\ UNCHANGED <<request, wire, arrived, closed, buf, read_len>>

(* One read, and nobody compares what it returned to the length.           *)
ReadFixed == /\ reader_pc = "fixed" /\ Available(Len(request.body))
             /\ binary_body' = Got(Len(request.body))
             /\ pos' = pos + Len(binary_body')
             /\ reader_pc' = "post"
             /\ UNCHANGED <<request, wire, arrived, closed, buf, read_len>>

(* int(digits, 16), which fails for anything but digits, and for none.     *)
BadLength == -1

Value(line) ==
    IF line # <<>> /\ \A i \in DOMAIN line : Contains(Digits, line[i])
    THEN FoldLeft(LAMBDA v, c : 16 * v + (CHOOSE d \in DOMAIN Digits : Digits[d] = c) - 1,
                  0, line)
    ELSE BadLength

(* _read_chunk_length reads byte by byte, up to max_bytes or a line end.   *)
(* At the end of the connection it reads nothing, for ever: that step      *)
(* changes nothing and is not an action here.                              *)
ReadLengthByte ==
    /\ reader_pc = "length" /\ arrived > pos
    /\ pos' = pos + 1
    /\ LET line == buf \o Got(1) IN
       IF IsSuffix(Delimiter, line)
       THEN /\ read_len' = Value(SubSeq(line, 1, Len(line) - 2))
            /\ buf' = <<>>
            /\ reader_pc' = IF read_len' <= 0 THEN "post" ELSE "chunk"
       ELSE IF Len(line) = max_bytes
       THEN /\ read_len' = BadLength
            /\ buf' = <<>>
            /\ reader_pc' = "post"
       ELSE /\ buf' = line
            /\ UNCHANGED <<read_len, reader_pc>>
    /\ UNCHANGED <<request, wire, arrived, closed, binary_body>>

ReadChunk == /\ reader_pc = "chunk" /\ Available(read_len)
             /\ binary_body' = binary_body \o Got(read_len)
             /\ pos' = pos + Len(Got(read_len))
             /\ reader_pc' = "delimiter"
             /\ UNCHANGED <<request, wire, arrived, closed, buf, read_len>>

\* Fault: the end of the connection ends the body.
ReadDelimiterAtEnd ==
    /\ reader_pc = "delimiter" /\ Available(2)
    /\ pos' = pos + Len(Got(2))
    /\ reader_pc' = IF Got(2) = <<>> THEN "post"
                    ELSE IF Got(2) = Delimiter THEN "length" ELSE "raised"
    /\ UNCHANGED <<request, wire, arrived, closed, buf, read_len, binary_body>>

(* _read_delimiter.  Bytes are never equal to the string '', so that the   *)
(* end of the connection raises like any other bytes.                      *)
ReadDelimiter == /\ reader_pc = "delimiter" /\ Available(2)
                 /\ pos' = pos + Len(Got(2))
                 /\ reader_pc' = IF Got(2) = Delimiter THEN "length" ELSE "raised"
                 /\ UNCHANGED <<request, wire, arrived, closed, buf, read_len, binary_body>>

do_POST == \/ ReadHeaders \/ ReadFixed \/ ReadLengthByte \/ ReadChunk \/ ReadDelimiter

ReaderNext == ArriveByte \/ Cut \/ do_POST

ReaderSpec == ReaderInit /\ [][ReaderNext]_reader_vars /\ WF_reader_vars(do_POST)

-----------------------------------------------------------------------------
(* PROPERTIES *)

(* A length the reader can read: digits only, and with the line end within *)
(* max_bytes.                                                              *)
Readable == request.kind = "chunked" =>
                request.extension = <<>> /\ request.width + 2 <= max_bytes

(* POST gets the body that was sent, however it is cut into chunks and     *)
(* whatever bytes it has, or is not called (utils.py 86-119).  It gets a   *)
(* part of it only in two cases: of a body of known length if the          *)
(* connection ends early, and of chunks if a length is not readable, which *)
(* is taken for the last (104, 149-153).                                   *)
BodyWhole ==
    reader_pc = "post" => \/ binary_body = request.body
                          \/ /\ IsPrefix(binary_body, request.body)
                             /\ IF request.kind = "fixed" THEN closed ELSE ~Readable

CutAtLength == \E l \in wire.lengths :
                   l <= arrived /\ arrived < l + Len(LengthLine(request, 0))

(* A handler ends when its connection does, with a body or an exception,   *)
(* unless the connection is cut in or in front of the line of a chunk      *)
(* length: then it reads nothing in a loop for ever (utils.py 141-145).    *)
ReaderEnds == closed /\ ~CutAtLength ~> reader_pc \in {"post", "raised"}
=============================================================================
