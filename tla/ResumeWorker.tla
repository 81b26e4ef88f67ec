---------------------------- MODULE ResumeWorker ----------------------------
(***************************************************************************)
(* The child that reads a resume                                           *)
(* (src/packages/recruiter-mcp/src/resume-parser-worker.mjs).  Before a    *)
(* third-party parser sees a document, every stream of a PDF and every     *)
(* entry of a DOCX is decoded once and measured, so that no document       *)
(* expands past a bound; what the parser returns is cut to a byte limit.   *)
(*                                                                         *)
(* Bytes are abstracted to what the measuring distinguishes.  Two of the   *)
(* decoders size a buffer in one pass, without clearing it, and fill it in *)
(* a second: the two passes must agree.                                    *)
(***************************************************************************)
EXTENDS Naturals, Sequences, SequencesExt

CONSTANTS
    MaxStream, MaxExpanded, MaxStreams,  \* MAX_PDF_* and MAX_DOCX_*
    MaxRatio, MaxOutput,
    Documents,  \* sequences of PDF streams
    Archives,   \* sequences of DOCX entries
    Encoded,    \* sequences of encoded bytes
    Texts       \* sequences of characters, each its length in UTF-8

VARIABLES kind, input, i, expanded, names, verdict

vars == <<kind, input, i, expanded, names, verdict>>

Classes == {"open", "ok", "size_limit", "suspicious", "malformed", "encrypted"}

TypeOK ==
    /\ kind \in {"pdf", "docx", "ascii85", "runlength", "text"}
    /\ i \in 0..Len(input)
    /\ expanded \in 0..MaxExpanded
    /\ verdict \in Classes

Init ==
    /\ \/ kind = "pdf" /\ input \in Documents
       \/ kind = "docx" /\ input \in Archives
       \/ kind \in {"ascii85", "runlength"} /\ input \in Encoded
       \/ kind = "text" /\ input \in Texts
    /\ i = 0
    /\ expanded = 0
    /\ names = {}
    /\ verdict = "open"

Least(a, b) == IF a < b THEN a ELSE b

Fails(class) ==
    /\ verdict' = class
    /\ UNCHANGED <<kind, input, i, expanded, names>>

-----------------------------------------------------------------------------
(***************************************************************************)
(* A PDF stream: `raw' bytes in the file and the size after each filter.   *)
(* Decoders stop at the limit; a JPEG is measured by its pixels and must   *)
(* be the last filter; an unknown filter is refused.                       *)
(***************************************************************************)

StageLimit(remaining) == Least(MaxStream, remaining)

Stages(s) == 1..Len(s.filters)

\* The first filter at which measurePdfStream throws, if there is one.
Throws(s, k, remaining) ==
    \/ s.filters[k] \in {"Crypt", "other"}
    \/ s.filters[k] = "DCT" /\ k # Len(s.filters)
    \/ s.filters[k] = "Flate" /\ s.sizes[k] > StageLimit(remaining)

measurePdfStream(s, remaining) ==
    LET bad == {k \in Stages(s) : Throws(s, k, remaining)}
        size == IF s.filters = <<>> THEN s.raw ELSE Last(s.sizes)
    IN  IF bad # {}
        THEN LET k == CHOOSE x \in bad : \A y \in bad : x <= y
             IN CASE s.filters[k] = "Crypt" -> "encrypted"
                  [] s.filters[k] = "Flate" -> "size_limit"
                  [] OTHER -> "suspicious"
        ELSE IF size > StageLimit(remaining) THEN "size_limit" ELSE "ok"

\* validatePdfStreams: the loop's turn at the next `stream'.
PdfStream ==
    /\ kind = "pdf" /\ verdict = "open" /\ i < Len(input)
    /\ LET s == input[i + 1]
           class == IF i + 1 > MaxStreams THEN "size_limit"
                    ELSE IF ~s.dictionary THEN "suspicious"
                    ELSE measurePdfStream(s, MaxExpanded - expanded)
       IN IF class # "ok" THEN Fails(class)
          ELSE /\ i' = i + 1
               /\ expanded' = expanded +
                    (IF s.filters = <<>> THEN s.raw ELSE Last(s.sizes))
               /\ UNCHANGED <<kind, input, names, verdict>>

-----------------------------------------------------------------------------
(***************************************************************************)
(* A DOCX entry: its declared and actual size and its checksum.            *)
(***************************************************************************)

EntryIsHonest(e) ==
    IF e.encrypted THEN "encrypted"
    ELSE IF e.name = "../up" \/ e.name \in names \/ e.declared > MaxStream THEN "suspicious"
    ELSE IF expanded + e.declared > MaxExpanded \/ e.declared > MaxRatio * e.packed
         THEN "size_limit"
    ELSE IF e.actual > e.declared THEN "size_limit"
    ELSE IF e.actual # e.declared \/ ~e.crc THEN "malformed" ELSE "ok"

DocxEntry ==
    /\ kind = "docx" /\ verdict = "open" /\ i < Len(input)
    /\ LET e == input[i + 1]
       IN IF EntryIsHonest(e) # "ok" THEN Fails(EntryIsHonest(e))
          ELSE /\ i' = i + 1
               /\ expanded' = expanded + e.declared
               /\ names' = names \cup {e.name}
               /\ UNCHANGED <<kind, input, verdict>>

\* The end of the file, or of the archive: a DOCX has its two parts.
EndOfDocument ==
    /\ kind \in {"pdf", "docx"} /\ verdict = "open" /\ i = Len(input)
    /\ IF kind = "docx" /\ ~({"types", "document"} \subseteq names)
       THEN Fails("suspicious") ELSE Fails("ok")

-----------------------------------------------------------------------------
(***************************************************************************)
(* ASCII85: "lo" and "hi" are digits (five "hi" exceed 32 bits), "z" four  *)
(* zero bytes, "w" white space, "end" the two-character terminator.        *)
(* A fold carries <<bytes out, digits in the group, all of them hi>>.      *)
(***************************************************************************)
Body(s) == LET ends == {k \in 1..Len(s) : s[k] = "end"}
           IN IF ends = {} THEN s
              ELSE SubSeq(s, 1, (CHOOSE k \in ends : \A x \in ends : k <= x) - 1)
Rest(s) == SubSeq(s, Len(Body(s)) + 2, Len(s))

Digit(state, x) ==
    CASE x = "w" -> state
      [] x = "z" /\ state[2] = 0 -> <<state[1] + 4, 0, TRUE>>
      [] x = "z" /\ state[2] # 0 -> <<state[1], 9, FALSE>>
      [] state[2] = 9 -> state
      [] OTHER -> LET hi == state[3] /\ x = "hi"
                  IN IF state[2] = 4 THEN IF hi THEN <<state[1], 9, FALSE>>
                                          ELSE <<state[1] + 4, 0, TRUE>>
                     ELSE <<state[1], state[2] + 1, hi>>

\* Bytes that measureAscii85Stream counts for a well-formed stream.
Measured85(s) ==
    LET end == FoldLeft(Digit, <<0, 0, TRUE>>, Body(s))
    IN  end[1] + (IF end[2] > 1 THEN end[2] - 1 ELSE 0)

measureAscii85Stream(s) ==
    LET end == FoldLeft(Digit, <<0, 0, TRUE>>, Body(s))
    IN  IF Len(Body(s)) = Len(s) \/ end[2] \in {1, 9}
           \/ (\E k \in 1..Len(Rest(s)) : Rest(s)[k] # "w") THEN "malformed"
        ELSE IF Measured85(s) > MaxStream THEN "size_limit" ELSE "ok"

\* decodeAscii85Stream: the offsets it writes to, group after group.
Write85(state, x) ==
    CASE x = "w" -> state
      [] x = "z" /\ state[2] = 0 -> <<state[1] \cup (state[3] .. state[3] + 3), 0, state[3] + 4>>
      [] state[2] = 4 -> <<state[1] \cup (state[3] .. state[3] + 3), 0, state[3] + 4>>
      [] OTHER -> <<state[1], state[2] + 1, state[3]>>

decodeAscii85Stream(s) ==
    LET end == FoldLeft(Write85, <<{}, 0, 0>>, Body(s))
    IN  end[1] \cup (IF end[2] > 1 THEN end[3] .. end[3] + end[2] - 2 ELSE {})

(***************************************************************************)
(* Run length: "lit1" and "lit2" announce one or two literal bytes,        *)
(* "run2" and "run3" a byte to repeat, "end" the end.  Any other byte is   *)
(* data.                                                                   *)
(***************************************************************************)
Literals(x) == IF x = "lit1" THEN 1 ELSE IF x = "lit2" THEN 2 ELSE 0
Runs(x) == IF x = "run2" THEN 2 ELSE IF x = "run3" THEN 3 ELSE 0

\* The first pass: what decoding s from p on adds, or -1 when it throws.
RECURSIVE MeasureRuns(_, _, _)
MeasureRuns(s, p, total) ==
    IF total > MaxStream \/ p > Len(s) THEN [total |-> total, ended |-> FALSE]
    ELSE IF s[p] = "end" THEN [total |-> total, ended |-> TRUE]
    ELSE IF Literals(s[p]) > 0
         THEN IF p + Literals(s[p]) > Len(s) THEN [total |-> total, ended |-> FALSE]
              ELSE MeasureRuns(s, p + 1 + Literals(s[p]), total + Literals(s[p]))
    ELSE IF Runs(s[p]) > 0 /\ p + 1 <= Len(s)
         THEN MeasureRuns(s, p + 2, total + Runs(s[p]))
    ELSE [total |-> total, ended |-> FALSE]

\* The second pass: the offsets it writes to.
RECURSIVE WriteRuns(_, _, _)
WriteRuns(s, p, out) ==
    IF p > Len(s) \/ s[p] = "end" THEN {}
    ELSE LET n == Literals(s[p]) + Runs(s[p])
         IN  (out .. out + n - 1) \cup
             WriteRuns(s, p + 1 + (IF Runs(s[p]) > 0 THEN 1 ELSE n), out + n)

Decode ==
    /\ kind \in {"ascii85", "runlength"} /\ verdict = "open"
    /\ IF kind = "ascii85" THEN Fails(measureAscii85Stream(input))
       ELSE LET r == MeasureRuns(input, 1, 0)
            IN Fails(IF r.total > MaxStream THEN "size_limit"
                     ELSE IF r.ended THEN "ok" ELSE "malformed")

-----------------------------------------------------------------------------
SumOf(s) == FoldLeft(LAMBDA a, b : a + b, 0, s)

\* boundUtf8: characters are added while they fit; the first that does not
\* ends the text.
boundUtf8(text) ==
    LET fits == {n \in 0..Len(text) : SumOf(SubSeq(text, 1, n)) <= MaxOutput}
    IN  CHOOSE n \in fits : \A k \in fits : k <= n

Bound ==
    /\ kind = "text" /\ verdict = "open"
    /\ i' = boundUtf8(input)
    /\ verdict' = "ok"
    /\ UNCHANGED <<kind, input, expanded, names>>

Next == PdfStream \/ DocxEntry \/ EndOfDocument \/ Decode \/ Bound

Spec == Init /\ [][Next]_vars

-----------------------------------------------------------------------------
\* A document the parser gets to see expands to no more than the bound in
\* all, and no single decoding step of it produced more than a stream may.
AcceptedIsBounded ==
    kind \in {"pdf", "docx"} /\ verdict = "ok" =>
        /\ expanded <= MaxExpanded
        /\ kind = "pdf" => \A k \in 1..Len(input) : \A f \in Stages(input[k]) :
                              input[k].filters[f] = "Flate" => input[k].sizes[f] <= MaxStream
        /\ kind = "docx" => SumOf([k \in 1..Len(input) |-> input[k].actual]) <= MaxExpanded

\* The buffers of decodeAscii85Stream and decodeRunLengthStream come
\* uncleared: every byte that the first pass sized, and none beside it, is
\* written by the second.
EveryByteIsWritten ==
    verdict = "ok" =>
        /\ kind = "ascii85" =>
              decodeAscii85Stream(input) = 0 .. Measured85(input) - 1
        /\ kind = "runlength" =>
              WriteRuns(input, 1, 0) = 0 .. MeasureRuns(input, 1, 0).total - 1

\* The text returned is the longest prefix, in whole characters, that the
\* byte limit admits (boundUtf8, and the byteLength check of the parent).
CutAtTheLimit ==
    kind = "text" /\ verdict = "ok" =>
        /\ SumOf(SubSeq(input, 1, i)) <= MaxOutput
        /\ i < Len(input) => SumOf(SubSeq(input, 1, i + 1)) > MaxOutput
=============================================================================
