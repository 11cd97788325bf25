---------------------------- MODULE BoundedReader ----------------------------
(* What a content reader makes of one file (crates/extractors/src: lib.rs,   *)
(* pdf.rs, ooxml.rs, image.rs, and the output of ocr.rs): bounded reads, the *)
(* limits on what is unpacked, and the cutting of texts into chunks.  A text *)
(* is the sequence of the widths of its characters in bytes; a unit is a     *)
(* page, a part of an archive, an observation of OCR or the one text there   *)
(* is.  What a parser takes for text is the choice of the file.              *)
EXTENDS Integers, Sequences

CONSTANTS
    FileSet,        \* files: [kind, size, units], a unit: [text, claimed, real]
    LimitSet,       \* limits that a caller may set
    ProbeBytes,     \* max_image_probe_bytes
    MaxEntries      \* MAX_ARCHIVE_ENTRIES, pages, OCR observations

VARIABLES
    file, limits,
    reader,         \* pc, unit, start, unpacked
    chunks,         \* unit, first byte, byte after the last
    outcome

readerVars == <<file, limits, reader, chunks, outcome>>

ReaderKinds == {"text", "pdf", "office", "image", "ocr"}

Limits == [source : Nat, output : Nat, chunks : Nat, chunkBytes : Nat, overlap : Nat,
           unpacked : Nat, side : Nat]
ChunkRows == [unit : Nat, start : Nat, end : Nat]
Outcomes == {"none", "output", "metadata", "invalid_limits", "source_too_large", "invalid_image",
             "source_changed", "dimensions", "inadmissible", "unpacked_limit", "chunk_limit",
             "output_too_large", "cancelled", "time_limit", "invalid"}

\* A character takes at least one byte, and the limits of a caller are unsigned numbers.
ASSUME FilesAndLimits ==
    /\ \A f \in FileSet :
          /\ f.kind \in ReaderKinds /\ f.size \in Nat
          /\ f.units \in Seq([text : Seq(Nat \ {0}), claimed : Nat, real : Nat])
    /\ LimitSet \subseteq Limits

ReaderInit ==
    /\ file \in FileSet /\ limits \in LimitSet
    /\ reader = [pc |-> "open", unit |-> 0, start |-> 0, unpacked |-> 0]
    /\ chunks = <<>> /\ outcome = "none"

-----------------------------------------------------------------------------
(* Lengths, and the places where a text may be cut. *)

Total(numbers) ==
    LET upTo[n \in 0 .. Len(numbers)] == IF n = 0 THEN 0 ELSE upTo[n - 1] + numbers[n]
    IN upTo[Len(numbers)]
Length(text) == Total(text)
Boundaries(text) == {Length(SubSeq(text, 1, n)) : n \in 0 .. Len(text)}
Least(x, y) == IF x < y THEN x ELSE y
\* The last boundary up to x: while !is_char_boundary(x) { x -= 1 }
Floor(text, x) ==
    CHOOSE y \in Boundaries(text) : y <= x /\ \A z \in Boundaries(text) : z <= x => z <= y

ChunkEnd(text, start) ==
    Floor(text, Least(start + limits.chunkBytes, Length(text)))
\* Slip: the overlap may cut a character.
NextStartAnywhere(text, start, end) ==
    IF end - limits.overlap > start THEN end - limits.overlap ELSE end
NextStart(text, start, end) ==
    LET next == IF end <= limits.overlap THEN 0 ELSE Floor(text, end - limits.overlap)
    IN IF next > start THEN next ELSE end

Written(list) == Total([i \in DOMAIN list |-> list[i].end - list[i].start])

-----------------------------------------------------------------------------
(* The steps of extract(). *)

Refuse(why) == /\ reader' = [reader EXCEPT !.pc = "ended"] /\ outcome' = why
               /\ UNCHANGED <<file, limits, chunks>>
Goes(pc) == /\ reader' = [reader EXCEPT !.pc = pc]
            /\ UNCHANGED <<file, limits, chunks, outcome>>

\* validate_limits
ValidLimits ==
    /\ limits.source > 0 /\ limits.output > 0 /\ limits.chunks > 0 /\ limits.unpacked > 0
    /\ limits.chunkBytes >= 4 /\ limits.overlap < limits.chunkBytes

OpenFile ==
    /\ reader.pc = "open"
    /\ IF ~ValidLimits THEN Refuse("invalid_limits")
       ELSE IF file.size > limits.source THEN Refuse("source_too_large")
       ELSE IF file.kind = "image" /\ file.size = 0 THEN Refuse("invalid_image")
       ELSE Goes("read")

\* read_bounded_source and read_probe: the file may have another length by now.
ReadSource(found) ==
    /\ reader.pc = "read"
    /\ IF file.kind = "image"
       THEN IF found < Least(file.size, ProbeBytes)
            THEN Refuse("source_changed") ELSE Goes("probe")
       ELSE IF found > limits.source THEN Refuse("source_too_large")
       ELSE IF found # file.size THEN Refuse("source_changed")
       ELSE Goes("admit")

\* The header of an image: its dimensions, if it has them within the bytes that were read.
Probe(side) ==
    /\ reader.pc = "probe"
    /\ IF side = 0 \/ side > limits.side THEN Refuse("dimensions")
       ELSE /\ reader' = [reader EXCEPT !.pc = "ended"] /\ outcome' = "metadata"
            /\ UNCHANGED <<file, limits, chunks>>

Claims == Total([i \in DOMAIN file.units |-> file.units[i].claimed])
UnitTexts == [i \in DOMAIN file.units |-> file.units[i].text]
\* What is looked at before the first text: the page tree, the directory of an archive with
\* the sizes it claims, all that OCR observed, or the length of a plain text.
Admissible ==
    CASE file.kind = "text" -> Length(UnitTexts[1]) <= limits.output
      [] file.kind = "pdf" -> file.units # <<>> /\ Len(file.units) <= MaxEntries
      [] file.kind = "office" -> /\ file.units # <<>> /\ Len(file.units) <= MaxEntries
                                 /\ Claims <= 4 * limits.unpacked
      [] file.kind = "ocr" -> /\ Len(file.units) <= Least(MaxEntries, limits.chunks)
                              /\ \A i \in DOMAIN UnitTexts : UnitTexts[i] # <<>>
                              /\ Total([i \in DOMAIN UnitTexts |-> Length(UnitTexts[i])])
                                   <= limits.output

AdmitFile ==
    /\ reader.pc = "admit"
    /\ IF Admissible THEN Goes("unit") ELSE Refuse("inadmissible")

Unit == file.units[reader.unit]
\* Slip: the size that the archive claims is what is counted.
UnpacksByClaim(u) ==
    CASE file.kind = "office" -> u.claimed <= limits.unpacked - reader.unpacked
      [] file.kind = "pdf" -> u.real <= limits.unpacked
      [] OTHER -> TRUE
\* read_selected_part, extract_text_with_limit
Unpacks(u) ==
    CASE file.kind = "office" -> /\ u.claimed <= limits.unpacked - reader.unpacked
                                 /\ u.real = u.claimed
      [] file.kind = "pdf" -> u.real <= limits.unpacked
      [] OTHER -> TRUE

NextUnit ==
    /\ reader.pc = "unit"
    /\ IF reader.unit = Len(file.units)
       THEN /\ reader' = [reader EXCEPT !.pc = "ended"] /\ outcome' = "output"
            /\ UNCHANGED <<file, limits, chunks>>
       ELSE LET u == file.units[reader.unit + 1]
            IN IF Unpacks(u)
               THEN /\ reader' = [reader EXCEPT !.pc = "cut", !.unit = @ + 1, !.start = 0,
                                  !.unpacked = IF file.kind = "office" THEN @ + u.real ELSE @]
                    /\ UNCHANGED <<file, limits, chunks, outcome>>
               ELSE Refuse("unpacked_limit")

Extended(start, end) == Append(chunks, [unit |-> reader.unit, start |-> start, end |-> end])
\* Why no chunk from start to end can be added.
Refusal(start, end) ==
    CASE Len(chunks) >= limits.chunks -> "chunk_limit"
      [] Len(chunks) < limits.chunks /\ end = start -> "invalid_limits"
      [] /\ Len(chunks) < limits.chunks /\ end > start
         /\ Written(Extended(start, end)) > limits.output -> "output_too_large"
      [] OTHER -> "none"

\* chunk_utf8, append_page_chunks, append_structural_chunks, build_ocr_extraction_output
Cut ==
    /\ reader.pc = "cut"
    /\ LET start == reader.start
           end == ChunkEnd(Unit.text, start)
       IN IF start >= Length(Unit.text) THEN Goes("unit")
          ELSE IF Refusal(start, end) # "none" THEN Refuse(Refusal(start, end))
          ELSE /\ chunks' = Extended(start, end)
               /\ reader' = IF end = Length(Unit.text) THEN [reader EXCEPT !.pc = "unit"]
                            ELSE [reader EXCEPT !.start = NextStart(Unit.text, start, end)]
               /\ UNCHANGED <<file, limits, outcome>>

\* check_control before each read, unit and chunk, or a parser that gives up.
InterruptReader ==
    /\ reader.pc \in {"read", "probe", "admit", "unit", "cut"}
    /\ \E why \in {"cancelled", "time_limit", "invalid"} : Refuse(why)

ReaderNext ==
    \/ OpenFile \/ AdmitFile \/ NextUnit \/ Cut \/ InterruptReader
    \/ \E found \in {0, file.size, file.size + 1} : ReadSource(found)
    \/ \E side \in {0, limits.side, limits.side + 1} : Probe(side)

ReaderSpec == ReaderInit /\ [][ReaderNext]_readerVars

-----------------------------------------------------------------------------
(* Properties. *)

ReaderTypeOK ==
    /\ file.kind \in ReaderKinds /\ limits \in Limits /\ outcome \in Outcomes
    /\ reader.unit \in 0 .. Len(file.units) /\ (reader.pc = "cut" => reader.unit > 0)
    /\ chunks \in Seq(ChunkRows)
    /\ \A i \in DOMAIN chunks : chunks[i].unit \in DOMAIN file.units

\* Does the chunk before this one belong to the same unit?  Does the one after it?
Continues(i) == i > 1 /\ chunks[i - 1].unit = chunks[i].unit
Continued(i) == i < Len(chunks) /\ chunks[i + 1].unit = chunks[i].unit
\* The chunks of a text cover it without a gap, each begins after the one before it began, and
\* no character is cut.
Tiles(i, text) ==
    LET c == chunks[i]  before == chunks[i - 1]
    IN /\ {c.start, c.end} \subseteq Boundaries(text)
       /\ c.start < c.end /\ c.end - c.start <= limits.chunkBytes
       /\ IF Continues(i)
          THEN before.start < c.start /\ c.start <= before.end /\ before.end <= c.end
          ELSE c.start = 0
       /\ Continued(i) \/ c.end = Length(text)
\* An output is whole, the texts of the file in their order and nothing else, and within every
\* limit; whatever the archive claims, what is unpacked stays within its limit at all times.
OutputIsWhole ==
    /\ outcome = "output" =>
          /\ \A i \in DOMAIN chunks : Tiles(i, file.units[chunks[i].unit].text)
          /\ \A i, k \in DOMAIN chunks : i <= k => chunks[i].unit <= chunks[k].unit
          /\ \A u \in DOMAIN file.units :
               file.units[u].text = <<>> \/ \E i \in DOMAIN chunks : chunks[i].unit = u
    /\ Len(chunks) <= limits.chunks /\ Written(chunks) <= limits.output
    /\ reader.unpacked <= limits.unpacked
=============================================================================
