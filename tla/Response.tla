-------------------------------- MODULE Response --------------------------------
(***************************************************************************)
(* How handle_server_recv of src/src/handle.c reads one answer of the      *)
(* origin and makes of it what it writes to the client: the header reader, *)
(* get_response_content_length, parse_f4m_response and write_f4m_nolist.   *)
(*                                                                         *)
(* An answer is a sequence of symbols: CR, LF, a blank, or a word, which   *)
(* stands for the characters between. Every offset and length of the code  *)
(* is counted in symbols. A loop over bytes or lines takes one turn per    *)
(* action; what it does when it leaves its buffer depends on memory that is *)
(* not its own, and the model ends there ("lost").                         *)
(***************************************************************************)
EXTENDS Integers, Sequences, FiniteSets

CONSTANT Streams  (* what the origin may send before it closes             *)

(* Words: headers, and what a line of a manifest begins with.              *)
HeaderWords == {"length", "video", "xml", "html", "header"}
BodyWords == {"bitrate", "bootstrap", "mediaEnd", "metadataEnd", "manifestEnd", "text"}

(* n is the number of a Content-Length header, 0 for any other symbol.     *)
Symbol == [w : {"CR", "LF", "blank", "nul"} \cup HeaderWords \cup BodyWords, n : Nat]

Sym(w) == [w |-> w, n |-> 0]
CR == Sym("CR")
LF == Sym("LF")
Blank == Sym("blank")
ContentLength(k) == [w |-> "length", n |-> k]

ASSUME ResponseAssumption == Streams \subseteq Seq(Symbol)

VARIABLES
  stream,   (* what the origin sends                                       *)
  phase,    (* where handle_server_recv is: see Phases                     *)
  state,    (* state of the header reader                                  *)
  got,      (* total_read while the header is read                         *)
  big,      (* big_buffer                                                  *)
  head,     (* headbuffer                                                  *)
  xml,      (* what xml_start points to                                    *)
  at,       (* total: how far a loop over lines has come                   *)
  noWrite,  (* no_write                                                    *)
  kept,     (* buffer, up to write_offset: what is kept of the XML         *)
  out       (* new_buffer, up to buffer_offset; in the end what is written *)

readVars == <<stream, state, got, big>>
xmlVars == <<head, xml, at, noWrite, kept>>
responseVars == <<phase, readVars, xmlVars, out>>

Phases == {"header", "body", "parse", "xml", "head", "written", "lost"}

-----------------------------------------------------------------------------
(* Lines *)

Least(S) == CHOOSE i \in S : \A j \in S : i <= j

(* read_line stops at an LF and at nothing else: from a place that has none *)
(* before it in the buffer it reads on in memory that is not the buffer's.  *)
EndsInside(b, i) == \E j \in i .. Len(b) : b[j] = LF

(* The line at place i, through its LF; of one that has none, what of it is *)
(* in the buffer.                                                           *)
LineEnd(b, i) ==
  LET ends == {j \in i .. Len(b) : b[j] = LF}
  IN  IF ends = {} THEN Len(b) ELSE Least(ends)

Line(b, i) == SubSeq(b, i, LineEnd(b, i))

LineStarts(b) == {i \in 1 .. Len(b) : i = 1 \/ b[i - 1] = LF}

(* Keys start_with is given, with their lengths: "Content-Length:",        *)
(* "Content-Length", "Content-Type", "bitrate", "</media>", "</manifest>". *)
KeySize ==
  [lengthColon |-> 15, length |-> 14, type |-> 12,
   bitrate |-> 7, mediaEnd |-> 8, manifestEnd |-> 11]

(* How many characters a word and a key have in common from their start;   *)
(* bootstrap is bootstrapInfoId, metadataEnd is </metadata>.               *)
Common(w, key) ==
  LET types == {"video", "xml", "html"} IN
  CASE key \in {"lengthColon", "length"} ->
         IF w = "length" THEN KeySize[key] ELSE IF w \in types THEN 8 ELSE 0
    [] key = "type" ->
         IF w \in types THEN 12 ELSE IF w = "length" THEN 8 ELSE 0
    [] key = "bitrate" ->
         IF w = "bitrate" THEN 7 ELSE IF w = "bootstrap" THEN 1 ELSE 0
    [] key = "mediaEnd" ->
         IF w = "mediaEnd" THEN 8 ELSE IF w = "metadataEnd" THEN 4
         ELSE IF w = "manifestEnd" THEN 3 ELSE 0
    [] key = "manifestEnd" ->
         IF w = "manifestEnd" THEN 11 ELSE IF w \in {"mediaEnd", "metadataEnd"} THEN 3 ELSE 0

(* Blanks a line begins with, and the word after them.                     *)
Indent(line) ==
  IF \A i \in DOMAIN line : line[i] = Blank THEN Len(line)
  ELSE Least({i \in DOMAIN line : line[i] # Blank}) - 1

FirstWord(line) ==
  IF Indent(line) = Len(line) THEN "nul" ELSE line[Indent(line) + 1].w

(* Mutant: blanks are not skipped.                                         *)
StartsUnindented(line, key) ==
  Indent(line) = 0 /\ Common(FirstWord(line), key) = KeySize[key]

(* start_with: blanks are skipped but count for the length of the key, so  *)
(* an indented line is compared with the beginning of the key only.        *)
StartsWith(line, key) ==
  \/ Indent(line) >= KeySize[key]
  \/ Common(FirstWord(line), key) >= KeySize[key] - Indent(line)

-----------------------------------------------------------------------------
(* The header *)

(* Mutants of NextState: the second CR is not counted, a line that is not  *)
(* empty does not start the count again, or any CR and LF counts.          *)
NextStateOneCR(s, c) ==
  CASE c = CR -> IF s = 0 THEN 1 ELSE s
    [] c = LF -> IF s = 1 THEN 2 ELSE s
    [] OTHER  -> IF s = 2 THEN 0 ELSE s

NextStateNoReset(s, c) ==
  CASE c = CR -> IF s \in {0, 2} THEN s + 1 ELSE s
    [] c = LF -> IF s = 1 THEN 2 ELSE s
    [] OTHER  -> s

NextStateCounts(s, c) == IF c \in {CR, LF} THEN s + 1 ELSE 0

(* How the header reader counts towards CR LF CR LF.                       *)
NextState(s, c) ==
  CASE c = CR -> IF s \in {0, 2} THEN s + 1 ELSE s
    [] c = LF -> IF s = 1 THEN 2 ELSE s
    [] OTHER  -> IF s = 2 THEN 0 ELSE s

ReadHeader ==
  /\ phase = "header"
  /\ got < Len(stream)
  /\ LET c == stream[got + 1] IN
       /\ state' = NextState(state, c)
       /\ phase' = IF c = LF /\ state' = 3 THEN "body" ELSE "header"
  /\ got' = got + 1
  /\ UNCHANGED <<stream, big, xmlVars, out>>

(* The origin closes before the header ends.                               *)
HeaderCut ==
  /\ phase = "header"
  /\ got = Len(stream)
  /\ phase' = "body"
  /\ UNCHANGED <<readVars, xmlVars, out>>

Lost == phase' = "lost" /\ UNCHANGED <<readVars, xmlVars, out>>

(* Where in b the lines are that begin with key.                           *)
LinesOf(b, key) == {i \in LineStarts(b) : StartsWith(Line(b, i), key)}

(* get_response_content_length: the number is looked for at a fixed place, *)
(* where a line indented by more than one blank does not have it.          *)
Announced(b) ==
  LET line == Line(b, Least(LinesOf(b, "lengthColon")))
  IN  IF Indent(line) <= 1 THEN line[Indent(line) + 1].n ELSE 0

(* It ends only at such a line, and in that line only at a CR.             *)
HasLength(b) ==
  /\ LinesOf(b, "lengthColon") # {}
  /\ \E i \in DOMAIN Line(b, Least(LinesOf(b, "lengthColon"))) :
       Line(b, Least(LinesOf(b, "lengthColon")))[i] = CR

(* recv with MSG_WAITALL: the announced length, or what there is of it;    *)
(* the rest of big_buffer is zero.                                         *)
ReadBody ==
  /\ phase = "body"
  /\ LET buffer == SubSeq(stream, 1, got) IN
       /\ HasLength(buffer)
       /\ big' = [i \in 1 .. got + Announced(buffer) |->
                   IF i <= Len(stream) THEN stream[i] ELSE Sym("nul")]
  /\ phase' = "parse"
  /\ UNCHANGED <<stream, state, got, xmlVars, out>>

(* Without such a line, or without its CR, the loop goes on past buffer. If *)
(* the line is the last and is cut short of its LF, its 8192 bytes reach    *)
(* past buffer by as many as stand before it.                               *)
LengthOverrun ==
  /\ phase = "body"
  /\ LET buffer == SubSeq(stream, 1, got)
         i == Least(LinesOf(buffer, "lengthColon"))
     IN  HasLength(buffer) => i > 1 /\ ~EndsInside(buffer, i)
  /\ Lost

-----------------------------------------------------------------------------
(* What it is, and what is written of it *)

TypeLine == Line(big, Least(LinesOf(big, "type")))

(* sscanf does not skip blanks before Content-Type: of an indented line it *)
(* reads nothing, and type is what the stack holds. Where the buffer ends  *)
(* with the name of the type, what lies behind it may be read as part of   *)
(* the name, which is then neither of the two that are known.              *)
TypesRead ==
  CASE TypeLine[1] = Blank -> {"video", "xml", "html"}
    [] TypeLine[1] # Blank /\ Len(TypeLine) = 1 -> {TypeLine[1].w, "html"}
    [] OTHER -> {TypeLine[1].w}

WriteUnchanged ==
  /\ phase' = "written"
  /\ out' = big
  /\ UNCHANGED <<readVars, xmlVars>>

(* A header that follows Content-Type loses its first character.           *)
From(b, i) ==
  LET rest == SubSeq(b, i + 1, Len(b))
  IN  IF i > Len(b) \/ b[i].w \in {"CR", "LF", "blank", "nul"}
      THEN rest ELSE <<Sym("header")>> \o rest

(* parse_f4m_response: only text/xml is rewritten. Its header is what      *)
(* comes up to the line of Content-Type and one character more.            *)
Parse ==
  /\ phase = "parse"
  /\ IF LinesOf(big, "type") = {} THEN WriteUnchanged
     ELSE LET start == Least(LinesOf(big, "type"))
              end == LineEnd(big, start)
          IN
          \E type \in TypesRead :
            IF type # "xml" THEN WriteUnchanged
            ELSE /\ EndsInside(big, start)
                 /\ head' = SubSeq(big, 1, IF end < Len(big) THEN end + 1 ELSE end)
                 /\ xml' = From(big, end + 1)
                 /\ phase' = "xml"
                 /\ UNCHANGED <<readVars, at, noWrite, kept, out>>

(* The last line it reads, that of Content-Type or the last of all, may not *)
(* end in big_buffer. The line read then ends in other memory, and so does  *)
(* what would be the header of a manifest.                                  *)
ParseOverrun ==
  /\ phase = "parse"
  /\ LET last == IF LinesOf(big, "type") = {} THEN Len(big) ELSE Least(LinesOf(big, "type"))
     IN  ~EndsInside(big, last)
  /\ Lost

(* The line the loops over the XML and over the header look at.            *)
XmlLine == Line(xml, at + 1)
HeaderLine == Line(head, at + 1)

NextLine(line) == at' = at + Len(line)

Keep(line) == kept' = IF noWrite THEN kept ELSE kept \o line

InXml == phase = "xml" /\ at < Len(xml) /\ UNCHANGED <<readVars, head, xml, out>>

(* The loop goes on with the next line only if this one ends in big_buffer. *)
InXmlOn == InXml /\ EndsInside(xml, at + 1)

(* A line of the list of bitrates is not kept.                             *)
DropBitrate ==
  /\ InXmlOn
  /\ StartsWith(XmlLine, "bitrate")
  /\ NextLine(XmlLine)
  /\ UNCHANGED <<phase, noWrite, kept>>

(* Mutant of the next definition: no_write is not set.                     *)
KeepMediaEndOnly ==
  /\ InXmlOn
  /\ ~StartsWith(XmlLine, "bitrate") /\ StartsWith(XmlLine, "mediaEnd")
  /\ Keep(XmlLine)
  /\ NextLine(XmlLine)
  /\ UNCHANGED <<phase, noWrite>>

(* After the end of the first medium nothing more is kept ...              *)
KeepMediaEnd ==
  /\ InXmlOn
  /\ ~StartsWith(XmlLine, "bitrate") /\ StartsWith(XmlLine, "mediaEnd")
  /\ Keep(XmlLine)
  /\ NextLine(XmlLine)
  /\ noWrite' = TRUE
  /\ UNCHANGED phase

KeepLine ==
  /\ InXmlOn
  /\ \A key \in {"bitrate", "mediaEnd", "manifestEnd"} : ~StartsWith(XmlLine, key)
  /\ Keep(XmlLine)
  /\ NextLine(XmlLine)
  /\ UNCHANGED <<phase, noWrite>>

(* ... but the end of the manifest, without its end of line: that one may  *)
(* be missing, what is read for it is not looked at.                       *)
EndManifest ==
  /\ InXml
  /\ StartsWith(XmlLine, "manifestEnd")
  /\ \A key \in {"bitrate", "mediaEnd"} : ~StartsWith(XmlLine, key)
  /\ kept' = Append(kept, Sym("manifestEnd"))
  /\ phase' = "head"
  /\ at' = 0
  /\ UNCHANGED noWrite

(* A line that does not end in big_buffer, be it the one of </manifest>,   *)
(* where alone the loop stops, is read on past it.                         *)
XmlOverrun == phase = "xml" /\ ~EndsInside(xml, at + 1) /\ Lost

InHead ==
  /\ phase = "head"
  /\ EndsInside(head, at + 1)
  /\ UNCHANGED <<readVars, head, xml, noWrite, kept>>

(* Mutant of the number given: write_offset.                               *)
NewLengthFull == Len(kept)

(* kept begins with the LF of the empty line, which is not of the body.    *)
NewLength == Len(kept) - 1

ReplaceLength ==
  /\ InHead
  /\ StartsWith(HeaderLine, "length")
  /\ out' = out \o <<ContentLength(NewLength), CR, LF>>
  /\ NextLine(HeaderLine)
  /\ UNCHANGED phase

CopyHeader ==
  /\ InHead
  /\ ~StartsWith(HeaderLine, "length") /\ ~StartsWith(HeaderLine, "type")
  /\ out' = out \o HeaderLine
  /\ NextLine(HeaderLine)
  /\ UNCHANGED phase

(* Content-Type is the last header copied. The CR of the empty line goes   *)
(* back before its LF.                                                     *)
CopyTypeAndWrite ==
  /\ InHead
  /\ ~StartsWith(HeaderLine, "length") /\ StartsWith(HeaderLine, "type")
  /\ out' = out \o HeaderLine \o <<CR>> \o kept
  /\ phase' = "written"
  /\ UNCHANGED at

HeadOverrun == phase = "head" /\ ~EndsInside(head, at + 1) /\ Lost

-----------------------------------------------------------------------------
ResponseInit ==
  /\ stream \in Streams
  /\ phase = "header"
  /\ state = 0
  /\ got = 0
  /\ big = <<>>
  /\ head = <<>>
  /\ xml = <<>>
  /\ at = 0
  /\ noWrite = FALSE
  /\ kept = <<>>
  /\ out = <<>>

WriteF4m ==
  \/ DropBitrate \/ KeepMediaEnd \/ KeepLine \/ EndManifest \/ XmlOverrun
  \/ ReplaceLength \/ CopyHeader \/ CopyTypeAndWrite \/ HeadOverrun

ResponseNext ==
  \/ ReadHeader \/ HeaderCut \/ ReadBody \/ LengthOverrun
  \/ Parse \/ ParseOverrun \/ WriteF4m

ResponseSpec == ResponseInit /\ [][ResponseNext]_responseVars

-----------------------------------------------------------------------------
(* Properties *)

ResponseTypeOK ==
  /\ stream \in Seq(Symbol)
  /\ phase \in Phases
  /\ state \in 0 .. 3
  /\ got \in 0 .. Len(stream)
  /\ big \in Seq(Symbol)
  /\ head \in Seq(Symbol)
  /\ xml \in Seq(Symbol)
  /\ at \in Nat
  /\ noWrite \in BOOLEAN
  /\ kept \in Seq(Symbol)
  /\ out \in Seq(Symbol)

(* An empty line ends at place i of b.                                     *)
BlankLineEnds(b, i) ==
  i >= 4 /\ i <= Len(b) /\ b[i - 3] = CR /\ b[i - 2] = LF /\ b[i - 1] = CR /\ b[i] = LF

(* The header reader never reads past the end of the header, whatever bare *)
(* CRs and LFs came before it: the body is not eaten a byte at a time.     *)
HeaderNotOverrun ==
  \A i \in 1 .. got : BlankLineEnds(stream, i) => got = i /\ phase # "header"

(* Where CR and LF have come in pairs it does not stop before the end      *)
(* either.                                                                 *)
PairedTo(b, k) ==
  \A i \in 1 .. k :
    /\ b[i] = CR /\ i < k => b[i + 1] = LF
    /\ b[i] = LF => i > 1 /\ b[i - 1] = CR

HeaderWhole ==
  phase # "header" /\ PairedTo(stream, got) =>
    got = Len(stream) \/ BlankLineEnds(stream, got)

(* The part of the inductive invariant behind the two: what the state of   *)
(* the reader says of the symbols read last.                               *)
StateCounts ==
  phase = "header" =>
    /\ got >= 1 /\ stream[got] = CR => state \in {1, 3}
    /\ got >= 2 /\ stream[got - 1] = CR /\ stream[got] = LF => state = 2
    /\ /\ got >= 3
       /\ stream[got - 2] = CR /\ stream[got - 1] = LF /\ stream[got] = CR
       => state = 3

StateIsExact ==
  phase = "header" /\ PairedTo(stream, got) =>
    /\ state = 1 => got >= 1 /\ stream[got] = CR
    /\ state = 2 => got >= 2 /\ stream[got - 1] = CR /\ stream[got] = LF
    /\ state = 3 => /\ got >= 3
                    /\ stream[got - 2] = CR /\ stream[got - 1] = LF /\ stream[got] = CR

HeaderInv ==
  /\ state \in 0 .. 3
  /\ got \in 0 .. Len(stream)
  /\ HeaderNotOverrun
  /\ HeaderWhole
  /\ StateCounts
  /\ StateIsExact

(* An answer as the origin sends it: lines in pairs of CR and LF, a header *)
(* of lines without indentation, one Content-Length, one Content-Type,     *)
(* which is last, an empty line, a body of the length announced.           *)
HeaderEnd(b) == Least({i \in 1 .. Len(b) : BlankLineEnds(b, i)})
Body(b) == SubSeq(b, HeaderEnd(b) + 1, Len(b))

HeaderFits(h, length) ==
  /\ PairedTo(h, Len(h))
  /\ \A i \in LineStarts(h) : h[i] # Blank
  /\ \E l \in LineStarts(h), t \in LineStarts(h) :
       /\ \A i \in DOMAIN h : h[i].w = "length" <=> i = l
       /\ h[l].n = length
       /\ \A i \in DOMAIN h : h[i].w \in {"video", "xml", "html"} <=> i = t
       /\ LineEnd(h, t) + 2 = Len(h)

WellFormed(b) ==
  /\ \E i \in 1 .. Len(b) : BlankLineEnds(b, i)
  /\ HeaderFits(SubSeq(b, 1, HeaderEnd(b)), Len(b) - HeaderEnd(b))

(* An answer that is well formed when it comes is well formed when it is   *)
(* written: the number put in place of Content-Length is that of the body  *)
(* that is kept, although it was counted from one symbol before it.        *)
WellFormedStays == phase = "written" /\ WellFormed(stream) => WellFormed(out)

IsXml(b) == \E i \in 1 .. HeaderEnd(b) : b[i].w = "xml"

(* Which line symbol i is in, and what a rewritten manifest keeps: up to   *)
(* the end of the first medium the lines that give no bitrate, then the    *)
(* end of the manifest.                                                    *)
StartsLine(b, i) == CHOOSE s \in LineStarts(b) : s <= i /\ i <= LineEnd(b, s)

StartsOf(b, word) == {s \in LineStarts(b) : FirstWord(Line(b, s)) = word}

KeepsLine(b, s) ==
  /\ s \notin StartsOf(b, "bitrate")
  /\ \A m \in StartsOf(b, "mediaEnd") : s <= m
  /\ \A m \in StartsOf(b, "manifestEnd") : s < m

(* The elements of b at the places of P, in order: the k-th is at the      *)
(* place that has k places of P up to it.                                  *)
Picked(b, P) ==
  [k \in 1 .. Cardinality(P) |->
    b[Least({i \in P : Cardinality({j \in P : j <= i}) = k})]]

KeptPlaces(b) == {i \in 1 .. Len(b) : KeepsLine(b, StartsLine(b, i))}

Rewritten(b) == Append(Picked(b, KeptPlaces(b)), Sym("manifestEnd"))

(* No line is indented so far that what is left of a key to compare fits   *)
(* another word: by four, </metadata> passes for </media>.                 *)
Shallow(b) == \A s \in LineStarts(b) : Indent(Line(b, s)) <= 3

Complete(b) ==
  /\ WellFormed(b)
  /\ IsXml(b) => Shallow(Body(b)) /\ StartsOf(Body(b), "manifestEnd") # {}

(* What the client gets of a complete answer is the answer symbol for      *)
(* symbol or, of a manifest, the manifest without its list of bitrates and *)
(* the further media.                                                      *)
RelaysFaithfully ==
  phase = "written" /\ Complete(stream) =>
    IF IsXml(stream) THEN Body(out) = Rewritten(Body(stream)) ELSE out = stream

(* The end of a manifest has an end of line of its own.                    *)
ManifestLineEnds(b) ==
  IsXml(b) => \E m \in StartsOf(Body(b), "manifestEnd") : EndsInside(Body(b), m)

(* The loops over the header for its length and over the manifest for its  *)
(* end, which know no end of their buffers, do not leave them on a complete *)
(* answer; of a manifest that is so if the line of </manifest> ends with an *)
(* LF, which an XML document need not have.                                *)
CompleteNeverLost == phase = "lost" => ~(Complete(stream) /\ ManifestLineEnds(stream))
=============================================================================
