---------------------------- MODULE ResponseProofs ----------------------------
(***************************************************************************)
(* Proofs about module Response: where the header reader stops, on any     *)
(* stream an origin may send.                                              *)
(***************************************************************************)
EXTENDS Response, SequenceTheorems, FiniteSetTheorems, WellFoundedInduction, TLAPS

(* The two symbols the reader counts are told apart.                       *)
LEMMA Distinct == CR # LF
<1>1. CR.w = "CR" /\ LF.w = "LF"
  BY DEF CR, LF, Sym
<1> QED BY <1>1

LEMMA HeaderInit == ResponseInit => HeaderInv
BY ResponseAssumption
  DEF ResponseInit, HeaderInv, HeaderNotOverrun, HeaderWhole, StateCounts, StateIsExact

(* Steps after the header leave all that the invariant is about alone.     *)
LEMMA AfterHeader ==
  ASSUME HeaderInv, phase # "header", phase' # "header", UNCHANGED <<stream, state, got>>
  PROVE  HeaderInv'
BY DEF HeaderInv, HeaderNotOverrun, HeaderWhole, StateCounts, StateIsExact, BlankLineEnds, PairedTo

(* One symbol more: the state stays a count of the symbols of CR LF CR LF  *)
(* read last, so the reader leaves at the first empty line.                *)
LEMMA ReadHeaderStep ==
  ASSUME stream \in Seq(Symbol), HeaderInv, ReadHeader
  PROVE  HeaderInv'
<1> DEFINE c == stream[got + 1]
<1>1. /\ phase = "header"
      /\ got \in Nat /\ got < Len(stream) /\ got' = got + 1
      /\ Len(stream) \in Nat
      /\ stream' = stream
      /\ state' = NextState(state, c)
      /\ phase' = IF c = LF /\ state' = 3 THEN "body" ELSE "header"
  BY DEF ReadHeader, HeaderInv
<1>2. state \in 0 .. 3
  BY DEF HeaderInv
<1>3. /\ c = CR => state' = (IF state \in {0, 2} THEN state + 1 ELSE state)
      /\ c = LF => state' = (IF state = 1 THEN 2 ELSE state)
      /\ c # CR /\ c # LF => state' = (IF state = 2 THEN 0 ELSE state)
  BY <1>1, Distinct DEF NextState
<1>4. state' \in 0 .. 3 /\ got' \in 0 .. Len(stream')
  BY <1>1, <1>2, <1>3, Distinct
<1>5. StateCounts'
  <2>1. c = CR => state' \in {1, 3}
    BY <1>2, <1>3
  <2>2. got >= 1 /\ stream[got] = CR /\ c = LF /\ phase' = "header" => state' = 2
    BY <1>1, <1>2, <1>3, Distinct DEF HeaderInv, StateCounts
  <2>3. got >= 2 /\ stream[got - 1] = CR /\ stream[got] = LF /\ c = CR => state' = 3
    BY <1>1, <1>2, <1>3 DEF HeaderInv, StateCounts
  <2> QED BY <1>1, <2>1, <2>2, <2>3 DEF StateCounts
<1>6. PairedTo(stream, got + 1) /\ got >= 1 /\ stream[got] = CR => c = LF
  BY <1>1 DEF PairedTo
<1>7. PairedTo(stream, got + 1) /\ c = LF => got >= 1 /\ stream[got] = CR
  BY <1>1 DEF PairedTo
<1>8. PairedTo(stream, got + 1) => PairedTo(stream, got)
  BY <1>1 DEF PairedTo
<1>9. StateIsExact'
  <2> SUFFICES ASSUME phase' = "header", PairedTo(stream, got + 1)
               PROVE  /\ state' = 1 => c = CR
                      /\ state' = 2 => got >= 1 /\ stream[got] = CR /\ c = LF
                      /\ state' = 3 => /\ got >= 2
                                       /\ stream[got - 1] = CR /\ stream[got] = LF /\ c = CR
    BY <1>1 DEF StateIsExact, PairedTo
  <2>1. CASE c = CR
    BY <2>1, <1>1, <1>2, <1>3, <1>6, <1>8, Distinct DEF HeaderInv, StateIsExact
  <2>2. CASE c = LF
    BY <2>2, <1>1, <1>2, <1>3, <1>7, <1>8, Distinct DEF HeaderInv, StateIsExact
  <2>3. CASE c # CR /\ c # LF
    BY <2>3, <1>1, <1>2, <1>3, <1>6, <1>8, Distinct DEF HeaderInv, StateIsExact
  <2> QED BY <2>1, <2>2, <2>3
<1>10. HeaderNotOverrun'
  <2>1. \A i \in 1 .. got : ~BlankLineEnds(stream, i)
    BY <1>1 DEF HeaderInv, HeaderNotOverrun
  <2>2. BlankLineEnds(stream, got + 1) => state = 3 /\ c = LF
    BY <1>1 DEF BlankLineEnds, HeaderInv, StateCounts
  <2>3. BlankLineEnds(stream, got + 1) => phase' = "body"
    BY <2>2, <1>1, <1>3, Distinct
  <2> QED BY <1>1, <2>1, <2>3 DEF HeaderNotOverrun, BlankLineEnds
<1>11. HeaderWhole'
  <2> SUFFICES ASSUME phase' # "header", PairedTo(stream, got + 1)
               PROVE  BlankLineEnds(stream, got + 1)
    BY <1>1 DEF HeaderWhole, PairedTo, BlankLineEnds
  <2>1. c = LF /\ state = 3
    BY <1>1, <1>2, <1>3
  <2> QED BY <2>1, <1>1, <1>7, <1>8 DEF BlankLineEnds, HeaderInv, StateIsExact
<1> QED BY <1>4, <1>5, <1>9, <1>10, <1>11 DEF HeaderInv

LEMMA HeaderCutStep ==
  ASSUME HeaderInv, HeaderCut
  PROVE  HeaderInv'
BY DEF HeaderCut, readVars, HeaderInv, HeaderNotOverrun, HeaderWhole, StateCounts,
       StateIsExact, BlankLineEnds, PairedTo

LEMMA HeaderNext ==
  ASSUME stream \in Seq(Symbol), HeaderInv, [ResponseNext]_responseVars
  PROVE  stream' \in Seq(Symbol) /\ HeaderInv'
<1>1. CASE ReadHeader
  BY <1>1, ReadHeaderStep DEF ReadHeader
<1>2. CASE HeaderCut
  BY <1>2, HeaderCutStep DEF HeaderCut, readVars
<1>3. CASE ReadBody \/ LengthOverrun \/ ParseOverrun
  <2>1. phase # "header" /\ phase' # "header" /\ UNCHANGED <<stream, state, got>>
    BY <1>3 DEF ReadBody, LengthOverrun, ParseOverrun, Lost, readVars
  <2> QED BY <2>1, AfterHeader
<1>4. CASE Parse
  <2>1. phase # "header" /\ phase' # "header" /\ UNCHANGED <<stream, state, got>>
    BY <1>4 DEF Parse, WriteUnchanged, readVars
  <2> QED BY <2>1, AfterHeader
<1>5. CASE WriteF4m
  <2>1. phase # "header" /\ phase' # "header" /\ UNCHANGED <<stream, state, got>>
    BY <1>5 DEF WriteF4m, DropBitrate, KeepMediaEnd, KeepLine, EndManifest, XmlOverrun,
                ReplaceLength, CopyHeader, CopyTypeAndWrite, HeadOverrun,
                InXml, InXmlOn, InHead, Lost, readVars
  <2> QED BY <2>1, AfterHeader
<1>6. CASE UNCHANGED responseVars
  BY <1>6 DEF responseVars, readVars, HeaderInv, HeaderNotOverrun, HeaderWhole, StateCounts,
              StateIsExact, BlankLineEnds, PairedTo
<1> QED BY <1>1, <1>2, <1>3, <1>4, <1>5, <1>6 DEF ResponseNext

(* On any stream the state of the header reader counts what has been read  *)
(* of CR LF CR LF.                                                         *)
THEOREM HeaderCounted == ResponseSpec => []HeaderInv
<1>1. ResponseInit => stream \in Seq(Symbol) /\ HeaderInv
  BY HeaderInit, ResponseAssumption DEF ResponseInit
<1>2. (stream \in Seq(Symbol) /\ HeaderInv) /\ [ResponseNext]_responseVars
      => (stream \in Seq(Symbol) /\ HeaderInv)'
  BY HeaderNext
<1> QED BY <1>1, <1>2, PTL DEF ResponseSpec

(* The header reader never reads past the end of a header, whatever comes  *)
(* before it.                                                              *)
THEOREM NoOverrun == ResponseSpec => []HeaderNotOverrun
<1>1. HeaderInv => HeaderNotOverrun
  BY DEF HeaderInv
<1> QED BY <1>1, HeaderCounted, PTL

(* Where CR and LF have come in pairs it stops nowhere before.             *)
THEOREM NoUnderrun == ResponseSpec => []HeaderWhole
<1>1. HeaderInv => HeaderWhole
  BY DEF HeaderInv
<1> QED BY <1>1, HeaderCounted, PTL

-----------------------------------------------------------------------------
(* Lines *)

LEMMA LeastShape ==
  ASSUME NEW F \in SUBSET Nat, F # {}
  PROVE  Least(F) \in F /\ \A g \in F : Least(F) <= g
<1>1. \E f \in F : \A g \in F : <<g, f>> \notin OpToRel(<, Nat)
  BY NatLessThanWellFounded, WFMin
<1>2. \A f, g \in Nat : g < f => <<g, f>> \in OpToRel(<, Nat)
  BY Zenon DEF OpToRel
<1>3. \E f \in F : \A g \in F : ~(g < f)
  BY <1>1, <1>2, Zenon
<1>4. \E f \in F : \A g \in F : f <= g
  BY <1>3
<1> QED
  BY <1>4 DEF Least

LEMMA LeastIs ==
  ASSUME NEW F \in SUBSET Nat, NEW f \in F, \A g \in F : f <= g
  PROVE  Least(F) = f
<1>1. Least(F) \in F /\ \A g \in F : Least(F) <= g
  BY LeastShape
<1>2. Least(F) <= f /\ f <= Least(F) /\ Least(F) \in Nat /\ f \in Nat
  BY <1>1
<1> QED
  BY <1>2

(* The line at i ends at its first LF, or at the end of b.                 *)
LEMMA LineEndShape ==
  ASSUME NEW b \in Seq(Symbol), NEW i \in 1 .. Len(b)
  PROVE  /\ LineEnd(b, i) \in i .. Len(b)
         /\ \A j \in i .. LineEnd(b, i) - 1 : b[j] # LF
         /\ b[LineEnd(b, i)] = LF \/ LineEnd(b, i) = Len(b)
<1> DEFINE ends == {j \in i .. Len(b) : b[j] = LF}
<1>1. Len(b) \in Nat
  OBVIOUS
<1>2. CASE ends = {}
  <2>1. LineEnd(b, i) = Len(b)
    BY <1>2 DEF LineEnd
  <2> QED
    BY <1>1, <1>2, <2>1
<1>3. CASE ends # {}
  <2>1. ends \in SUBSET Nat
    BY <1>1
  <2>2. Least(ends) \in ends /\ \A g \in ends : Least(ends) <= g
    BY <1>3, <2>1, LeastShape
  <2>3. LineEnd(b, i) = Least(ends)
    BY <1>3 DEF LineEnd
  <2>4. \A j \in i .. LineEnd(b, i) - 1 : j \notin ends
    BY <1>1, <2>2, <2>3
  <2>5. \A j \in i .. LineEnd(b, i) - 1 : j \in i .. Len(b)
    BY <1>1, <2>2, <2>3
  <2> QED
    BY <2>2, <2>3, <2>4, <2>5
<1> QED
  BY <1>2, <1>3

LEMMA LineEndIs ==
  ASSUME NEW b \in Seq(Symbol), NEW i \in 1 .. Len(b), NEW e \in i .. Len(b),
         b[e] = LF \/ e = Len(b), \A j \in i .. e - 1 : b[j] # LF
  PROVE  LineEnd(b, i) = e
<1> DEFINE f == LineEnd(b, i)
<1>1. /\ f \in i .. Len(b)
      /\ \A j \in i .. f - 1 : b[j] # LF
      /\ b[f] = LF \/ f = Len(b)
  BY LineEndShape
<1>2. Len(b) \in Nat
  OBVIOUS
<1> HIDE DEF f
<1>3. ~(f < e) /\ ~(e < f)
  BY <1>1, <1>2
<1>4. f = e
  BY <1>1, <1>2, <1>3
<1> QED
  BY <1>4 DEF f

LEMMA LineShape ==
  ASSUME NEW b \in Seq(Symbol), NEW i \in 1 .. Len(b)
  PROVE  /\ Line(b, i) \in Seq(Symbol)
         /\ Len(Line(b, i)) = LineEnd(b, i) - i + 1
         /\ DOMAIN Line(b, i) = 1 .. LineEnd(b, i) - i + 1
         /\ \A k \in 1 .. LineEnd(b, i) - i + 1 : Line(b, i)[k] = b[i + k - 1]
<1>1. LineEnd(b, i) \in i .. Len(b)
  BY LineEndShape
<1>2. Len(b) \in Nat
  OBVIOUS
<1> DEFINE e == LineEnd(b, i)
<1> HIDE DEF e
<1>3. e \in i .. Len(b)
  BY <1>1 DEF e
<1>4. i \in 1 .. Len(b) + 1 /\ e \in i - 1 .. Len(b)
  BY <1>2, <1>3
<1>5. /\ SubSeq(b, i, e) \in Seq(Symbol)
      /\ Len(SubSeq(b, i, e)) = e - i + 1
      /\ \A k \in 1 .. e - i + 1 : SubSeq(b, i, e)[k] = b[i + k - 1]
  BY <1>4, SubSeqProperties
<1>6. DOMAIN SubSeq(b, i, e) = 1 .. e - i + 1
  BY <1>5
<1> QED
  BY <1>5, <1>6 DEF e, Line

(* A line has no LF but at its end.                                        *)
LEMMA LineStartsShape ==
  ASSUME NEW b \in Seq(Symbol)
  PROVE  /\ LineStarts(b) \in SUBSET Nat
         /\ \A i : i \in LineStarts(b) <=> i \in 1 .. Len(b) /\ (i = 1 \/ b[i - 1] = LF)
BY DEF LineStarts

LEMMA IndentShape ==
  ASSUME NEW line \in Seq(Symbol)
  PROVE  /\ Indent(line) \in 0 .. Len(line)
         /\ \A i \in 1 .. Indent(line) : line[i] = Blank
         /\ Indent(line) # Len(line) => line[Indent(line) + 1] # Blank
<1> DEFINE F == {i \in DOMAIN line : line[i] # Blank}
<1>1. Len(line) \in Nat /\ DOMAIN line = 1 .. Len(line)
  OBVIOUS
<1>2. CASE F = {}
  BY <1>1, <1>2 DEF Indent
<1>3. CASE F # {}
  <2>1. F \in SUBSET Nat
    BY <1>1
  <2>2. Least(F) \in F /\ \A g \in F : Least(F) <= g
    BY <1>3, <2>1, LeastShape
  <2>3. Indent(line) = Least(F) - 1
    BY <1>3 DEF Indent
  <2>4. Least(F) \in 1 .. Len(line) /\ line[Least(F)] # Blank
    BY <1>1, <2>2
  <2>5. \A i \in 1 .. Least(F) - 1 : i \in DOMAIN line /\ i \notin F
    <3> HIDE DEF F
    <3> QED
      BY <1>1, <2>2, <2>4
  <2> QED
    BY <1>1, <2>3, <2>4, <2>5
<1> QED
  BY <1>2, <1>3

(* A line that does not begin with a blank begins with its first word.     *)
LEMMA Unindented ==
  ASSUME NEW line \in Seq(Symbol), line # <<>>, line[1] # Blank
  PROVE  Indent(line) = 0 /\ FirstWord(line) = line[1].w
<1>1. Len(line) \in Nat /\ Len(line) >= 1
  OBVIOUS
<1>2. Indent(line) \in 0 .. Len(line) /\ \A i \in 1 .. Indent(line) : line[i] = Blank
  BY IndentShape
<1>3. Indent(line) = 0
  BY <1>1, <1>2
<1> QED
  BY <1>1, <1>3 DEF FirstWord

(* What is compared of a key with a line that is not far indented tells it *)
(* from every other word.                                                  *)
LEMMA KeysApart ==
  ASSUME NEW w
  PROVE  /\ Common(w, "lengthColon") = IF w = "length" THEN 15 ELSE IF w \in {"video", "xml", "html"} THEN 8 ELSE 0
         /\ Common(w, "length") = IF w = "length" THEN 14 ELSE IF w \in {"video", "xml", "html"} THEN 8 ELSE 0
         /\ Common(w, "type") = IF w \in {"video", "xml", "html"} THEN 12 ELSE IF w = "length" THEN 8 ELSE 0
         /\ Common(w, "bitrate") = IF w = "bitrate" THEN 7 ELSE IF w = "bootstrap" THEN 1 ELSE 0
         /\ Common(w, "mediaEnd") = IF w = "mediaEnd" THEN 8 ELSE IF w = "metadataEnd" THEN 4
                                    ELSE IF w = "manifestEnd" THEN 3 ELSE 0
         /\ Common(w, "manifestEnd") = IF w = "manifestEnd" THEN 11
                                       ELSE IF w \in {"mediaEnd", "metadataEnd"} THEN 3 ELSE 0
<1>1. Common(w, "lengthColon") = IF w = "length" THEN 15 ELSE IF w \in {"video", "xml", "html"} THEN 8 ELSE 0
  BY DEF Common, KeySize
<1>2. Common(w, "length") = IF w = "length" THEN 14 ELSE IF w \in {"video", "xml", "html"} THEN 8 ELSE 0
  BY DEF Common, KeySize
<1>3. Common(w, "type") = IF w \in {"video", "xml", "html"} THEN 12 ELSE IF w = "length" THEN 8 ELSE 0
  BY DEF Common, KeySize
<1>4. Common(w, "bitrate") = IF w = "bitrate" THEN 7 ELSE IF w = "bootstrap" THEN 1 ELSE 0
  BY DEF Common, KeySize
<1>5. Common(w, "mediaEnd") = IF w = "mediaEnd" THEN 8 ELSE IF w = "metadataEnd" THEN 4
                              ELSE IF w = "manifestEnd" THEN 3 ELSE 0
  BY DEF Common, KeySize
<1>6. Common(w, "manifestEnd") = IF w = "manifestEnd" THEN 11
                                 ELSE IF w \in {"mediaEnd", "metadataEnd"} THEN 3 ELSE 0
  BY DEF Common, KeySize
<1> QED
  BY <1>1, <1>2, <1>3, <1>4, <1>5, <1>6

LEMMA KeySizes ==
  /\ KeySize["lengthColon"] = 15 /\ KeySize["length"] = 14 /\ KeySize["type"] = 12
  /\ KeySize["bitrate"] = 7 /\ KeySize["mediaEnd"] = 8 /\ KeySize["manifestEnd"] = 11
BY DEF KeySize

LEMMA KeysFound ==
  ASSUME NEW line \in Seq(Symbol)
  PROVE  LET w == FirstWord(line) IN
         /\ Indent(line) <= 1 => (StartsWith(line, "lengthColon") <=> w = "length")
         /\ Indent(line) = 0 => (StartsWith(line, "length") <=> w = "length")
         /\ Indent(line) = 0 => (StartsWith(line, "type") <=> w \in {"video", "xml", "html"})
         /\ Indent(line) <= 3 =>
              /\ StartsWith(line, "bitrate") <=> w = "bitrate"
              /\ StartsWith(line, "mediaEnd") <=> w = "mediaEnd"
              /\ StartsWith(line, "manifestEnd") <=> w = "manifestEnd"
<1> DEFINE k == Indent(line)
           w == FirstWord(line)
<1>1. k \in Nat
  BY IndentShape
<1>2. \A key : StartsWith(line, key) <=> k >= KeySize[key] \/ Common(w, key) >= KeySize[key] - k
  BY DEF StartsWith
<1> HIDE DEF k, w
<1>3. k <= 1 => (StartsWith(line, "lengthColon") <=> w = "length")
  BY <1>1, <1>2, KeysApart, KeySizes
<1>4. k = 0 => (StartsWith(line, "length") <=> w = "length")
  BY <1>1, <1>2, KeysApart, KeySizes
<1>5. k = 0 => (StartsWith(line, "type") <=> w \in {"video", "xml", "html"})
  BY <1>1, <1>2, KeysApart, KeySizes
<1>6. k <= 3 => (StartsWith(line, "bitrate") <=> w = "bitrate")
  BY <1>1, <1>2, KeysApart, KeySizes
<1>7. k <= 3 => (StartsWith(line, "mediaEnd") <=> w = "mediaEnd")
  BY <1>1, <1>2, KeysApart, KeySizes
<1>8. k <= 3 => (StartsWith(line, "manifestEnd") <=> w = "manifestEnd")
  BY <1>1, <1>2, KeysApart, KeySizes
<1> QED
  BY <1>3, <1>4, <1>5, <1>6, <1>7, <1>8 DEF k, w

-----------------------------------------------------------------------------
(* Types *)

LEMMA Symbols ==
  /\ CR \in Symbol /\ LF \in Symbol /\ Blank \in Symbol
  /\ Sym("nul") \in Symbol /\ Sym("header") \in Symbol /\ Sym("manifestEnd") \in Symbol
  /\ \A k \in Nat : ContentLength(k) \in Symbol
BY DEF CR, LF, Blank, ContentLength, Sym, Symbol, HeaderWords, BodyWords

LEMMA LinesOfShape ==
  ASSUME NEW b \in Seq(Symbol), NEW key
  PROVE  /\ LinesOf(b, key) \in SUBSET Nat
         /\ LinesOf(b, key) # {} =>
              /\ Least(LinesOf(b, key)) \in 1 .. Len(b)
              /\ Line(b, Least(LinesOf(b, key))) \in Seq(Symbol)
              /\ Line(b, Least(LinesOf(b, key))) # <<>>
              /\ StartsWith(Line(b, Least(LinesOf(b, key))), key)
              /\ LineEnd(b, Least(LinesOf(b, key))) \in Least(LinesOf(b, key)) .. Len(b)
<1>1. LinesOf(b, key) \in SUBSET Nat
  BY LineStartsShape DEF LinesOf
<1>2. CASE LinesOf(b, key) # {}
  <2> DEFINE i == Least(LinesOf(b, key))
  <2>1. i \in LinesOf(b, key)
    BY <1>1, <1>2, LeastShape
  <2>2. i \in 1 .. Len(b) /\ StartsWith(Line(b, i), key)
    BY <2>1, LineStartsShape DEF LinesOf
  <2> HIDE DEF i
  <2>3. LineEnd(b, i) \in i .. Len(b)
    BY <2>2, LineEndShape
  <2>4. Line(b, i) \in Seq(Symbol) /\ Len(Line(b, i)) = LineEnd(b, i) - i + 1
    BY <2>2, LineShape
  <2>5. Line(b, i) # <<>>
    BY <2>2, <2>3, <2>4
  <2> QED
    BY <1>1, <2>2, <2>3, <2>4, <2>5 DEF i
<1> QED
  BY <1>1, <1>2

LEMMA AnnouncedType ==
  ASSUME NEW b \in Seq(Symbol), HasLength(b)
  PROVE  Announced(b) \in Nat
<1> DEFINE line == Line(b, Least(LinesOf(b, "lengthColon")))
<1>1. line \in Seq(Symbol) /\ StartsWith(line, "lengthColon")
  BY LinesOfShape DEF HasLength
<1>2. Announced(b) = IF Indent(line) <= 1 THEN line[Indent(line) + 1].n ELSE 0
  BY DEF Announced
<1> HIDE DEF line
<1>3. Indent(line) \in 0 .. Len(line)
  BY <1>1, IndentShape
<1>4. CASE Indent(line) <= 1
  <2>1. FirstWord(line) = "length"
    BY <1>1, <1>4, KeysFound
  <2>2. Indent(line) # Len(line)
    BY <2>1 DEF FirstWord
  <2>3. Indent(line) + 1 \in 1 .. Len(line)
    BY <1>1, <1>3, <2>2
  <2>4. line[Indent(line) + 1] \in Symbol
    BY <1>1, <2>3
  <2> QED
    BY <1>2, <1>4, <2>4 DEF Symbol
<1> QED
  BY <1>2, <1>4

LEMMA CutShape ==
  ASSUME NEW b \in Seq(Symbol), NEW m \in Nat \ {0}, NEW n \in 0 .. Len(b)
  PROVE  /\ SubSeq(b, m, n) \in Seq(Symbol)
         /\ Len(SubSeq(b, m, n)) = IF m <= n THEN n - m + 1 ELSE 0
         /\ \A k \in 1 .. n - m + 1 : SubSeq(b, m, n)[k] = b[m + k - 1]
<1>1. \A i \in m .. n : b[i] \in Symbol
  OBVIOUS
<1>2. m \in Int /\ n \in Int
  OBVIOUS
<1> QED
  BY <1>1, <1>2, SubSeqProperties

LEMMA FromType ==
  ASSUME NEW b \in Seq(Symbol), NEW i \in Nat \ {0}
  PROVE  From(b, i) \in Seq(Symbol)
<1>1. SubSeq(b, i + 1, Len(b)) \in Seq(Symbol)
  BY CutShape
<1>2. <<Sym("header")>> \in Seq(Symbol)
  BY Symbols
<1>3. <<Sym("header")>> \o SubSeq(b, i + 1, Len(b)) \in Seq(Symbol)
  BY <1>1, <1>2, ConcatProperties
<1> QED
  BY <1>1, <1>3 DEF From

ResponseTyped ==
  /\ ResponseTypeOK
  /\ phase = "head" => kept # <<>>

LEMMA ReadBodyType ==
  ASSUME ResponseTyped, ReadBody
  PROVE  ResponseTyped'
<1> DEFINE buffer == SubSeq(stream, 1, got)
<1>1. /\ stream \in Seq(Symbol) /\ got \in 0 .. Len(stream) /\ Len(stream) \in Nat
      /\ phase = "body"
  BY DEF ResponseTyped, ResponseTypeOK, ReadBody
<1>2. buffer \in Seq(Symbol)
  BY <1>1, CutShape
<1>3. HasLength(buffer)
  BY DEF ReadBody
<1>4. ResponseTyped'
  <2> DEFINE n == got + Announced(buffer)
             new == [i \in 1 .. n |-> IF i <= Len(stream) THEN stream[i] ELSE Sym("nul")]
  <2>1. n \in Nat
    <3>1. Announced(buffer) \in Nat
      BY <1>2, <1>3, AnnouncedType
    <3> QED
      BY <1>1, <3>1
  <2>2. big' = new /\ phase' = "parse" /\ UNCHANGED <<stream, state, got, xmlVars, out>>
    BY <1>3 DEF ReadBody
  <2> HIDE DEF n
  <2>3. \A i \in 1 .. n : (IF i <= Len(stream) THEN stream[i] ELSE Sym("nul")) \in Symbol
    BY <1>1, <2>1, Symbols
  <2>4. new \in [1 .. n -> Symbol]
    BY <2>3
  <2>5. new \in Seq(Symbol)
    BY <2>1, <2>4
  <2> QED
    BY <2>2, <2>5 DEF ResponseTyped, ResponseTypeOK, Phases, xmlVars
<1> QED
  BY <1>4

LEMMA ParseType ==
  ASSUME ResponseTyped, Parse
  PROVE  ResponseTyped'
<1>1. CASE WriteUnchanged
  BY <1>1 DEF WriteUnchanged, ResponseTyped, ResponseTypeOK, Phases, readVars, xmlVars
<1>2. CASE ~WriteUnchanged
  <2> DEFINE i == Least(LinesOf(big, "type"))
             end == LineEnd(big, i)
             last == IF end < Len(big) THEN end + 1 ELSE end
  <2>1. LinesOf(big, "type") # {}
    BY <1>2 DEF Parse
  <2>2. /\ head' = SubSeq(big, 1, last)
        /\ xml' = From(big, end + 1)
        /\ phase' = "xml"
        /\ UNCHANGED <<readVars, at, noWrite, kept, out>>
    BY <1>2, <2>1 DEF Parse
  <2>3. big \in Seq(Symbol) /\ Len(big) \in Nat
    BY DEF ResponseTyped, ResponseTypeOK
  <2>4. i \in 1 .. Len(big) /\ end \in i .. Len(big)
    BY <2>1, <2>3, LinesOfShape
  <2> HIDE DEF i, end
  <2>5. last \in 0 .. Len(big) /\ end + 1 \in Nat \ {0}
    BY <2>3, <2>4
  <2>6. head' \in Seq(Symbol) /\ xml' \in Seq(Symbol)
    BY <2>2, <2>3, <2>5, CutShape, FromType
  <2> QED
    BY <2>2, <2>6 DEF ResponseTyped, ResponseTypeOK, Phases, readVars
<1> QED
  BY <1>1, <1>2

(* What both loops over lines look at.                                     *)
LEMMA LineAhead ==
  ASSUME NEW b \in Seq(Symbol), NEW k \in Nat, k < Len(b)
  PROVE  /\ Line(b, k + 1) \in Seq(Symbol) /\ Line(b, k + 1) # <<>>
         /\ Len(Line(b, k + 1)) \in Nat /\ k + Len(Line(b, k + 1)) = LineEnd(b, k + 1)
         /\ Line(b, k + 1)[1] = b[k + 1]
         /\ LineEnd(b, k + 1) \in k + 1 .. Len(b)
<1>1. k + 1 \in 1 .. Len(b) /\ Len(b) \in Nat
  OBVIOUS
<1> DEFINE i == k + 1
<1> HIDE DEF i
<1>2. i \in 1 .. Len(b)
  BY <1>1 DEF i
<1>3. /\ Line(b, i) \in Seq(Symbol) /\ Len(Line(b, i)) = LineEnd(b, i) - i + 1
      /\ \A j \in 1 .. LineEnd(b, i) - i + 1 : Line(b, i)[j] = b[i + j - 1]
      /\ LineEnd(b, i) \in i .. Len(b)
  BY <1>2, LineShape, LineEndShape
<1>4. 1 \in 1 .. LineEnd(b, i) - i + 1 /\ i + 1 - 1 = i
  BY <1>1, <1>2, <1>3
<1>5. Line(b, i)[1] = b[i]
  BY <1>3, <1>4
<1>6. Line(b, i) # <<>>
  BY <1>2, <1>3
<1>7. Len(Line(b, i)) \in Nat /\ k + Len(Line(b, i)) = LineEnd(b, i)
  <2>1. i = k + 1
    BY DEF i
  <2> QED
    BY <1>1, <1>2, <1>3, <2>1
<1> QED
  BY <1>3, <1>5, <1>6, <1>7 DEF i

LEMMA XmlLoopType ==
  ASSUME ResponseTyped, DropBitrate \/ KeepMediaEnd \/ KeepLine \/ EndManifest
  PROVE  ResponseTyped'
<1>1. /\ phase = "xml" /\ at < Len(xml) /\ UNCHANGED <<readVars, head, xml, out>>
      /\ xml \in Seq(Symbol) /\ at \in Nat /\ kept \in Seq(Symbol)
  BY DEF ResponseTyped, ResponseTypeOK, DropBitrate, KeepMediaEnd, KeepLine, EndManifest, InXml, InXmlOn, InXmlOn
<1>2. XmlLine \in Seq(Symbol) /\ Len(XmlLine) \in Nat
  BY <1>1, LineAhead DEF XmlLine
<1>3. kept \o XmlLine \in Seq(Symbol) /\ Append(kept, Sym("manifestEnd")) \in Seq(Symbol)
      /\ Append(kept, Sym("manifestEnd")) # <<>>
  <2>1. kept \o XmlLine \in Seq(Symbol)
    BY <1>1, <1>2, ConcatProperties
  <2> DEFINE x == Sym("manifestEnd")
  <2>2. x \in Symbol
    BY Symbols
  <2> HIDE DEF x
  <2>3. Append(kept, x) \in Seq(Symbol) /\ Len(Append(kept, x)) = Len(kept) + 1 /\ Len(kept) \in Nat
    BY <1>1, <2>2
  <2>4. Append(kept, x) # <<>>
    BY <2>3
  <2> QED
    BY <2>1, <2>3, <2>4 DEF x
<1>4. at + Len(XmlLine) \in Nat
  BY <1>1, <1>2
<1>5. kept' \in Seq(Symbol) /\ at' \in Nat /\ noWrite' \in BOOLEAN /\ phase' \in {"xml", "head"}
      /\ (phase' = "head" => kept' # <<>>)
  <2>1. CASE DropBitrate
    BY <2>1, <1>1, <1>4 DEF DropBitrate, NextLine, ResponseTyped, ResponseTypeOK
  <2>2. CASE KeepMediaEnd \/ KeepLine
    BY <2>2, <1>1, <1>3, <1>4 DEF KeepMediaEnd, KeepLine, Keep, NextLine, ResponseTyped, ResponseTypeOK
  <2>3. CASE EndManifest
    BY <2>3, <1>1, <1>3 DEF EndManifest, ResponseTyped, ResponseTypeOK
  <2> QED
    BY <2>1, <2>2, <2>3
<1> QED
  BY <1>1, <1>5 DEF ResponseTyped, ResponseTypeOK, Phases, readVars

LEMMA HeadLoopType ==
  ASSUME ResponseTyped, ReplaceLength \/ CopyHeader \/ CopyTypeAndWrite
  PROVE  ResponseTyped'
<1>1. /\ phase = "head" /\ EndsInside(head, at + 1)
      /\ UNCHANGED <<readVars, head, xml, noWrite, kept>>
      /\ head \in Seq(Symbol) /\ at \in Nat /\ out \in Seq(Symbol)
      /\ kept \in Seq(Symbol) /\ kept # <<>>
  BY DEF ResponseTyped, ResponseTypeOK, ReplaceLength, CopyHeader, CopyTypeAndWrite, InHead
<1>9. at < Len(head)
  <2>1. Len(head) \in Nat
    BY <1>1
  <2> QED
    BY <1>1, <2>1 DEF EndsInside
<1>2. HeaderLine \in Seq(Symbol) /\ Len(HeaderLine) \in Nat
  BY <1>1, <1>9, LineAhead DEF HeaderLine
<1>3. NewLength \in Nat
  BY <1>1 DEF NewLength
<1> DEFINE new == <<ContentLength(NewLength), CR, LF>>
<1>4. new \in Seq(Symbol) /\ <<CR>> \in Seq(Symbol)
  BY <1>3, Symbols
<1> HIDE DEF new
<1>5. out \o new \in Seq(Symbol) /\ out \o HeaderLine \in Seq(Symbol)
  BY <1>1, <1>2, <1>4, ConcatProperties
<1>6. (out \o HeaderLine) \o <<CR>> \in Seq(Symbol)
  BY <1>4, <1>5, ConcatProperties
<1>7. ((out \o HeaderLine) \o <<CR>>) \o kept \in Seq(Symbol)
  BY <1>1, <1>6, ConcatProperties
<1>8. out' \in Seq(Symbol) /\ at' \in Nat /\ phase' \in {"head", "written"}
  <2>1. CASE ReplaceLength
    BY <2>1, <1>1, <1>2, <1>5 DEF ReplaceLength, NextLine, new
  <2>2. CASE CopyHeader
    BY <2>2, <1>1, <1>2, <1>5 DEF CopyHeader, NextLine
  <2>3. CASE CopyTypeAndWrite
    BY <2>3, <1>1, <1>7 DEF CopyTypeAndWrite
  <2> QED
    BY <2>1, <2>2, <2>3
<1> QED
  BY <1>1, <1>8 DEF ResponseTyped, ResponseTypeOK, Phases, readVars

LEMMA ResponseTypedStays == ResponseSpec => []ResponseTyped
<1>1. ResponseInit => ResponseTyped
  <2>1. <<>> \in Seq(Symbol)
    OBVIOUS
  <2>2. ResponseInit => stream \in Seq(Symbol) /\ 0 \in 0 .. Len(stream)
    BY ResponseAssumption DEF ResponseInit
  <2>3. ResponseInit => noWrite \in BOOLEAN
    BY Zenon DEF ResponseInit
  <2>4. ResponseInit => phase \in Phases /\ phase # "head" /\ state \in 0 .. 3
    BY DEF ResponseInit, Phases
  <2> QED
    BY <2>1, <2>2, <2>3, <2>4 DEF ResponseInit, ResponseTyped, ResponseTypeOK
<1>2. ResponseTyped /\ HeaderInv' /\ [ResponseNext]_responseVars => ResponseTyped'
  <2> SUFFICES ASSUME ResponseTyped, HeaderInv', [ResponseNext]_responseVars PROVE ResponseTyped'
    OBVIOUS
  <2>1. CASE ReadHeader \/ HeaderCut
    BY <2>1 DEF ReadHeader, HeaderCut, ResponseTyped, ResponseTypeOK, Phases, HeaderInv,
                readVars, xmlVars
  <2>2. CASE LengthOverrun \/ ParseOverrun \/ XmlOverrun \/ HeadOverrun
    BY <2>2 DEF LengthOverrun, ParseOverrun, XmlOverrun, HeadOverrun, Lost, ResponseTyped, ResponseTypeOK, Phases,
                readVars, xmlVars
  <2>3. CASE UNCHANGED responseVars
    BY <2>3 DEF responseVars, readVars, xmlVars, ResponseTyped, ResponseTypeOK
  <2> QED
    BY <2>1, <2>2, <2>3, ReadBodyType, ParseType, XmlLoopType, HeadLoopType
       DEF ResponseNext, WriteF4m
<1> QED
  BY <1>1, <1>2, HeaderCounted, PTL DEF ResponseSpec

(* Everything the reader and the two loops over lines build is a sequence  *)
(* of symbols, and the offsets they use are natural numbers.               *)
THEOREM ResponseTypes == ResponseSpec => []ResponseTypeOK
<1>1. ResponseTyped => ResponseTypeOK
  BY DEF ResponseTyped
<1> QED
  BY <1>1, ResponseTypedStays, PTL

-----------------------------------------------------------------------------
(* Well-formed answers, place by place: the header ends at e, Content-     *)
(* Length is at l and Content-Type at t.                                   *)
Types == {"video", "xml", "html"}

Begins(b, i) == i = 1 \/ b[i - 1] = LF

HeaderOf(b, e, l, t) ==
  /\ e \in 4 .. Len(b) /\ l \in 1 .. e /\ t \in 1 .. e - 2
  /\ BlankLineEnds(b, e)
  /\ \A i \in 1 .. e - 1 : ~BlankLineEnds(b, i)
  /\ PairedTo(b, e)
  /\ \A i \in 1 .. e : Begins(b, i) => b[i] # Blank
  /\ Begins(b, l) /\ Begins(b, t)
  /\ \A i \in 1 .. e : b[i].w = "length" <=> i = l
  /\ \A i \in 1 .. e : b[i].w \in Types <=> i = t
  /\ \A i \in t .. e - 3 : b[i] # LF
  /\ b[l].n = Len(b) - e

LEMMA Words ==
  /\ CR.w = "CR" /\ LF.w = "LF" /\ Blank.w = "blank"
  /\ Sym("nul").w = "nul" /\ Sym("manifestEnd").w = "manifestEnd"
  /\ \A k : ContentLength(k).w = "length" /\ ContentLength(k).n = k
BY DEF CR, LF, Blank, ContentLength, Sym

LEMMA HeaderEndShape ==
  ASSUME NEW b \in Seq(Symbol), \E i \in 1 .. Len(b) : BlankLineEnds(b, i)
  PROVE  /\ HeaderEnd(b) \in 4 .. Len(b) /\ BlankLineEnds(b, HeaderEnd(b))
         /\ \A i \in 1 .. HeaderEnd(b) - 1 : ~BlankLineEnds(b, i)
<1> DEFINE F == {i \in 1 .. Len(b) : BlankLineEnds(b, i)}
<1>1. F \in SUBSET Nat /\ F # {}
  OBVIOUS
<1>2. HeaderEnd(b) = Least(F)
  BY DEF HeaderEnd
<1>3. HeaderEnd(b) \in F /\ \A g \in F : HeaderEnd(b) <= g
  BY <1>1, <1>2, LeastShape
<1> DEFINE e == HeaderEnd(b)
<1>4. e \in 1 .. Len(b) /\ BlankLineEnds(b, e)
  BY <1>3
<1>5. e >= 4
  BY <1>4 DEF BlankLineEnds
<1>6. \A i \in 1 .. e - 1 : i \in 1 .. Len(b) /\ ~(e <= i)
  <2> HIDE DEF e
  <2> QED
    BY <1>4
<1>7. \A i \in 1 .. e - 1 : ~BlankLineEnds(b, i)
  BY <1>3, <1>6
<1> HIDE DEF e
<1>8. e \in 4 .. Len(b)
  BY <1>4, <1>5
<1> QED
  BY <1>4, <1>7, <1>8 DEF e

LEMMA WellFormedHeader ==
  ASSUME NEW b \in Seq(Symbol), WellFormed(b)
  PROVE  \E l, t : HeaderOf(b, HeaderEnd(b), l, t)
<1> DEFINE e == HeaderEnd(b)
           h == SubSeq(b, 1, e)
<1>1. /\ e \in 4 .. Len(b) /\ BlankLineEnds(b, e)
      /\ \A i \in 1 .. e - 1 : ~BlankLineEnds(b, i)
  BY HeaderEndShape DEF WellFormed
<1>2. PICK l \in LineStarts(h), t \in LineStarts(h) :
        /\ \A i \in DOMAIN h : h[i].w = "length" <=> i = l
        /\ h[l].n = Len(b) - e
        /\ \A i \in DOMAIN h : h[i].w \in {"video", "xml", "html"} <=> i = t
        /\ LineEnd(h, t) + 2 = Len(h)
  BY DEF WellFormed, HeaderFits
<1>3. PairedTo(h, Len(h)) /\ \A i \in LineStarts(h) : h[i] # Blank
  BY DEF WellFormed, HeaderFits
<1> HIDE DEF e
<1>4. /\ h \in Seq(Symbol) /\ Len(h) = e /\ DOMAIN h = 1 .. e
      /\ \A i \in 1 .. e : h[i] = b[i]
  <2>1. /\ h \in Seq(Symbol) /\ Len(h) = IF 1 <= e THEN e - 1 + 1 ELSE 0
        /\ \A k \in 1 .. e - 1 + 1 : h[k] = b[1 + k - 1]
    BY <1>1, CutShape
  <2>2. e - 1 + 1 = e /\ 1 <= e /\ \A k \in 1 .. e : 1 + k - 1 = k
    BY <1>1
  <2> HIDE DEF h
  <2> QED
    BY <2>1, <2>2
<1> HIDE DEF h
<1>5. \A i : i \in LineStarts(h) <=> i \in 1 .. e /\ Begins(b, i)
  <2>1. \A i : i \in LineStarts(h) <=> i \in 1 .. e /\ (i = 1 \/ h[i - 1] = LF)
    BY <1>4, LineStartsShape
  <2>2. \A i \in 1 .. e : i # 1 => h[i - 1] = b[i - 1]
    BY <1>1, <1>4
  <2> QED
    BY <2>1, <2>2 DEF Begins
<1>6. l \in 1 .. e /\ t \in 1 .. e /\ Begins(b, l) /\ Begins(b, t)
  BY <1>5
<1>7. PairedTo(b, e)
  <2>1. \A i \in 1 .. e : (i < e => h[i + 1] = b[i + 1]) /\ (i > 1 => h[i - 1] = b[i - 1])
    BY <1>1, <1>4
  <2> QED
    BY <1>3, <1>4, <2>1 DEF PairedTo
<1>8. /\ \A i \in 1 .. e : b[i].w = "length" <=> i = l
      /\ \A i \in 1 .. e : b[i].w \in Types <=> i = t
      /\ b[l].n = Len(b) - e
  <2>1. \A i \in 1 .. e : h[i].w = "length" <=> i = l
    BY <1>2, <1>4
  <2>2. \A i \in 1 .. e : h[i].w \in Types <=> i = t
    BY <1>2, <1>4 DEF Types
  <2> QED
    BY <1>2, <1>4, <1>6, <2>1, <2>2
<1>9. t <= e - 2 /\ \A i \in t .. e - 3 : b[i] # LF
  <2>1. LineEnd(h, t) = e - 2
    <3>1. LineEnd(h, t) \in t .. Len(h)
      BY <1>4, <1>6, LineEndShape
    <3> QED
      BY <1>1, <1>2, <1>4, <3>1
  <2>2. LineEnd(h, t) \in t .. e /\ \A j \in t .. LineEnd(h, t) - 1 : h[j] # LF
    BY <1>4, <1>6, LineEndShape
  <2>3. t <= e - 2 /\ \A j \in t .. e - 3 : h[j] # LF /\ j \in 1 .. e
    BY <1>1, <1>6, <2>1, <2>2
  <2> QED
    BY <1>4, <2>3
<1>10. \A i \in 1 .. e : Begins(b, i) => b[i] # Blank
  BY <1>3, <1>4, <1>5
<1>11. t \in 1 .. e - 2
  BY <1>1, <1>6, <1>9
<1>12. HeaderOf(b, e, l, t)
  BY <1>1, <1>6, <1>7, <1>8, <1>9, <1>10, <1>11 DEF HeaderOf
<1> QED
  BY <1>12 DEF e

LEMMA HeaderWellFormed ==
  ASSUME NEW b \in Seq(Symbol), NEW e, NEW l, NEW t, HeaderOf(b, e, l, t)
  PROVE  WellFormed(b) /\ HeaderEnd(b) = e
<1>1. e \in 4 .. Len(b) /\ l \in 1 .. e /\ t \in 1 .. e - 2 /\ Len(b) \in Nat
      /\ BlankLineEnds(b, e) /\ \A i \in 1 .. e - 1 : ~BlankLineEnds(b, i)
  BY DEF HeaderOf
<1>2. HeaderEnd(b) = e
  <2>1. e \in 1 .. Len(b)
    BY <1>1
  <2>2. /\ HeaderEnd(b) \in 4 .. Len(b) /\ BlankLineEnds(b, HeaderEnd(b))
        /\ \A i \in 1 .. HeaderEnd(b) - 1 : ~BlankLineEnds(b, i)
    BY <1>1, <2>1, HeaderEndShape
  <2>3. ~(e < HeaderEnd(b)) /\ ~(HeaderEnd(b) < e)
    BY <1>1, <2>2
  <2> QED
    BY <1>1, <2>2, <2>3
<1> DEFINE h == SubSeq(b, 1, HeaderEnd(b))
<1>3. /\ h \in Seq(Symbol) /\ Len(h) = e /\ DOMAIN h = 1 .. e
      /\ \A i \in 1 .. e : h[i] = b[i]
  <2>0. h = SubSeq(b, 1, e)
    BY <1>2
  <2> HIDE DEF h
  <2>1. /\ h \in Seq(Symbol) /\ Len(h) = IF 1 <= e THEN e - 1 + 1 ELSE 0
        /\ \A k \in 1 .. e - 1 + 1 : h[k] = b[1 + k - 1]
    BY <1>1, <2>0, CutShape
  <2>2. e - 1 + 1 = e /\ 1 <= e /\ \A k \in 1 .. e : 1 + k - 1 = k
    BY <1>1
  <2> HIDE DEF h
  <2> QED
    BY <2>1, <2>2
<1> HIDE DEF h
<1>4. \A i : i \in LineStarts(h) <=> i \in 1 .. e /\ Begins(b, i)
  <2>1. \A i : i \in LineStarts(h) <=> i \in 1 .. e /\ (i = 1 \/ h[i - 1] = LF)
    BY <1>3, LineStartsShape
  <2>2. \A i \in 1 .. e : i # 1 => h[i - 1] = b[i - 1]
    BY <1>1, <1>3
  <2> QED
    BY <2>1, <2>2 DEF Begins
<1>5. PairedTo(h, Len(h))
  <2>1. \A i \in 1 .. e : (i < e => h[i + 1] = b[i + 1]) /\ (i > 1 => h[i - 1] = b[i - 1])
    BY <1>1, <1>3
  <2> QED
    BY <1>3, <2>1 DEF PairedTo, HeaderOf
<1>6. \A i \in LineStarts(h) : h[i] # Blank
  BY <1>3, <1>4 DEF HeaderOf
<1>7. l \in LineStarts(h) /\ t \in LineStarts(h)
  BY <1>1, <1>4 DEF HeaderOf
<1>8. \A i \in DOMAIN h : h[i].w = "length" <=> i = l
  BY <1>1, <1>3 DEF HeaderOf
<1>9. \A i \in DOMAIN h : h[i].w \in {"video", "xml", "html"} <=> i = t
  BY <1>1, <1>3 DEF HeaderOf, Types
<1>10. h[l].n = Len(b) - e
  BY <1>1, <1>3 DEF HeaderOf
<1>11. LineEnd(h, t) + 2 = Len(h)
  <2>1. e - 2 \in t .. Len(h) /\ t \in 1 .. Len(h)
    BY <1>1, <1>3
  <2>2. h[e - 2] = LF
    BY <1>1, <1>3 DEF BlankLineEnds
  <2>3. \A j \in t .. (e - 2) - 1 : h[j] # LF
    <3>1. \A j \in t .. (e - 2) - 1 : j \in t .. e - 3 /\ j \in 1 .. e
      BY <1>1
    <3> QED
      BY <1>3, <3>1 DEF HeaderOf
  <2>4. LineEnd(h, t) = e - 2
    BY <1>3, <2>1, <2>2, <2>3, LineEndIs
  <2> QED
    BY <1>1, <1>3, <2>4
<1>12. \E i \in 1 .. Len(b) : BlankLineEnds(b, i)
  BY <1>1
<1>13. HeaderFits(h, Len(b) - e)
  BY <1>5, <1>6, <1>7, <1>8, <1>9, <1>10, <1>11 DEF HeaderFits
<1> QED
  BY <1>2, <1>12, <1>13 DEF WellFormed, h

(* Where lines begin and end in a well-formed header.                      *)
LEMMA LineBefore ==
  ASSUME NEW b \in Seq(Symbol), NEW i \in 1 .. Len(b), NEW t \in i + 1 .. Len(b) + 1,
         b[t - 1] = LF
  PROVE  LineEnd(b, i) \in i .. t - 1 /\ b[LineEnd(b, i)] = LF
<1> DEFINE f == LineEnd(b, i)
<1>1. /\ f \in i .. Len(b) /\ \A j \in i .. f - 1 : b[j] # LF
      /\ b[f] = LF \/ f = Len(b)
  BY LineEndShape
<1>2. Len(b) \in Nat /\ t - 1 \in i .. Len(b)
  OBVIOUS
<1> HIDE DEF f
<1>3. ~(t - 1 < f)
  BY <1>1, <1>2
<1>4. f \in i .. t - 1
  BY <1>1, <1>2, <1>3
<1>5. b[f] = LF
  BY <1>1, <1>2, <1>4
<1> QED
  BY <1>4, <1>5 DEF f

LEMMA HeaderLines ==
  ASSUME NEW b \in Seq(Symbol), NEW e, NEW l, NEW t, HeaderOf(b, e, l, t)
  PROVE  /\ b[e - 3] = CR /\ b[e - 2] = LF /\ b[e - 1] = CR /\ b[e] = LF
         /\ LineEnd(b, t) = e - 2
         /\ l < t
         /\ LineEnd(b, l) \in l + 2 .. t - 1
         /\ b[LineEnd(b, l)] = LF /\ b[LineEnd(b, l) - 1] = CR
         /\ \A j \in l .. LineEnd(b, l) - 1 : b[j] # LF
<1>1. e \in 4 .. Len(b) /\ l \in 1 .. e /\ t \in 1 .. e - 2 /\ Len(b) \in Nat
  BY DEF HeaderOf
<1>2. b[e - 3] = CR /\ b[e - 2] = LF /\ b[e - 1] = CR /\ b[e] = LF
  BY DEF HeaderOf, BlankLineEnds
<1>3. LineEnd(b, t) = e - 2
  <2>1. e - 2 \in t .. Len(b) /\ t \in 1 .. Len(b)
    BY <1>1
  <2>2. \A j \in t .. (e - 2) - 1 : b[j] # LF
    BY <1>1 DEF HeaderOf
  <2> QED
    BY <1>2, <2>1, <2>2, LineEndIs
<1>4. b[l].w = "length" /\ b[t].w \in Types /\ b[t].w # "length"
  BY <1>1 DEF HeaderOf, Types
<1>5. l < t
  <2>1. l # t
    BY <1>4
  <2>2. CASE l > t
    <3>1. b[l - 1] = LF
      BY <1>1, <2>2 DEF HeaderOf, Begins
    <3>2. l - 1 \notin t .. e - 3
      BY <3>1 DEF HeaderOf
    <3>3. l = e - 1 \/ l = e
      BY <1>1, <2>2, <3>2
    <3> QED
      BY <1>2, <1>4, <3>3, Words
  <2> QED
    BY <1>1, <2>1, <2>2
<1>6. b[t - 1] = LF
  BY <1>1, <1>5 DEF HeaderOf, Begins
<1> DEFINE f == LineEnd(b, l)
<1>7. f \in l .. t - 1 /\ b[f] = LF
  <2>1. l \in 1 .. Len(b) /\ t \in l + 1 .. Len(b) + 1
    BY <1>1, <1>5
  <2> QED
    BY <1>6, <2>1, LineBefore
<1>8. \A j \in l .. f - 1 : b[j] # LF
  BY <1>1, LineEndShape
<1> HIDE DEF f
<1>9. f # l
  BY <1>4, <1>7, Words
<1>10. b[f - 1] = CR
  <2>1. f \in 1 .. e
    BY <1>1, <1>7
  <2> QED
    BY <1>7, <2>1 DEF HeaderOf, PairedTo
<1>11. f - 1 # l
  BY <1>4, <1>10, Words
<1>12. f \in l + 2 .. t - 1
  BY <1>1, <1>7, <1>9, <1>11
<1> QED
  BY <1>2, <1>3, <1>5, <1>7, <1>8, <1>10, <1>12 DEF f

(* What start_with makes of a line that begins with a word.                *)
LEMMA LineWord ==
  ASSUME NEW c \in Seq(Symbol), NEW i \in 1 .. Len(c), c[i] # Blank
  PROVE  /\ Line(c, i) \in Seq(Symbol) /\ Line(c, i)[1] = c[i]
         /\ Indent(Line(c, i)) = 0 /\ FirstWord(Line(c, i)) = c[i].w
         /\ StartsWith(Line(c, i), "lengthColon") <=> c[i].w = "length"
         /\ StartsWith(Line(c, i), "length") <=> c[i].w = "length"
         /\ StartsWith(Line(c, i), "type") <=> c[i].w \in Types
<1> DEFINE k == i - 1
<1>1. k \in Nat /\ k < Len(c) /\ k + 1 = i
  OBVIOUS
<1> HIDE DEF k
<1>2. /\ Line(c, k + 1) \in Seq(Symbol) /\ Line(c, k + 1) # <<>>
      /\ Line(c, k + 1)[1] = c[k + 1]
  BY <1>1, LineAhead
<1>3. Line(c, i) \in Seq(Symbol) /\ Line(c, i) # <<>> /\ Line(c, i)[1] = c[i]
  BY <1>1, <1>2
<1>4. Indent(Line(c, i)) = 0 /\ FirstWord(Line(c, i)) = c[i].w
  BY <1>3, Unindented
<1> QED
  BY <1>3, <1>4, KeysFound DEF Types

(* The header reader stops at the end of the header.                       *)
LEMMA HeaderReadWhole ==
  ASSUME HeaderInv, stream \in Seq(Symbol), phase # "header",
         NEW e, NEW l, NEW t, HeaderOf(stream, e, l, t)
  PROVE  got = e
<1>1. e \in 4 .. Len(stream) /\ got \in 0 .. Len(stream) /\ Len(stream) \in Nat
      /\ BlankLineEnds(stream, e) /\ \A i \in 1 .. e - 1 : ~BlankLineEnds(stream, i)
      /\ PairedTo(stream, e)
  BY DEF HeaderInv, HeaderOf
<1>2. ~(got > e)
  BY <1>1 DEF HeaderInv, HeaderNotOverrun
<1>3. CASE got < e
  <2>1. PairedTo(stream, got)
    BY <1>1, <1>3 DEF PairedTo
  <2>2. got = Len(stream) \/ BlankLineEnds(stream, got)
    BY <2>1 DEF HeaderInv, HeaderWhole
  <2>3. got >= 4
    BY <1>1, <1>3, <2>2 DEF BlankLineEnds
  <2> QED
    BY <1>1, <1>3, <2>2, <2>3
<1> QED
  BY <1>1, <1>2, <1>3

(* The length is found in the header, and it is that of the body.          *)
LEMMA LengthFound ==
  ASSUME NEW b \in Seq(Symbol), NEW e, NEW l, NEW t, HeaderOf(b, e, l, t)
  PROVE  HasLength(SubSeq(b, 1, e)) /\ Announced(SubSeq(b, 1, e)) = Len(b) - e
<1> DEFINE h == SubSeq(b, 1, e)
<1>1. e \in 4 .. Len(b) /\ l \in 1 .. e /\ t \in 1 .. e - 2 /\ Len(b) \in Nat
  BY DEF HeaderOf
<1>2. /\ h \in Seq(Symbol) /\ Len(h) = e
      /\ \A i \in 1 .. e : h[i] = b[i]
  <2>1. /\ h \in Seq(Symbol) /\ Len(h) = IF 1 <= e THEN e - 1 + 1 ELSE 0
        /\ \A k \in 1 .. e - 1 + 1 : h[k] = b[1 + k - 1]
    BY <1>1, CutShape
  <2>2. e - 1 + 1 = e /\ 1 <= e /\ \A k \in 1 .. e : 1 + k - 1 = k
    BY <1>1
  <2> HIDE DEF h
  <2> QED
    BY <2>1, <2>2
<1> HIDE DEF h
<1> DEFINE found == LinesOf(h, "lengthColon")
           line == Line(h, l)
           f == LineEnd(b, l)
<1>3. h[l] # Blank /\ h[l].w = "length" /\ h[l].n = Len(b) - e
  BY <1>1, <1>2, Words DEF HeaderOf
<1>4. l \in LineStarts(h)
  <2>1. l # 1 => b[l - 1] = h[l - 1]
    BY <1>1, <1>2
  <2> QED
    BY <1>1, <1>2, <2>1, LineStartsShape DEF HeaderOf, Begins
<1>5. ASSUME NEW i \in found PROVE i = l
  <2>1. i \in LineStarts(h) /\ StartsWith(Line(h, i), "lengthColon")
    BY DEF LinesOf
  <2>2. i \in 1 .. e /\ (i = 1 \/ h[i - 1] = LF)
    BY <1>2, <2>1, LineStartsShape
  <2>3. Begins(b, i)
    BY <1>1, <1>2, <2>2 DEF Begins
  <2>4. h[i] # Blank
    BY <1>2, <2>2, <2>3 DEF HeaderOf
  <2>5. h[i].w = "length"
    BY <1>2, <2>1, <2>2, <2>4, LineWord
  <2> QED
    BY <1>2, <2>2, <2>5 DEF HeaderOf
<1>6. l \in found
  BY <1>1, <1>2, <1>3, <1>4, LineWord DEF LinesOf
<1>7. Least(found) = l
  <2>1. found \in SUBSET Nat
    BY <1>1, <1>5
  <2>2. \A i \in found : l <= i
    BY <1>1, <1>5
  <2> HIDE DEF found
  <2> QED
    BY <1>6, <2>1, <2>2, LeastIs
<1>8. line \in Seq(Symbol) /\ line[1] = h[l] /\ Indent(line) = 0
  BY <1>1, <1>2, <1>3, LineWord
<1>9. Announced(h) = Len(b) - e
  <2>1. Announced(h) = IF Indent(line) <= 1 THEN line[Indent(line) + 1].n ELSE 0
    BY <1>7 DEF Announced
  <2> HIDE DEF line
  <2>2. Indent(line) <= 1 /\ line[Indent(line) + 1] = h[l]
    BY <1>8
  <2> QED
    BY <1>3, <2>1, <2>2
<1>10. /\ f \in l + 2 .. t - 1 /\ b[f] = LF /\ b[f - 1] = CR
       /\ \A j \in l .. f - 1 : b[j] # LF
  BY HeaderLines
<1> HIDE DEF f
<1>11. LineEnd(h, l) = f
  <2>1. l \in 1 .. Len(h) /\ f \in l .. Len(h) /\ h[f] = LF
    BY <1>1, <1>2, <1>10
  <2>2. \A j \in l .. f - 1 : h[j] # LF
    BY <1>1, <1>2, <1>10
  <2> QED
    BY <1>2, <2>1, <2>2, LineEndIs
<1>12. \E i \in DOMAIN line : line[i] = CR
  <2>1. DOMAIN line = 1 .. f - l + 1 /\ \A k \in 1 .. f - l + 1 : line[k] = h[l + k - 1]
    BY <1>1, <1>2, <1>11, LineShape
  <2>2. f - l \in 1 .. f - l + 1 /\ l + (f - l) - 1 = f - 1 /\ f - 1 \in 1 .. e
    BY <1>1, <1>10
  <2> HIDE DEF line
  <2>3. line[f - l] = CR
    BY <1>2, <1>10, <2>1, <2>2
  <2> QED
    BY <2>1, <2>2, <2>3
<1>13. HasLength(h)
  BY <1>6, <1>7, <1>12 DEF HasLength
<1> QED
  BY <1>9, <1>13 DEF h

(* The type is that of the header's line, although the body is looked      *)
(* through with it.                                                        *)
LEMMA TypeFound ==
  ASSUME NEW b \in Seq(Symbol), NEW e, NEW l, NEW t, HeaderOf(b, e, l, t)
  PROVE  LinesOf(b, "type") # {} /\ Least(LinesOf(b, "type")) = t
<1>1. e \in 4 .. Len(b) /\ l \in 1 .. e /\ t \in 1 .. e - 2 /\ Len(b) \in Nat
  BY DEF HeaderOf
<1> DEFINE found == LinesOf(b, "type")
<1>2. t \in found
  <2>1. t \in LineStarts(b) /\ t \in 1 .. Len(b)
    <3>1. t \in 1 .. Len(b)
      BY <1>1
    <3>2. t = 1 \/ b[t - 1] = LF
      BY DEF HeaderOf, Begins
    <3> QED
      BY <3>1, <3>2, LineStartsShape
  <2>2. b[t] # Blank /\ b[t].w \in Types
    BY <1>1 DEF HeaderOf
  <2> QED
    BY <2>1, <2>2, LineWord DEF LinesOf
<1>3. ASSUME NEW i \in found PROVE t <= i
  <2>1. i \in LineStarts(b) /\ StartsWith(Line(b, i), "type")
    BY DEF LinesOf
  <2>2. i \in 1 .. Len(b) /\ Begins(b, i)
    BY <2>1, LineStartsShape DEF Begins
  <2>3. CASE i < t
    <3>1. i \in 1 .. e /\ b[i] # Blank
      BY <1>1, <2>2, <2>3 DEF HeaderOf
    <3>2. b[i].w \in Types
      BY <2>1, <2>2, <3>1, LineWord
    <3> QED
      BY <1>1, <2>3, <3>1, <3>2 DEF HeaderOf
  <2> QED
    BY <1>1, <2>2, <2>3
<1>4. found \in SUBSET Nat
  BY LinesOfShape
<1> HIDE DEF found
<1>5. found # {} /\ Least(found) = t
  BY <1>2, <1>3, <1>4, LeastIs
<1> QED
  BY <1>5 DEF found

-----------------------------------------------------------------------------
(* The header of b with n in place of its length, symbol by symbol: what   *)
(* follows the number moves by Shift.                                      *)
Shift(b, l) == l + 2 - LineEnd(b, l)

Replaced(b, l, n, i) ==
  IF i < l THEN b[i] ELSE IF i = l THEN ContentLength(n) ELSE b[i - Shift(b, l)]

(* A header with another length, and a body of that length, is well formed *)
(* again.                                                                  *)
LEMMA ReplacedHeader ==
  ASSUME NEW b \in Seq(Symbol), NEW e, NEW l, NEW t, HeaderOf(b, e, l, t),
         NEW o \in Seq(Symbol), NEW n \in Nat, Len(o) = e + Shift(b, l) + n,
         \A i \in 1 .. e + Shift(b, l) : o[i] = Replaced(b, l, n, i)
  PROVE  HeaderOf(o, e + Shift(b, l), l, t + Shift(b, l))
<1> DEFINE d == Shift(b, l)
           f == LineEnd(b, l)
<1>1. e \in 4 .. Len(b) /\ l \in 1 .. e /\ t \in 1 .. e - 2 /\ Len(b) \in Nat
      /\ b[e - 3] = CR /\ b[e - 2] = LF /\ b[e - 1] = CR /\ b[e] = LF
      /\ l < t /\ f \in l + 2 .. t - 1 /\ b[f] = LF /\ b[f - 1] = CR
  <2>1. e \in 4 .. Len(b) /\ l \in 1 .. e /\ t \in 1 .. e - 2 /\ Len(b) \in Nat
    BY DEF HeaderOf
  <2>2. /\ b[e - 3] = CR /\ b[e - 2] = LF /\ b[e - 1] = CR /\ b[e] = LF
        /\ l < t /\ f \in l + 2 .. t - 1 /\ b[f] = LF /\ b[f - 1] = CR
    BY HeaderLines
  <2> QED
    BY <2>1, <2>2
<1>2. /\ \A i \in 1 .. e - 1 : ~BlankLineEnds(b, i)
      /\ PairedTo(b, e)
      /\ \A i \in 1 .. e : Begins(b, i) => b[i] # Blank
      /\ Begins(b, l) /\ Begins(b, t)
      /\ \A i \in 1 .. e : b[i].w = "length" <=> i = l
      /\ \A i \in 1 .. e : b[i].w \in Types <=> i = t
      /\ \A i \in t .. e - 3 : b[i] # LF
  BY DEF HeaderOf
<1>3. d = l + 2 - f /\ d \in Int /\ d <= 0 /\ e + d >= l + 4 /\ t + d >= l + 3 /\ t # e - 3
  <2>1. t # e - 3
    <3>1. b[t].w \in Types
      <4>1. t \in 1 .. e
        BY <1>1
      <4> QED
        BY <1>2, <4>1
    <3>2. CR.w \notin Types
      BY Words DEF Types
    <3> QED
      BY <1>1, <3>1, <3>2
  <2>2. d = l + 2 - f
    BY DEF Shift
  <2> HIDE DEF d, f
  <2> QED
    BY <1>1, <2>1, <2>2
<1>4. \A i \in 1 .. e + d :
        /\ i < l => o[i] = b[i]
        /\ i = l => o[i] = ContentLength(n)
        /\ i > l => o[i] = b[i - d]
  <2> SUFFICES ASSUME NEW i \in 1 .. e + d
               PROVE  /\ i < l => o[i] = b[i]
                      /\ i = l => o[i] = ContentLength(n)
                      /\ i > l => o[i] = b[i - d]
    OBVIOUS
  <2>1. o[i] = IF i < l THEN b[i] ELSE IF i = l THEN ContentLength(n) ELSE b[i - d]
    BY DEF Replaced
  <2>2. i \in Int /\ l \in Int
    BY <1>1, <1>3
  <2> HIDE DEF d
  <2> QED
    BY <2>1, <2>2
<1>5. Len(o) = e + d + n /\ Len(o) \in Nat
  OBVIOUS
<1> HIDE DEF d, f
<1>6. o[l] = ContentLength(n) /\ o[l] # CR /\ o[l] # LF /\ o[l] # Blank
  <2>1. o[l] = ContentLength(n)
    <3>1. l \in 1 .. e + d
      BY <1>1, <1>3
    <3> QED
      BY <1>4, <3>1
  <2> QED
    BY <2>1, Words
<1>7. o[l + 1] = CR /\ o[l + 2] = LF
  <2>1. l + 1 \in 1 .. e + d /\ l + 2 \in 1 .. e + d /\ l + 1 - d = f - 1 /\ l + 2 - d = f
        /\ l + 1 > l /\ l + 2 > l
    BY <1>1, <1>3
  <2>2. o[l + 1] = b[l + 1 - d] /\ o[l + 2] = b[l + 2 - d]
    <3>1. \A i \in 1 .. e + d : i > l => o[i] = b[i - d]
      BY <1>4
    <3>2. PICK i \in 1 .. e + d : i = l + 1
      BY <2>1
    <3>3. PICK j \in 1 .. e + d : j = l + 2
      BY <2>1
    <3>4. o[i] = b[i - d] /\ o[j] = b[j - d]
      BY <2>1, <3>1, <3>2, <3>3
    <3> QED
      BY <1>1, <1>3, <3>2, <3>3, <3>4
  <2> QED
    BY <1>1, <2>1, <2>2
<1>8. /\ o[e + d - 3] = CR /\ o[e + d - 2] = LF /\ o[e + d - 1] = CR /\ o[e + d] = LF
  <2>1. /\ e + d - 3 \in 1 .. e + d /\ e + d - 2 \in 1 .. e + d
        /\ e + d - 1 \in 1 .. e + d /\ e + d \in 1 .. e + d
        /\ e + d - 3 > l /\ (e + d - 3) - d = e - 3 /\ (e + d - 2) - d = e - 2
        /\ (e + d - 1) - d = e - 1 /\ (e + d) - d = e
    BY <1>1, <1>3
  <2>2. e + d - 2 > l /\ e + d - 1 > l /\ e + d > l
    BY <1>1, <1>3
  <2> QED
    BY <1>1, <1>4, <2>1, <2>2
<1>9. e + d \in 4 .. Len(o) /\ l \in 1 .. e + d /\ t + d \in 1 .. (e + d) - 2
  BY <1>1, <1>3, <1>5
<1>10. BlankLineEnds(o, e + d)
  <2>1. e + d >= 4 /\ e + d <= Len(o)
    BY <1>9
  <2> QED
    BY <1>1, <1>3, <1>8, <2>1 DEF BlankLineEnds
<1>11. ASSUME NEW i \in 1 .. (e + d) - 1, BlankLineEnds(o, i) PROVE FALSE
  <2>1. /\ i >= 4 /\ o[i - 3] = CR /\ o[i - 2] = LF /\ o[i - 1] = CR /\ o[i] = LF
        /\ i \in Int /\ i <= e + d - 1
    BY <1>1, <1>3, <1>11 DEF BlankLineEnds
  <2>2. i # l /\ i - 1 # l /\ i - 2 # l /\ i - 3 # l
    BY <1>6, <2>1
  <2>3. CASE i < l
    <3>1. i - 3 \in 1 .. e + d /\ i - 2 \in 1 .. e + d /\ i - 1 \in 1 .. e + d /\ i \in 1 .. e + d
          /\ i - 3 < l /\ i - 2 < l /\ i - 1 < l /\ i <= Len(b) /\ i \in 1 .. e - 1
      BY <1>1, <1>3, <2>1, <2>3
    <3>2. BlankLineEnds(b, i)
      BY <1>4, <2>1, <2>3, <3>1 DEF BlankLineEnds
    <3> QED
      BY <1>2, <3>1, <3>2
  <2>4. CASE i > l
    <3>1. i - 3 > l
      <4>1. i \in Int /\ l \in Int /\ i > l /\ i # l + 1 /\ i # l + 2 /\ i # l + 3
        BY <1>1, <2>1, <2>2, <2>4
      <4> QED
        BY <4>1
    <3>2. i - 3 \in 1 .. e + d /\ i - 2 \in 1 .. e + d /\ i - 1 \in 1 .. e + d /\ i \in 1 .. e + d
          /\ i - 2 > l /\ i - 1 > l
      <4>1. e \in Int /\ d \in Int /\ l \in Int /\ l >= 1 /\ i \in Int
        BY <1>1, <1>3, <2>1
      <4>2. i - 3 > l /\ i <= e + d - 1
        BY <2>1, <3>1
      <4> QED
        BY <4>1, <4>2
    <3>3. (i - 3) - d = (i - d) - 3 /\ (i - 2) - d = (i - d) - 2 /\ (i - 1) - d = (i - d) - 1
          /\ i - d \in 1 .. e - 1 /\ i - d >= 4 /\ i - d <= Len(b)
      BY <1>1, <1>3, <2>1
    <3>4. BlankLineEnds(b, i - d)
      BY <1>4, <2>1, <2>4, <3>1, <3>2, <3>3 DEF BlankLineEnds
    <3> QED
      BY <1>2, <3>3, <3>4
  <2> QED
    BY <1>1, <2>1, <2>2, <2>3, <2>4
<1>12. PairedTo(o, e + d)
  <2> SUFFICES ASSUME NEW i \in 1 .. e + d
               PROVE  /\ o[i] = CR /\ i < e + d => o[i + 1] = LF
                      /\ o[i] = LF => i > 1 /\ o[i - 1] = CR
    BY DEF PairedTo
  <2>1. CASE i < l
    <3>1. o[i] = b[i] /\ i \in 1 .. e
      BY <1>1, <1>4, <2>1
    <3>2. ASSUME o[i] = CR PROVE o[i + 1] = LF
      <4>1. b[i + 1] = LF
        <5>1. b[i] = CR /\ i \in 1 .. e /\ i < e
          BY <1>1, <2>1, <3>1, <3>2
        <5> QED
          BY <1>2, <5>1 DEF PairedTo
      <4>2. i + 1 # l
        <5>1. b[l].w = "length"
          BY <1>1, <1>2
        <5> QED
          BY <4>1, <5>1, Words
      <4>3. i + 1 \in 1 .. e + d /\ i + 1 < l
        BY <1>1, <1>3, <2>1, <4>2
      <4> QED
        BY <1>4, <4>1, <4>3
    <3>3. ASSUME o[i] = LF PROVE i > 1 /\ o[i - 1] = CR
      <4>1. i > 1 /\ b[i - 1] = CR
        BY <1>2, <3>1, <3>3 DEF PairedTo
      <4>2. i - 1 \in 1 .. e + d /\ i - 1 < l
        BY <1>1, <1>3, <2>1, <4>1
      <4> QED
        BY <1>4, <4>1, <4>2
    <3> QED
      BY <3>2, <3>3
  <2>2. CASE i = l
    BY <1>6, <2>2
  <2>3. CASE i > l
    <3>1. o[i] = b[i - d] /\ i - d \in 1 .. e
      BY <1>1, <1>3, <1>4, <2>3
    <3>2. ASSUME o[i] = CR, i < e + d PROVE o[i + 1] = LF
      <4>1. i - d < e /\ i + 1 \in 1 .. e + d /\ i + 1 > l /\ (i + 1) - d = (i - d) + 1
        BY <1>1, <1>3, <2>3, <3>2
      <4>2. b[(i - d) + 1] = LF
        BY <1>2, <3>1, <3>2, <4>1 DEF PairedTo
      <4> QED
        BY <1>4, <4>1, <4>2
    <3>3. ASSUME o[i] = LF PROVE i > 1 /\ o[i - 1] = CR
      <4>1. b[(i - d) - 1] = CR
        BY <1>2, <3>1, <3>3 DEF PairedTo
      <4>2. i # l + 1
        BY <1>7, <3>3, Words
      <4>3. i - 1 \in 1 .. e + d /\ i - 1 > l /\ (i - 1) - d = (i - d) - 1 /\ i > 1
        BY <1>1, <1>3, <2>3, <4>2
      <4> QED
        BY <1>4, <4>1, <4>3
    <3> QED
      BY <3>2, <3>3
  <2> QED
    BY <1>1, <2>1, <2>2, <2>3
<1>13. ASSUME NEW i \in 1 .. e + d, Begins(o, i) PROVE o[i] # Blank
  <2>1. CASE i < l
    <3>1. o[i] = b[i] /\ i \in 1 .. e /\ (i # 1 => o[i - 1] = b[i - 1])
      <4>1. i \in 1 .. e /\ (i # 1 => i - 1 \in 1 .. e + d /\ i - 1 < l)
        BY <1>1, <1>3, <2>1
      <4> QED
        BY <1>4, <2>1, <4>1
    <3>2. Begins(b, i)
      BY <1>13, <3>1 DEF Begins
    <3> QED
      BY <1>2, <3>1, <3>2
  <2>2. CASE i = l
    BY <1>6, <2>2
  <2>3. CASE i = l + 1
    BY <1>7, <2>3, Words
  <2>4. CASE i > l + 1
    <3>1. i # 1 /\ i > l /\ i - 1 > l /\ i - 1 \in 1 .. e + d /\ (i - 1) - d = (i - d) - 1
          /\ i - d \in 1 .. e
      BY <1>1, <1>3, <2>4
    <3>2. o[i] = b[i - d] /\ o[i - 1] = b[(i - d) - 1]
      BY <1>4, <3>1
    <3>3. Begins(b, i - d)
      BY <1>13, <3>1, <3>2 DEF Begins
    <3> QED
      BY <1>2, <3>1, <3>2, <3>3
  <2> QED
    BY <1>1, <2>1, <2>2, <2>3, <2>4
<1>14. Begins(o, l)
  <2>1. CASE l = 1
    BY <2>1 DEF Begins
  <2>2. CASE l # 1
    <3>1. l - 1 \in 1 .. e + d /\ l - 1 < l
      BY <1>1, <1>3, <2>2
    <3>2. o[l - 1] = b[l - 1]
      BY <1>4, <3>1
    <3> QED
      BY <1>2, <2>2, <3>2 DEF Begins
  <2> QED
    BY <2>1, <2>2
<1>15. Begins(o, t + d)
  <2>1. (t + d) - 1 \in 1 .. e + d /\ (t + d) - 1 > l /\ ((t + d) - 1) - d = t - 1 /\ t # 1
    BY <1>1, <1>3
  <2>2. o[(t + d) - 1] = b[t - 1]
    BY <1>4, <2>1
  <2> QED
    BY <1>2, <2>1, <2>2 DEF Begins
<1>16. ASSUME NEW i \in 1 .. e + d PROVE o[i].w = "length" <=> i = l
  <2>1. CASE i < l
    <3>1. o[i] = b[i] /\ i \in 1 .. e /\ i # l
      BY <1>1, <1>4, <2>1
    <3> QED
      BY <1>2, <3>1
  <2>2. CASE i = l
    BY <1>6, <2>2, Words
  <2>3. CASE i > l
    <3>1. o[i] = b[i - d] /\ i - d \in 1 .. e /\ i - d # l
      BY <1>1, <1>3, <1>4, <2>3
    <3> QED
      BY <1>2, <2>3, <3>1
  <2> QED
    BY <1>1, <2>1, <2>2, <2>3
<1>17. ASSUME NEW i \in 1 .. e + d PROVE o[i].w \in Types <=> i = t + d
  <2>1. CASE i < l
    <3>1. o[i] = b[i] /\ i \in 1 .. e /\ i # t /\ i # t + d
      BY <1>1, <1>3, <1>4, <2>1
    <3> QED
      BY <1>2, <3>1
  <2>2. CASE i = l
    <3>1. o[i].w = "length" /\ i # t + d
      BY <1>1, <1>3, <1>6, <2>2, Words
    <3> QED
      BY <3>1 DEF Types
  <2>3. CASE i > l
    <3>1. o[i] = b[i - d] /\ i - d \in 1 .. e /\ (i - d = t <=> i = t + d)
      BY <1>1, <1>3, <1>4, <2>3
    <3> QED
      BY <1>2, <3>1
  <2> QED
    BY <1>1, <2>1, <2>2, <2>3
<1>18. ASSUME NEW i \in t + d .. (e + d) - 3 PROVE o[i] # LF
  <2>1. i \in 1 .. e + d /\ i > l /\ i - d \in t .. e - 3
    BY <1>1, <1>3
  <2> QED
    BY <1>2, <1>4, <2>1
<1>19. o[l].n = Len(o) - (e + d)
  <2>1. o[l].n = n
    BY <1>6, Words
  <2>2. e \in Int /\ d \in Int /\ n \in Int
    BY <1>1, <1>3
  <2>3. Len(o) - (e + d) = n
    BY <1>5, <2>2
  <2> QED
    BY <2>1, <2>3
<1>20. HeaderOf(o, e + d, l, t + d)
  BY <1>9, <1>10, <1>11, <1>12, <1>13, <1>14, <1>15, <1>16, <1>17, <1>18, <1>19 DEF HeaderOf
<1> QED
  BY <1>20 DEF d

(* Where the two loops over lines are, for an answer of that shape.        *)
HeadCopied(l) ==
  /\ Len(out) = IF at < l THEN at ELSE at + Shift(stream, l)
  /\ \A i \in 1 .. Len(out) : out[i] = Replaced(stream, l, NewLength, i)

Untouched == at = 0 /\ kept = <<>> /\ ~noWrite /\ out = <<>>

InXmlAt ==
  /\ at \in 0 .. Len(xml)
  /\ at = 0 \/ at = Len(xml) \/ xml[at] = LF
  /\ at = 0 => kept = <<>> /\ ~noWrite
  /\ at > 0 => kept # <<>> /\ kept[1] = LF
  /\ out = <<>>

InHeadAt(l, t) ==
  /\ kept # <<>> /\ kept[1] = LF
  /\ at \in 0 .. t - 1
  /\ at = 0 \/ stream[at] = LF
  /\ HeadCopied(l)

RelayAt(e, l, t) ==
  /\ phase \in {"header", "body", "parse"} => Untouched
  /\ phase \in {"parse", "xml", "head"} => big = stream
  /\ phase \in {"xml", "head", "lost"} =>
       /\ stream[t].w = "xml"
       /\ head = SubSeq(stream, 1, e - 1)
       /\ xml = SubSeq(stream, e, Len(stream))
  /\ phase = "xml" => InXmlAt
  /\ phase = "head" => InHeadAt(l, t)
  /\ phase = "written" =>
       IF stream[t].w = "xml"
       THEN /\ HeaderOf(out, e + Shift(stream, l), l, t + Shift(stream, l))
            /\ kept # <<>>
            /\ \A k \in 1 .. Len(kept) - 1 : out[e + Shift(stream, l) + k] = kept[k + 1]
            /\ Len(out) = e + Shift(stream, l) + (Len(kept) - 1)
       ELSE out = stream

(* The body is read to its end and not further: big_buffer holds the       *)
(* answer.                                                                 *)
LEMMA WholeRead ==
  ASSUME ResponseTyped, HeaderInv, NEW e, NEW l, NEW t, HeaderOf(stream, e, l, t), ReadBody
  PROVE  big' = stream /\ phase' = "parse" /\ UNCHANGED <<stream, state, got, xmlVars, out>>
<1> DEFINE buffer == SubSeq(stream, 1, got)
<1>1. /\ stream \in Seq(Symbol) /\ got \in 0 .. Len(stream) /\ Len(stream) \in Nat
      /\ phase = "body"
  BY DEF ResponseTyped, ResponseTypeOK, ReadBody
<1>2. got = e
  BY <1>1, HeaderReadWhole
<1>3. HasLength(buffer) /\ Announced(buffer) = Len(stream) - e
  BY <1>1, <1>2, LengthFound
<1> DEFINE new == [i \in 1 .. got + Announced(buffer) |-> IF i <= Len(stream) THEN stream[i] ELSE Sym("nul")]
<1>4. big' = new /\ phase' = "parse" /\ UNCHANGED <<stream, state, got, xmlVars, out>>
  BY <1>3 DEF ReadBody
<1> HIDE DEF buffer
<1>5. got + Announced(buffer) = Len(stream)
  BY <1>1, <1>2, <1>3
<1>6. new = [i \in 1 .. Len(stream) |-> stream[i]]
  BY <1>1, <1>5
<1>7. stream = [i \in 1 .. Len(stream) |-> stream[i]]
  BY <1>1
<1> QED
  BY <1>4, <1>6, <1>7

LEMMA RelayParse ==
  ASSUME ResponseTyped, NEW e, NEW l, NEW t, HeaderOf(stream, e, l, t), RelayAt(e, l, t), Parse
  PROVE  RelayAt(e, l, t)' /\ (phase' = "xml" <=> stream[t].w = "xml")
         /\ phase' \in {"xml", "written"} /\ UNCHANGED <<stream, at, noWrite, kept>>
<1> DEFINE d == Shift(stream, l)
<1>1. /\ stream \in Seq(Symbol) /\ big = stream /\ Len(stream) \in Nat /\ phase = "parse"
      /\ Untouched
  BY DEF ResponseTyped, ResponseTypeOK, Parse, RelayAt
<1>2. /\ e \in 4 .. Len(stream) /\ l \in 1 .. e /\ t \in 1 .. e - 2
      /\ \A i \in 1 .. e : Begins(stream, i) => stream[i] # Blank
      /\ Begins(stream, t)
  BY DEF HeaderOf
<1>3. LinesOf(big, "type") # {} /\ Least(LinesOf(big, "type")) = t
  BY <1>1, TypeFound
<1>4. TypeLine[1] = stream[t] /\ stream[t] # Blank /\ TypesRead = {stream[t].w}
  <2>1. stream[t] # Blank /\ t \in 1 .. Len(stream)
    BY <1>2
  <2>2. Line(stream, t)[1] = stream[t]
    BY <1>1, <2>1, LineWord
  <2>3. Len(Line(stream, t)) # 1
    <3>1. Len(Line(stream, t)) = LineEnd(stream, t) - t + 1
      BY <1>1, <2>1, LineShape
    <3>2. t # LineEnd(stream, t) /\ t \in Int /\ LineEnd(stream, t) \in Int
      <4>1. LineEnd(stream, t) = e - 2 /\ stream[e - 2] = LF
        BY <1>1, HeaderLines
      <4>2. stream[t].w \in Types
        <5>1. \A i \in 1 .. e : stream[i].w \in Types <=> i = t
          BY DEF HeaderOf
        <5> QED
          BY <1>2, <5>1
      <4>3. stream[t] # LF
        BY <4>2, Words DEF Types
      <4> QED
        BY <1>2, <4>1, <4>3
    <3> QED
      BY <3>1, <3>2
  <2> QED
    BY <1>1, <1>3, <2>1, <2>2, <2>3 DEF TypeLine, TypesRead
<1>5. LineEnd(stream, t) = e - 2 /\ stream[e - 1] = CR
  BY <1>1, HeaderLines
<1>6. CASE stream[t].w # "xml"
  <2>1. WriteUnchanged
    BY <1>3, <1>4, <1>6 DEF Parse
  <2> QED
    BY <1>1, <1>6, <2>1 DEF WriteUnchanged, RelayAt, readVars, xmlVars
<1>7. CASE stream[t].w = "xml"
  <2> DEFINE end == LineEnd(big, Least(LinesOf(big, "type")))
             last == IF end < Len(big) THEN end + 1 ELSE end
  <2>1. /\ head' = SubSeq(big, 1, last)
        /\ xml' = From(big, end + 1)
        /\ phase' = "xml"
        /\ UNCHANGED <<readVars, at, noWrite, kept, out>>
    BY <1>3, <1>4, <1>7 DEF Parse
  <2>2. end = e - 2 /\ end + 1 = e - 1 /\ end < Len(big)
    BY <1>1, <1>2, <1>3, <1>5
  <2> HIDE DEF end
  <2>3. last = e - 1
    BY <2>2
  <2>4. From(stream, e - 1) = SubSeq(stream, e, Len(stream))
    <3>1. (e - 1) + 1 = e /\ ~(e - 1 > Len(stream))
      BY <1>1, <1>2
    <3>2. stream[e - 1].w = "CR"
      BY <1>5, Words
    <3> QED
      BY <3>1, <3>2 DEF From
  <2>5. head' = SubSeq(stream, 1, e - 1) /\ xml' = SubSeq(stream, e, Len(stream))
    BY <1>1, <2>1, <2>2, <2>3, <2>4
  <2>6. xml' \in Seq(Symbol)
    BY <1>1, <1>2, <2>5, CutShape
  <2>7. InXmlAt'
    <3>1. at' = 0 /\ kept' = <<>> /\ ~noWrite' /\ out' = <<>>
      BY <1>1, <2>1 DEF Untouched
    <3>2. Len(xml') \in Nat
      BY <2>6
    <3> QED
      BY <3>1, <3>2 DEF InXmlAt
  <2> QED
    BY <1>1, <1>7, <2>1, <2>5, <2>7 DEF RelayAt, readVars
<1> QED
  BY <1>6, <1>7

(* The XML that is looked through is the LF of the empty line and the      *)
(* body.                                                                   *)
LEMMA XmlShape ==
  ASSUME NEW b \in Seq(Symbol), NEW e, NEW l, NEW t, HeaderOf(b, e, l, t)
  PROVE  /\ SubSeq(b, e, Len(b)) \in Seq(Symbol)
         /\ Len(SubSeq(b, e, Len(b))) = Len(b) - e + 1
         /\ \A k \in 1 .. Len(b) - e + 1 : SubSeq(b, e, Len(b))[k] = b[e + k - 1]
         /\ SubSeq(b, e, Len(b))[1] = LF
<1>1. e \in 4 .. Len(b) /\ Len(b) \in Nat /\ b[e] = LF
  BY DEF HeaderOf, BlankLineEnds
<1> DEFINE n == Len(b)
           x == SubSeq(b, e, n)
<1>2. /\ x \in Seq(Symbol) /\ Len(x) = IF e <= n THEN n - e + 1 ELSE 0
      /\ \A k \in 1 .. n - e + 1 : x[k] = b[e + k - 1]
  <2>1. e \in Nat \ {0} /\ n \in 0 .. Len(b)
    BY <1>1
  <2> HIDE DEF n
  <2> QED
    BY <2>1, CutShape
<1> HIDE DEF x
<1>3. 1 \in 1 .. n - e + 1 /\ e + 1 - 1 = e /\ e <= n
  BY <1>1
<1>4. x[1] = LF
  BY <1>1, <1>2, <1>3
<1> QED
  BY <1>2, <1>3, <1>4 DEF x, n

(* What no key is compared with: a line of one LF.                         *)
LEMMA XmlTurn ==
  ASSUME ResponseTyped, NEW e, NEW l, NEW t, HeaderOf(stream, e, l, t), RelayAt(e, l, t),
         phase = "xml", at < Len(xml)
  PROVE  /\ xml \in Seq(Symbol) /\ at \in Nat /\ Len(xml) \in Nat
         /\ XmlLine \in Seq(Symbol) /\ XmlLine # <<>> /\ Len(XmlLine) \in Nat
         /\ at + Len(XmlLine) = LineEnd(xml, at + 1)
         /\ LineEnd(xml, at + 1) \in at + 1 .. Len(xml)
         /\ LineEnd(xml, at + 1) = Len(xml) \/ xml[LineEnd(xml, at + 1)] = LF
         /\ \A j \in at + 1 .. LineEnd(xml, at + 1) - 1 : xml[j] # LF
         /\ \A k \in 1 .. Len(XmlLine) : XmlLine[k] = xml[at + k]
         /\ at = 0 =>
              /\ XmlLine = <<LF>>
              /\ \A key \in {"bitrate", "mediaEnd", "manifestEnd"} : ~StartsWith(XmlLine, key)
<1>1. xml \in Seq(Symbol) /\ at \in Nat /\ Len(xml) \in Nat /\ stream \in Seq(Symbol)
      /\ xml = SubSeq(stream, e, Len(stream))
  BY DEF ResponseTyped, ResponseTypeOK, RelayAt
<1>2. xml[1] = LF
  BY <1>1, XmlShape
<1> DEFINE i == at + 1
           f == LineEnd(xml, i)
<1>3. /\ XmlLine \in Seq(Symbol) /\ XmlLine # <<>> /\ Len(XmlLine) \in Nat
      /\ at + Len(XmlLine) = f
  BY <1>1, LineAhead DEF XmlLine
<1>4. i \in 1 .. Len(xml)
  BY <1>1
<1>5. /\ f \in i .. Len(xml) /\ \A j \in i .. f - 1 : xml[j] # LF
      /\ xml[f] = LF \/ f = Len(xml)
  BY <1>1, <1>4, LineEndShape
<1>6. /\ Len(XmlLine) = f - i + 1
      /\ \A k \in 1 .. f - i + 1 : XmlLine[k] = xml[i + k - 1]
  <2>1. XmlLine = Line(xml, i)
    BY DEF XmlLine
  <2> HIDE DEF f, i
  <2> QED
    BY <1>1, <1>4, <2>1, LineShape DEF f
<1>7. \A k \in 1 .. Len(XmlLine) : XmlLine[k] = xml[at + k]
  <2>1. \A k \in 1 .. Len(XmlLine) : i + k - 1 = at + k
    BY <1>1
  <2> HIDE DEF f, i
  <2> QED
    BY <1>6, <2>1
<1>8. ASSUME at = 0
      PROVE  /\ XmlLine = <<LF>>
             /\ \A key \in {"bitrate", "mediaEnd", "manifestEnd"} : ~StartsWith(XmlLine, key)
  <2>1. 1 \in 1 .. Len(xml) /\ i = 1
    BY <1>4, <1>8
  <2>2. LineEnd(xml, 1) = 1
    <3>1. 1 \in 1 .. Len(xml) /\ \A j \in 1 .. 1 - 1 : xml[j] # LF
      BY <2>1
    <3> QED
      BY <1>1, <1>2, <3>1, LineEndIs
  <2>3. Len(XmlLine) = 1 /\ XmlLine[1] = LF
    <3>1. f = 1 /\ i = 1
      BY <2>1, <2>2
    <3> HIDE DEF f, i
    <3> QED
      BY <1>2, <1>3, <1>6, <1>7, <1>8, <3>1
  <2>4. XmlLine = <<LF>>
    BY <1>3, <2>3
  <2>5. Indent(XmlLine) = 0 /\ FirstWord(XmlLine) = "LF"
    <3>1. XmlLine[1] # Blank
      BY <2>3, Words
    <3> QED
      BY <1>3, <2>3, <3>1, Unindented, Words
  <2>6. Indent(XmlLine) <= 3
    BY <2>5
  <2>7. /\ ~StartsWith(XmlLine, "bitrate") /\ ~StartsWith(XmlLine, "mediaEnd")
        /\ ~StartsWith(XmlLine, "manifestEnd")
    BY <1>3, <2>5, <2>6, KeysFound
  <2> QED
    BY <2>4, <2>7
<1> QED
  BY <1>1, <1>3, <1>5, <1>7, <1>8

LEMMA RelayXml ==
  ASSUME ResponseTyped, ResponseTyped', NEW e, NEW l, NEW t, HeaderOf(stream, e, l, t), RelayAt(e, l, t),
         DropBitrate \/ KeepMediaEnd \/ KeepLine \/ EndManifest
  PROVE  RelayAt(e, l, t)'
<1>1. /\ phase = "xml" /\ at < Len(xml) /\ UNCHANGED <<readVars, head, xml, out>>
      /\ kept \in Seq(Symbol) /\ kept' \in Seq(Symbol)
  BY DEF ResponseTyped, ResponseTypeOK, DropBitrate, KeepMediaEnd, KeepLine, EndManifest, InXml, InXmlOn, InXmlOn
<1>2. InXmlAt /\ out = <<>> /\ big = stream /\ stream[t].w = "xml"
      /\ head = SubSeq(stream, 1, e - 1) /\ xml = SubSeq(stream, e, Len(stream))
  BY <1>1 DEF RelayAt, InXmlAt
<1> DEFINE f == LineEnd(xml, at + 1)
           line == XmlLine
<1>3. /\ xml \in Seq(Symbol) /\ at \in Nat /\ Len(xml) \in Nat
      /\ line \in Seq(Symbol) /\ line # <<>> /\ Len(line) \in Nat
      /\ at + Len(line) = f /\ f \in at + 1 .. Len(xml)
      /\ f = Len(xml) \/ xml[f] = LF
      /\ at = 0 =>
           /\ line = <<LF>>
           /\ \A key \in {"bitrate", "mediaEnd", "manifestEnd"} : ~StartsWith(line, key)
  BY <1>1, XmlTurn
<1> HIDE DEF f, line
<1>4. kept \o line \in Seq(Symbol) /\ Append(kept, Sym("manifestEnd")) \in Seq(Symbol)
      /\ (kept # <<>> => (kept \o line)[1] = kept[1] /\ Append(kept, Sym("manifestEnd"))[1] = kept[1])
      /\ kept \o line # <<>> /\ Append(kept, Sym("manifestEnd")) # <<>>
  <2>1. /\ kept \o line \in Seq(Symbol) /\ Len(kept \o line) = Len(kept) + Len(line)
        /\ \A i \in 1 .. Len(kept) + Len(line) :
             (kept \o line)[i] = IF i <= Len(kept) THEN kept[i] ELSE line[i - Len(kept)]
    BY <1>1, <1>3, ConcatProperties
  <2>2. kept # <<>> => 1 <= Len(kept) /\ 1 \in 1 .. Len(kept) + Len(line)
    BY <1>1, <1>3
  <2>3. Len(line) > 0 /\ Len(kept) + Len(line) > 0
    BY <1>1, <1>3
  <2>4. kept \o line # <<>>
    BY <2>1, <2>3
  <2> DEFINE x == Sym("manifestEnd")
  <2>5. x \in Symbol
    BY Symbols
  <2> HIDE DEF x
  <2>6. Append(kept, x) \in Seq(Symbol) /\ Len(Append(kept, x)) = Len(kept) + 1 /\ Len(kept) \in Nat
        /\ (kept # <<>> => Append(kept, x)[1] = kept[1])
    BY <1>1, <2>5
  <2>7. Append(kept, x) # <<>>
    <3> DEFINE y == Append(kept, x)
    <3>1. Len(y) # 0
      BY <2>6
    <3> HIDE DEF y
    <3>2. y # <<>>
      BY <3>1
    <3> QED
      BY <3>2 DEF y
  <2>8. kept # <<>> => (kept \o line)[1] = kept[1]
    BY <2>1, <2>2
  <2> QED
    BY <2>1, <2>4, <2>6, <2>7, <2>8 DEF x
<1>5. CASE DropBitrate
  <2>1. at' = f /\ UNCHANGED <<phase, noWrite, kept>> /\ at # 0
    BY <1>3, <1>5 DEF DropBitrate, NextLine, line
  <2>2. InXmlAt'
    BY <1>1, <1>2, <1>3, <2>1, SMTT(30) DEF InXmlAt
  <2> QED
    BY <1>1, <1>2, <2>1, <2>2 DEF RelayAt, readVars
<1>6. CASE KeepMediaEnd \/ KeepLine
  <2>1. at' = f /\ phase' = phase /\ kept' = IF noWrite THEN kept ELSE kept \o line
    BY <1>3, <1>6 DEF KeepMediaEnd, KeepLine, Keep, NextLine, line
  <2>2. kept' # <<>> /\ kept'[1] = LF
    <3>1. CASE at = 0
      <4>1. kept' = <<>> \o <<LF>>
        BY <1>2, <1>3, <2>1, <3>1 DEF InXmlAt
      <4>2. kept' = <<LF>>
        BY <4>1
      <4> QED
        BY <4>2
    <3>2. CASE at # 0
      <4>1. kept # <<>> /\ kept[1] = LF
        BY <1>2, <1>3, <3>2 DEF InXmlAt
      <4>2. CASE noWrite
        BY <2>1, <4>1, <4>2
      <4>3. CASE ~noWrite
        <5>1. kept' = kept \o line
          BY <2>1, <4>3
        <5> QED
          BY <1>4, <4>1, <5>1
      <4> QED
        BY <4>2, <4>3
    <3> QED
      BY <3>1, <3>2
  <2>3. InXmlAt'
    <3>1. at' \in 0 .. Len(xml') /\ at' # 0 /\ at' > 0
      BY <1>1, <1>3, <2>1
    <3>2. at' = Len(xml') \/ xml'[at'] = LF
      BY <1>1, <1>3, <2>1
    <3> QED
      BY <1>1, <1>2, <2>2, <3>1, <3>2 DEF InXmlAt
  <2> QED
    BY <1>1, <1>2, <2>1, <2>3 DEF RelayAt, readVars
<1>7. CASE EndManifest
  <2>1. /\ kept' = Append(kept, Sym("manifestEnd")) /\ phase' = "head" /\ at' = 0
        /\ at # 0
    BY <1>3, <1>7 DEF EndManifest, line
  <2>2. kept # <<>> /\ kept[1] = LF
    BY <1>2, <1>3, <2>1 DEF InXmlAt
  <2>3. kept' # <<>> /\ kept'[1] = LF
    BY <1>4, <2>1, <2>2
  <2>4. l \in Nat /\ 0 < l /\ t \in Nat /\ 0 < t
    BY DEF HeaderOf
  <2>5. out' = <<>> /\ Len(out') = 0
    BY <1>1, <1>2
  <2>6. HeadCopied(l)'
    BY <2>1, <2>4, <2>5 DEF HeadCopied
  <2>7. InHeadAt(l, t)'
    BY <2>1, <2>3, <2>4, <2>6 DEF InHeadAt
  <2> QED
    BY <1>1, <1>2, <2>1, <2>7 DEF RelayAt, readVars
<1> QED
  BY <1>5, <1>6, <1>7

(* The loop over the header looks at one of its lines, which the length    *)
(* and the type alone begin as the keys do.                                *)
LEMMA HeadTurn ==
  ASSUME ResponseTyped, NEW e, NEW l, NEW t, HeaderOf(stream, e, l, t), RelayAt(e, l, t),
         phase = "head"
  PROVE  /\ at < Len(head) /\ EndsInside(head, at + 1)
         /\ HeaderLine \in Seq(Symbol) /\ Len(HeaderLine) \in Nat
         /\ at + Len(HeaderLine) = LineEnd(stream, at + 1)
         /\ LineEnd(stream, at + 1) \in at + 1 .. e - 2
         /\ \A k \in 1 .. Len(HeaderLine) : HeaderLine[k] = stream[at + k]
         /\ StartsWith(HeaderLine, "length") <=> at + 1 = l
         /\ StartsWith(HeaderLine, "type") <=> at + 1 = t
         /\ at + 1 < t => LineEnd(stream, at + 1) < t /\ stream[LineEnd(stream, at + 1)] = LF
         /\ at + 1 < l => LineEnd(stream, at + 1) < l
         /\ at + 1 = t => LineEnd(stream, at + 1) = e - 2
<1> DEFINE i == at + 1
           f == LineEnd(stream, i)
<1>1. /\ stream \in Seq(Symbol) /\ head \in Seq(Symbol) /\ at \in Nat /\ Len(stream) \in Nat
      /\ head = SubSeq(stream, 1, e - 1)
      /\ at \in 0 .. t - 1 /\ (at = 0 \/ stream[at] = LF)
  BY DEF ResponseTyped, ResponseTypeOK, RelayAt, InHeadAt
<1>2. e \in 4 .. Len(stream) /\ l \in 1 .. e /\ t \in 1 .. e - 2 /\ l < t
      /\ stream[e - 2] = LF /\ LineEnd(stream, t) = e - 2
  <2>1. e \in 4 .. Len(stream) /\ l \in 1 .. e /\ t \in 1 .. e - 2
    BY DEF HeaderOf
  <2>2. l < t /\ stream[e - 2] = LF /\ LineEnd(stream, t) = e - 2
    BY <1>1, HeaderLines
  <2> QED
    BY <2>1, <2>2
<1>3. Len(head) = e - 1 /\ \A k \in 1 .. e - 1 : head[k] = stream[k]
  <2> DEFINE n == e - 1
  <2>1. n \in 0 .. Len(stream) /\ 1 <= n /\ n - 1 + 1 = n /\ n \in Nat
    BY <1>1, <1>2
  <2> HIDE DEF n
  <2>2. /\ Len(SubSeq(stream, 1, n)) = IF 1 <= n THEN n - 1 + 1 ELSE 0
        /\ \A k \in 1 .. n - 1 + 1 : SubSeq(stream, 1, n)[k] = stream[1 + k - 1]
    BY <1>1, <2>1, CutShape
  <2>3. \A k \in 1 .. n : 1 + k - 1 = k
    BY <2>1
  <2>4. head = SubSeq(stream, 1, n)
    BY <1>1 DEF n
  <2>5. Len(head) = n /\ \A k \in 1 .. n : head[k] = stream[k]
    BY <2>1, <2>2, <2>3, <2>4
  <2> QED
    BY <2>5 DEF n
<1>4. i \in 1 .. t /\ i \in 1 .. e - 2 /\ i \in 1 .. Len(stream) /\ i \in 1 .. Len(head) /\ i \in 1 .. e
      /\ at < Len(head) /\ i \in 1 .. e - 1
  BY <1>1, <1>2, <1>3
<1>5. Begins(stream, i) /\ stream[i] # Blank /\ head[i] = stream[i] /\ head[i] # Blank
  <2>1. i = 1 \/ stream[i - 1] = LF
    BY <1>1
  <2>2. Begins(stream, i)
    BY <2>1 DEF Begins
  <2>3. stream[i] # Blank
    BY <1>4, <2>2 DEF HeaderOf
  <2> QED
    BY <1>3, <1>4, <2>2, <2>3
<1>6. /\ f \in i .. e - 2 /\ stream[f] = LF /\ \A j \in i .. f - 1 : stream[j] # LF
  <2>1. e - 1 \in i + 1 .. Len(stream) + 1 /\ stream[(e - 1) - 1] = LF
    BY <1>1, <1>2, <1>4
  <2>2. f \in i .. (e - 1) - 1 /\ stream[f] = LF
    BY <1>1, <1>4, <2>1, LineBefore
  <2>3. \A j \in i .. f - 1 : stream[j] # LF
    BY <1>1, <1>4, LineEndShape
  <2> QED
    BY <1>1, <1>2, <2>2, <2>3
<1> HIDE DEF f, i
<1>7. LineEnd(head, i) = f /\ EndsInside(head, i)
  <2>1. f \in i .. Len(head) /\ f \in 1 .. e - 1 /\ \A j \in i .. f - 1 : j \in 1 .. e - 1
    BY <1>2, <1>3, <1>4, <1>6
  <2>2. head[f] = LF /\ \A j \in i .. f - 1 : head[j] # LF
    BY <1>3, <1>6, <2>1
  <2>3. EndsInside(head, i)
    BY <2>1, <2>2 DEF EndsInside
  <2> QED
    BY <1>1, <1>4, <2>1, <2>2, <2>3, LineEndIs
<1>8. /\ HeaderLine \in Seq(Symbol) /\ Len(HeaderLine) = f - i + 1
      /\ \A k \in 1 .. f - i + 1 : HeaderLine[k] = head[i + k - 1]
  <2>1. HeaderLine = Line(head, i)
    BY DEF HeaderLine, i
  <2> QED
    BY <1>1, <1>4, <1>7, <2>1, LineShape
<1>9. Len(HeaderLine) \in Nat /\ at + Len(HeaderLine) = f
      /\ \A k \in 1 .. Len(HeaderLine) : HeaderLine[k] = stream[at + k]
  <2>1. i = at + 1
    BY DEF i
  <2>2. Len(HeaderLine) \in Nat /\ at + Len(HeaderLine) = f
    BY <1>1, <1>2, <1>6, <1>8, <2>1
  <2>3. \A k \in 1 .. Len(HeaderLine) : i + k - 1 = at + k /\ at + k \in 1 .. e - 1
    BY <1>1, <1>2, <1>6, <2>1, <2>2
  <2> QED
    BY <1>3, <1>8, <2>2, <2>3
<1>10. /\ StartsWith(HeaderLine, "length") <=> i = l
       /\ StartsWith(HeaderLine, "type") <=> i = t
  <2>1. HeaderLine = Line(head, i)
    BY DEF HeaderLine, i
  <2>2. /\ StartsWith(Line(head, i), "length") <=> head[i].w = "length"
        /\ StartsWith(Line(head, i), "type") <=> head[i].w \in Types
    BY <1>1, <1>4, <1>5, LineWord
  <2>3. stream[i].w = "length" <=> i = l
    BY <1>4 DEF HeaderOf
  <2>4. stream[i].w \in Types <=> i = t
    BY <1>4 DEF HeaderOf
  <2> QED
    BY <1>5, <2>1, <2>2, <2>3, <2>4
<1>11. ASSUME NEW p \in 1 .. e, Begins(stream, p), i < p, p <= Len(stream) + 1 PROVE f < p
  <2>1. p \in i + 1 .. Len(stream) + 1 /\ p # 1 /\ i \in Int
    BY <1>2, <1>4, <1>11
  <2>2. stream[p - 1] = LF
    BY <1>11, <2>1 DEF Begins
  <2>3. LineEnd(stream, i) \in i .. p - 1
    BY <1>1, <1>4, <2>1, <2>2, LineBefore
  <2> QED
    BY <1>2, <1>4, <2>1, <2>3 DEF f
<1>12. Begins(stream, l) /\ Begins(stream, t)
  BY DEF HeaderOf
<1>13. (i < t => f < t) /\ (i < l => f < l)
  <2>1. l \in 1 .. e /\ t \in 1 .. e /\ l <= Len(stream) + 1 /\ t <= Len(stream) + 1
    BY <1>1, <1>2
  <2> QED
    BY <1>11, <1>12, <2>1
<1>14. i = t => f = e - 2
  BY <1>2 DEF f
<1> QED
  BY <1>4, <1>6, <1>7, <1>8, <1>9, <1>10, <1>13, <1>14 DEF i, f

LEMMA RelayReplaceLength ==
  ASSUME ResponseTyped, NEW e, NEW l, NEW t, HeaderOf(stream, e, l, t), RelayAt(e, l, t), ReplaceLength
  PROVE  RelayAt(e, l, t)'
<1> DEFINE f == LineEnd(stream, l)
           d == Shift(stream, l)
           new == <<ContentLength(NewLength), CR, LF>>
<1>1. /\ phase = "head" /\ UNCHANGED <<readVars, head, xml, noWrite, kept, phase>>
      /\ StartsWith(HeaderLine, "length") /\ out' = out \o new /\ at' = at + Len(HeaderLine)
  BY DEF ReplaceLength, InHead, NextLine
<1>2. at + 1 = l /\ at' = f
  <2>1. /\ StartsWith(HeaderLine, "length") <=> at + 1 = l
        /\ at + Len(HeaderLine) = LineEnd(stream, at + 1)
    BY <1>1, HeadTurn
  <2>2. at + 1 = l
    BY <1>1, <2>1
  <2> QED
    BY <1>1, <2>1, <2>2
<1>3. /\ stream \in Seq(Symbol) /\ out \in Seq(Symbol) /\ kept \in Seq(Symbol) /\ at \in Nat
      /\ InHeadAt(l, t) /\ big = stream
      /\ stream[t].w = "xml" /\ head = SubSeq(stream, 1, e - 1)
      /\ xml = SubSeq(stream, e, Len(stream))
  BY <1>1 DEF ResponseTyped, ResponseTypeOK, RelayAt
<1>4. /\ l < t /\ f \in l + 2 .. t - 1 /\ stream[f] = LF /\ stream[f - 1] = CR
      /\ l \in Nat \ {0} /\ t \in Nat
  <2>1. l \in Nat \ {0} /\ t \in Nat
    BY DEF HeaderOf
  <2> QED
    BY <1>3, <2>1, HeaderLines
<1>5. d = l + 2 - f
  BY DEF Shift
<1>6. Len(kept) \in Nat /\ kept # <<>> /\ NewLength \in Nat
  BY <1>3 DEF InHeadAt, NewLength
<1>7. new \in Seq(Symbol) /\ Len(new) = 3
      /\ new[1] = ContentLength(NewLength) /\ new[2] = CR /\ new[3] = LF
  BY <1>6, Symbols
<1> HIDE DEF f, d, new
<1>8. Len(out) = l - 1 /\ \A i \in 1 .. Len(out) : out[i] = Replaced(stream, l, NewLength, i)
  <2>1. at < l
    BY <1>2, <1>3
  <2>2. HeadCopied(l)
    BY <1>3 DEF InHeadAt
  <2> QED
    BY <1>2, <1>3, <1>4, <2>1, <2>2 DEF HeadCopied
<1>9. /\ out \o new \in Seq(Symbol) /\ Len(out \o new) = (l - 1) + 3
      /\ \A i \in 1 .. (l - 1) + 3 : (out \o new)[i] = IF i <= l - 1 THEN out[i] ELSE new[i - (l - 1)]
  <2>1. /\ out \o new \in Seq(Symbol) /\ Len(out \o new) = Len(out) + Len(new)
        /\ \A i \in 1 .. Len(out) + Len(new) :
             (out \o new)[i] = IF i <= Len(out) THEN out[i] ELSE new[i - Len(out)]
    BY <1>3, <1>7, ConcatProperties
  <2> QED
    BY <1>7, <1>8, <2>1
<1>10. ASSUME NEW i \in 1 .. (l - 1) + 3
       PROVE  (out \o new)[i] = Replaced(stream, l, NewLength, i)
  <2>1. CASE i <= l - 1
    <3>1. i \in 1 .. Len(out)
      BY <1>4, <1>8, <2>1
    <3> QED
      BY <1>8, <1>9, <2>1, <3>1
  <2>2. CASE i = l
    <3>1. ~(i <= l - 1) /\ i - (l - 1) = 1
      BY <1>4, <2>2
    <3>2. (out \o new)[i] = new[1]
      BY <1>9, <3>1
    <3>3. ~(i < l)
      BY <1>4, <2>2
    <3> QED
      BY <1>7, <2>2, <3>2, <3>3 DEF Replaced
  <2>3. CASE i = l + 1
    <3>1. ~(i <= l - 1) /\ i - (l - 1) = 2 /\ ~(i < l) /\ i # l /\ i - d = f - 1
      BY <1>4, <1>5, <2>3
    <3>2. (out \o new)[i] = new[2]
      BY <1>9, <3>1
    <3>3. Replaced(stream, l, NewLength, i) = stream[i - d]
      BY <3>1 DEF Replaced, d
    <3> QED
      BY <1>4, <1>7, <3>1, <3>2, <3>3
  <2>4. CASE i = l + 2
    <3>1. ~(i <= l - 1) /\ i - (l - 1) = 3 /\ ~(i < l) /\ i # l /\ i - d = f
      BY <1>4, <1>5, <2>4
    <3>2. (out \o new)[i] = new[3]
      BY <1>9, <3>1
    <3>3. Replaced(stream, l, NewLength, i) = stream[i - d]
      BY <3>1 DEF Replaced, d
    <3> QED
      BY <1>4, <1>7, <3>1, <3>2, <3>3
  <2>5. i <= l - 1 \/ i = l \/ i = l + 1 \/ i = l + 2
    <3>1. l \in Nat
      BY <1>4
    <3> QED
      BY <3>1
  <2> QED
    BY <2>1, <2>2, <2>3, <2>4, <2>5
<1>11. HeadCopied(l)'
  <2>1. out' = out \o new /\ kept' = kept /\ stream' = stream /\ at' = f
    BY <1>1, <1>2 DEF readVars
  <2>2. NewLength' = NewLength
    BY <2>1 DEF NewLength
  <2>3. Len(out') = f + d /\ ~(f < l)
    BY <1>4, <1>5, <1>9, <2>1
  <2>4. \A i \in 1 .. Len(out') : out'[i] = Replaced(stream, l, NewLength, i)
    BY <1>9, <1>10, <2>1
  <2> QED
    BY <2>1, <2>2, <2>3, <2>4 DEF HeadCopied, d
<1>12. InHeadAt(l, t)'
  <2>1. f \in 0 .. t - 1
    BY <1>4
  <2> QED
    BY <1>1, <1>2, <1>3, <1>4, <1>11, <2>1 DEF InHeadAt, readVars
<1> QED
  BY <1>1, <1>3, <1>12 DEF RelayAt, readVars

(* What of the header is copied after a line that is not the length's.     *)
LEMMA HeadCopiedOn ==
  ASSUME ResponseTyped, NEW e, NEW l, NEW t, HeaderOf(stream, e, l, t), RelayAt(e, l, t),
         phase = "head", at + 1 # l
  PROVE  LET k == LineEnd(stream, at + 1)
             o == out \o HeaderLine
         IN  /\ o \in Seq(Symbol)
             /\ Len(o) = IF k < l THEN k ELSE k + Shift(stream, l)
             /\ \A i \in 1 .. Len(o) : o[i] = Replaced(stream, l, NewLength, i)
<1> DEFINE f == LineEnd(stream, l)
           d == Shift(stream, l)
           k == LineEnd(stream, at + 1)
<1>1. /\ stream \in Seq(Symbol) /\ out \in Seq(Symbol) /\ at \in Nat /\ InHeadAt(l, t)
  BY DEF ResponseTyped, ResponseTypeOK, RelayAt
<1>2. /\ l < t /\ f \in l + 2 .. t - 1 /\ l \in Nat \ {0} /\ t \in Nat
      /\ \A j \in l .. f - 1 : stream[j] # LF
  <2>1. l \in Nat \ {0} /\ t \in Nat
    BY DEF HeaderOf
  <2> QED
    BY <1>1, <2>1, HeaderLines
<1>3. d = l + 2 - f /\ d \in Int
  <2>1. d = l + 2 - f
    BY DEF Shift
  <2> QED
    BY <1>2, <2>1
<1>4. /\ HeaderLine \in Seq(Symbol) /\ Len(HeaderLine) \in Nat
      /\ at + Len(HeaderLine) = k
      /\ \A i \in 1 .. Len(HeaderLine) : HeaderLine[i] = stream[at + i]
      /\ at + 1 < l => k < l
  BY HeadTurn
<1> HIDE DEF f, d, k
<1>5. at < l => at + Len(HeaderLine) < l
  BY <1>1, <1>2, <1>4
<1>6. at >= l => at + d >= l
  <2> SUFFICES ASSUME at >= l PROVE at + d >= l
    OBVIOUS
  <2>1. at # 0 /\ stream[at] = LF
    BY <1>1, <1>2 DEF InHeadAt
  <2>2. at \notin l .. f - 1
    BY <1>2, <2>1
  <2> QED
    BY <1>1, <1>2, <1>3, <2>2
<1>7. Len(out) = (IF at < l THEN at ELSE at + d)
      /\ \A i \in 1 .. Len(out) : out[i] = Replaced(stream, l, NewLength, i)
  BY <1>1 DEF InHeadAt, HeadCopied, d
<1>8. d = Shift(stream, l)
  BY DEF d
<1> DEFINE line == HeaderLine
           m == at + Len(line)
<1>9. /\ out \o line \in Seq(Symbol)
      /\ Len(out \o line) = IF m < l THEN m ELSE m + d
      /\ \A i \in 1 .. Len(out \o line) : (out \o line)[i] = Replaced(stream, l, NewLength, i)
  <2> HIDE DEF line
  <2>1. /\ line \in Seq(Symbol) /\ at \in Nat /\ l \in Nat /\ d \in Int
        /\ \A i \in 1 .. Len(line) : line[i] = stream[at + i]
        /\ at < l => at + Len(line) < l
        /\ at >= l => at + d >= l
        /\ Len(out) = IF at < l THEN at ELSE at + d
    BY <1>1, <1>2, <1>3, <1>4, <1>5, <1>6, <1>7 DEF line
  <2>2. /\ out \o line \in Seq(Symbol) /\ Len(out \o line) = Len(out) + Len(line)
        /\ \A i \in 1 .. Len(out) + Len(line) :
             (out \o line)[i] = IF i <= Len(out) THEN out[i] ELSE line[i - Len(out)]
    BY <1>1, <2>1, ConcatProperties
  <2>3. Len(out) \in Nat /\ Len(line) \in Nat
    BY <1>1, <2>1
  <2>4. Len(out \o line) = IF at + Len(line) < l THEN at + Len(line) ELSE at + Len(line) + d
    <3>1. CASE at < l
      BY <2>2, <2>3, <2>1, <3>1
    <3>2. CASE ~(at < l)
      BY <2>2, <2>3, <2>1, <3>2
    <3> QED
      BY <3>1, <3>2
  <2>5. ASSUME NEW i \in 1 .. Len(out) + Len(line) PROVE (out \o line)[i] = Replaced(stream, l, NewLength, i)
    <3>1. CASE i <= Len(out)
      BY <1>7, <2>2, <2>3, <3>1
    <3>2. CASE i > Len(out)
      <4> DEFINE j == i - Len(out)
      <4>1. j \in 1 .. Len(line)
        BY <2>3, <3>2
      <4>2. (out \o line)[i] = line[j] /\ line[j] = stream[at + j]
        <5>1. (out \o line)[i] = line[j]
          BY <2>2, <2>3, <3>2
        <5> HIDE DEF j
        <5>2. line[j] = stream[at + j]
          BY <2>1, <4>1
        <5> QED
          BY <5>1, <5>2
      <4>3. CASE at < l
        <5>1. at + j = i /\ i < l
          BY <2>3, <2>1, <4>1, <4>3
        <5> QED
          BY <1>8, <4>2, <5>1 DEF Replaced
      <4>4. CASE ~(at < l)
        <5>1. at + j = i - d /\ i > l
          <6>1. Len(out) = at + d /\ at + d >= l
            BY <2>1, <4>4
          <6>2. at + j = i - d
            BY <2>3, <2>1, <4>1, <6>1
          <6>3. i > l
            BY <2>3, <2>1, <3>2, <6>1
          <6> QED
            BY <6>2, <6>3
        <5>2. ~(i < l) /\ i # l
          BY <2>1, <5>1
        <5> QED
          BY <1>8, <4>2, <5>1, <5>2 DEF Replaced
      <4> QED
        BY <4>3, <4>4
    <3> QED
      BY <2>3, <3>1, <3>2
  <2> QED
    BY <2>2, <2>4, <2>5
<1>10. m = k
  BY <1>4
<1> QED
  BY <1>9, <1>10 DEF k, d

LEMMA RelayCopyHeader ==
  ASSUME ResponseTyped, NEW e, NEW l, NEW t, HeaderOf(stream, e, l, t), RelayAt(e, l, t), CopyHeader
  PROVE  RelayAt(e, l, t)'
<1> DEFINE k == LineEnd(stream, at + 1)
<1>1. /\ phase = "head" /\ UNCHANGED <<readVars, head, xml, noWrite, kept, phase>>
      /\ ~StartsWith(HeaderLine, "length") /\ ~StartsWith(HeaderLine, "type")
      /\ out' = out \o HeaderLine /\ at' = at + Len(HeaderLine)
  BY DEF CopyHeader, InHead, NextLine
<1>2. /\ at \in Nat /\ InHeadAt(l, t) /\ big = stream
      /\ stream[t].w = "xml" /\ head = SubSeq(stream, 1, e - 1)
      /\ xml = SubSeq(stream, e, Len(stream)) /\ t \in Nat
  <2>1. t \in Nat
    BY DEF HeaderOf
  <2> QED
    BY <1>1, <2>1 DEF ResponseTyped, ResponseTypeOK, RelayAt
<1>3. at + 1 # l /\ at + 1 # t /\ at' = k /\ k >= at + 1 /\ k \in Nat
      /\ (at + 1 < t => k < t /\ stream[k] = LF)
  <2>1. /\ StartsWith(HeaderLine, "length") <=> at + 1 = l
        /\ StartsWith(HeaderLine, "type") <=> at + 1 = t
        /\ at + Len(HeaderLine) = k /\ k \in at + 1 .. e - 2
        /\ (at + 1 < t => k < t /\ stream[k] = LF)
    BY <1>1, HeadTurn
  <2> HIDE DEF k
  <2> QED
    BY <1>1, <1>2, <2>1
<1>4. at + 1 < t
  BY <1>2, <1>3 DEF InHeadAt
<1>5. /\ Len(out') = IF k < l THEN k ELSE k + Shift(stream, l)
      /\ \A i \in 1 .. Len(out') : out'[i] = Replaced(stream, l, NewLength, i)
  BY <1>1, <1>3, HeadCopiedOn
<1> HIDE DEF k
<1>6. HeadCopied(l)'
  <2>1. stream' = stream /\ kept' = kept
    BY <1>1 DEF readVars
  <2>2. NewLength' = NewLength
    BY <2>1 DEF NewLength
  <2> QED
    BY <1>3, <1>5, <2>1, <2>2 DEF HeadCopied
<1>7. InHeadAt(l, t)'
  <2>1. k \in 0 .. t - 1 /\ stream[k] = LF
    BY <1>2, <1>3, <1>4
  <2> QED
    BY <1>1, <1>2, <1>3, <1>6, <2>1 DEF InHeadAt, readVars
<1> QED
  BY <1>1, <1>2, <1>7 DEF RelayAt, readVars

LEMMA RelayCopyType ==
  ASSUME ResponseTyped, NEW e, NEW l, NEW t, HeaderOf(stream, e, l, t), RelayAt(e, l, t),
         CopyTypeAndWrite
  PROVE  RelayAt(e, l, t)'
<1> DEFINE d == Shift(stream, l)
           n == NewLength
           p == out \o HeaderLine
           q == p \o <<CR>>
           o == q \o kept
<1>1. /\ phase = "head" /\ UNCHANGED <<readVars, head, xml, noWrite, kept>>
      /\ ~StartsWith(HeaderLine, "length") /\ StartsWith(HeaderLine, "type")
      /\ out' = o /\ phase' = "written"
  BY DEF CopyTypeAndWrite, InHead
<1>2. /\ stream \in Seq(Symbol) /\ kept \in Seq(Symbol) /\ kept # <<>> /\ kept[1] = LF
      /\ stream[t].w = "xml"
  BY <1>1 DEF ResponseTyped, ResponseTypeOK, RelayAt, InHeadAt
<1>3. at + 1 # l /\ at + 1 = t /\ LineEnd(stream, at + 1) = e - 2
  <2>1. /\ StartsWith(HeaderLine, "length") <=> at + 1 = l
        /\ StartsWith(HeaderLine, "type") <=> at + 1 = t
        /\ at + 1 = t => LineEnd(stream, at + 1) = e - 2
    BY <1>1, HeadTurn
  <2> QED
    BY <1>1, <2>1
<1>4. /\ l < t /\ l \in Nat \ {0} /\ t \in Nat /\ e \in Nat /\ t <= e - 2
      /\ LineEnd(stream, l) \in l + 2 .. t - 1
      /\ stream[e - 1] = CR /\ stream[e] = LF
  <2>1. l \in Nat \ {0} /\ t \in Nat /\ e \in Nat /\ t <= e - 2
    BY DEF HeaderOf
  <2>2. l < t /\ LineEnd(stream, l) \in l + 2 .. t - 1 /\ stream[e - 1] = CR /\ stream[e] = LF
    BY <1>2, HeaderLines
  <2> QED
    BY <2>1, <2>2
<1>5. d \in Int /\ e + d - 2 >= l + 1
  <2> DEFINE f == LineEnd(stream, l)
  <2>1. d = l + 2 - f
    BY DEF Shift
  <2>2. f \in l + 2 .. t - 1
    BY <1>4
  <2> HIDE DEF f, d
  <2> QED
    BY <1>4, <2>1, <2>2
<1>6. p \in Seq(Symbol) /\ Len(p) = (e - 2) + d
      /\ \A i \in 1 .. Len(p) : p[i] = Replaced(stream, l, n, i)
  <2>1. /\ p \in Seq(Symbol)
        /\ Len(p) = IF e - 2 < l THEN e - 2 ELSE (e - 2) + d
        /\ \A i \in 1 .. Len(p) : p[i] = Replaced(stream, l, n, i)
    BY <1>1, <1>3, HeadCopiedOn
  <2>2. ~(e - 2 < l)
    BY <1>4
  <2> QED
    BY <2>1, <2>2
<1>7. n \in Nat /\ Len(kept) = n + 1
  BY <1>2 DEF NewLength
<1> HIDE DEF d, n, p
<1>8. /\ q \in Seq(Symbol) /\ Len(q) = (e - 1) + d
      /\ \A i \in 1 .. (e - 2) + d : q[i] = p[i]
      /\ q[(e - 1) + d] = CR
  <2>1. <<CR>> \in Seq(Symbol) /\ Len(<<CR>>) = 1 /\ <<CR>>[1] = CR
    BY Symbols
  <2> DEFINE c == <<CR>>
  <2> HIDE DEF c
  <2>2. c \in Seq(Symbol) /\ Len(c) = 1 /\ c[1] = CR
    BY <2>1 DEF c
  <2>3. /\ p \o c \in Seq(Symbol) /\ Len(p \o c) = Len(p) + 1
        /\ \A i \in 1 .. Len(p) + 1 : (p \o c)[i] = IF i <= Len(p) THEN p[i] ELSE c[i - Len(p)]
    <3>1. /\ p \o c \in Seq(Symbol) /\ Len(p \o c) = Len(p) + Len(c)
          /\ \A i \in 1 .. Len(p) + Len(c) :
               (p \o c)[i] = IF i <= Len(p) THEN p[i] ELSE c[i - Len(p)]
      BY <1>6, <2>2, ConcatProperties
    <3> QED
      BY <2>2, <3>1
  <2>4. Len(p) \in Nat /\ Len(p) + 1 = (e - 1) + d
    BY <1>4, <1>5, <1>6
  <2>5. \A i \in 1 .. Len(p) : (p \o c)[i] = p[i]
    BY <2>3, <2>4
  <2>6. (p \o c)[Len(p) + 1] = CR
    <3>1. Len(p) + 1 \in 1 .. Len(p) + 1 /\ ~(Len(p) + 1 <= Len(p)) /\ (Len(p) + 1) - Len(p) = 1
      BY <2>4
    <3> QED
      BY <2>2, <2>3, <3>1
  <2>7. q = p \o c
    BY DEF c
  <2> QED
    BY <1>6, <2>3, <2>4, <2>5, <2>6, <2>7
<1> HIDE DEF q
<1>9. /\ o \in Seq(Symbol) /\ Len(o) = (e + d) + n
      /\ \A i \in 1 .. (e - 1) + d : o[i] = q[i]
      /\ \A k \in 1 .. n + 1 : o[(e - 1) + d + k] = kept[k]
  <2>1. /\ q \o kept \in Seq(Symbol) /\ Len(q \o kept) = Len(q) + Len(kept)
        /\ \A i \in 1 .. Len(q) + Len(kept) :
             (q \o kept)[i] = IF i <= Len(q) THEN q[i] ELSE kept[i - Len(q)]
    BY <1>2, <1>8, ConcatProperties
  <2>2. Len(q) \in Nat /\ Len(q) + Len(kept) = (e + d) + n
    <3>1. e \in Int /\ d \in Int /\ n \in Int /\ Len(q) \in Nat
      BY <1>4, <1>5, <1>7, <1>8
    <3>2. Len(q) = (e - 1) + d /\ Len(kept) = n + 1
      BY <1>7, <1>8
    <3> QED
      BY <3>1, <3>2
  <2>3. \A i \in 1 .. Len(q) : (q \o kept)[i] = q[i]
    BY <1>7, <2>1, <2>2
  <2>4. ASSUME NEW k \in 1 .. n + 1 PROVE (q \o kept)[Len(q) + k] = kept[k]
    <3>1. Len(q) + k \in 1 .. Len(q) + Len(kept) /\ ~(Len(q) + k <= Len(q)) /\ (Len(q) + k) - Len(q) = k
      BY <1>7, <2>2
    <3> QED
      BY <2>1, <3>1
  <2> QED
    BY <1>8, <2>1, <2>2, <2>3, <2>4
<1> HIDE DEF o
<1>10. ASSUME NEW i \in 1 .. e + d PROVE o[i] = Replaced(stream, l, n, i)
  <2>1. CASE i <= (e - 2) + d
    <3>1. i \in 1 .. (e - 2) + d /\ i \in 1 .. (e - 1) + d
      BY <1>4, <1>5, <2>1
    <3> QED
      BY <1>6, <1>8, <1>9, <3>1
  <2>2. CASE i = (e - 1) + d
    <3>1. i \in 1 .. (e - 1) + d /\ ~(i < l) /\ i # l /\ i - d = e - 1
      BY <1>4, <1>5, <2>2
    <3>2. o[i] = CR
      BY <1>8, <1>9, <2>2, <3>1
    <3>3. Replaced(stream, l, n, i) = stream[i - d]
      BY <3>1 DEF Replaced, d
    <3> QED
      BY <1>4, <3>1, <3>2, <3>3
  <2>3. CASE i = e + d
    <3>1. 1 \in 1 .. n + 1 /\ (e - 1) + d + 1 = i /\ ~(i < l) /\ i # l /\ i - d = e
      BY <1>4, <1>5, <1>7, <2>3
    <3>2. o[i] = LF
      BY <1>2, <1>9, <3>1
    <3>3. Replaced(stream, l, n, i) = stream[i - d]
      BY <3>1 DEF Replaced, d
    <3> QED
      BY <1>4, <3>1, <3>2, <3>3
  <2> QED
    BY <1>4, <1>5, <2>1, <2>2, <2>3
<1>11. HeaderOf(o, e + d, l, t + d)
  <2>1. Len(o) = e + Shift(stream, l) + n
    BY <1>9 DEF d
  <2>2. \A i \in 1 .. e + Shift(stream, l) : o[i] = Replaced(stream, l, n, i)
    BY <1>10 DEF d
  <2> QED
    BY <1>2, <1>7, <1>9, <2>1, <2>2, ReplacedHeader DEF d
<1>12. \A k \in 1 .. Len(kept) - 1 : o[(e + d) + k] = kept[k + 1]
  <2> SUFFICES ASSUME NEW k \in 1 .. Len(kept) - 1 PROVE o[(e + d) + k] = kept[k + 1]
    OBVIOUS
  <2>1. k + 1 \in 1 .. n + 1 /\ (e - 1) + d + (k + 1) = (e + d) + k
    BY <1>4, <1>5, <1>7
  <2> QED
    BY <1>9, <2>1
<1>13. Len(o) = (e + d) + (Len(kept) - 1)
  BY <1>7, <1>9
<1> QED
  BY <1>1, <1>2, <1>11, <1>12, <1>13 DEF RelayAt, readVars, d

Relaying == \A e, l, t : HeaderOf(stream, e, l, t) => RelayAt(e, l, t)

(* The lines that are read of a header that fits end in their buffers.     *)
LEMMA NoOverrunBefore ==
  ASSUME ResponseTyped, HeaderInv, NEW e, NEW l, NEW t, HeaderOf(stream, e, l, t), RelayAt(e, l, t)
  PROVE  ~LengthOverrun /\ ~ParseOverrun
<1>1. /\ stream \in Seq(Symbol) /\ Len(stream) \in Nat /\ got \in 0 .. Len(stream)
      /\ e \in 4 .. Len(stream) /\ t \in 1 .. e - 2 /\ l \in 1 .. e
  BY DEF ResponseTyped, ResponseTypeOK, HeaderOf
<1>2. LineEnd(stream, t) = e - 2 /\ stream[e - 2] = LF
  BY <1>1, HeaderLines
<1>3. ASSUME ParseOverrun PROVE FALSE
  <2>1. big = stream /\ LinesOf(big, "type") # {} /\ Least(LinesOf(big, "type")) = t
    BY <1>1, <1>3, TypeFound DEF ParseOverrun, RelayAt
  <2>2. EndsInside(stream, t)
    BY <1>1, <1>2 DEF EndsInside
  <2> QED
    BY <1>3, <2>1, <2>2 DEF ParseOverrun
<1>4. ASSUME LengthOverrun PROVE FALSE
  <2> DEFINE buffer == SubSeq(stream, 1, got)
             i == Least(LinesOf(buffer, "lengthColon"))
  <2>1. got = e
    BY <1>1, <1>4, HeaderReadWhole DEF LengthOverrun
  <2>2. HasLength(buffer)
    BY <1>1, <2>1, LengthFound
  <2>3. i > 1 /\ ~EndsInside(buffer, i)
    BY <1>4, <2>2 DEF LengthOverrun
  <2>4. buffer \in Seq(Symbol) /\ Len(buffer) = e /\ buffer[e] = stream[e]
    <3>1. /\ buffer \in Seq(Symbol) /\ Len(buffer) = IF 1 <= got THEN got - 1 + 1 ELSE 0
          /\ \A k \in 1 .. got - 1 + 1 : buffer[k] = stream[1 + k - 1]
      BY <1>1, CutShape
    <3> HIDE DEF buffer
    <3>2. e \in 1 .. got - 1 + 1 /\ 1 + e - 1 = e /\ 1 <= got
      BY <1>1, <2>1
    <3> QED
      BY <1>1, <2>1, <3>1, <3>2
  <2>5. stream[e] = LF
    BY DEF HeaderOf, BlankLineEnds
  <2>6. i \in 1 .. Len(buffer)
    BY <2>2, <2>4, LinesOfShape DEF HasLength
  <2> HIDE DEF buffer, i
  <2>7. e \in i .. Len(buffer)
    BY <1>1, <2>4, <2>6
  <2>8. EndsInside(buffer, i)
    BY <2>4, <2>5, <2>7 DEF EndsInside
  <2> QED
    BY <2>3, <2>8
<1> QED
  BY <1>3, <1>4

LEMMA RelayNext ==
  ASSUME ResponseTyped, ResponseTyped', HeaderInv, [ResponseNext]_responseVars,
         NEW e, NEW l, NEW t, HeaderOf(stream, e, l, t), RelayAt(e, l, t)
  PROVE  RelayAt(e, l, t)'
<1>1. CASE ReadHeader
  BY <1>1 DEF ReadHeader, RelayAt, Untouched, xmlVars
<1>2. CASE HeaderCut
  BY <1>2 DEF HeaderCut, RelayAt, Untouched, readVars, xmlVars
<1>3. CASE ReadBody
  <2>1. big' = stream /\ phase' = "parse" /\ UNCHANGED <<stream, state, got, xmlVars, out>>
    BY <1>3, WholeRead
  <2>2. phase = "body"
    BY <1>3 DEF ReadBody
  <2> QED
    BY <2>1, <2>2 DEF RelayAt, Untouched, xmlVars
<1>4. CASE Parse
  BY <1>4, RelayParse
<1>5. CASE DropBitrate \/ KeepMediaEnd \/ KeepLine \/ EndManifest
  BY <1>5, RelayXml
<1>6. CASE ReplaceLength
  BY <1>6, RelayReplaceLength
<1>7. CASE CopyHeader
  BY <1>7, RelayCopyHeader
<1>8. CASE CopyTypeAndWrite
  BY <1>8, RelayCopyType
<1>9. CASE XmlOverrun \/ HeadOverrun
  <2>1. phase \in {"xml", "head"} /\ phase' = "lost" /\ UNCHANGED <<readVars, xmlVars, out>>
    BY <1>9 DEF XmlOverrun, HeadOverrun, Lost
  <2> QED
    BY <2>1 DEF RelayAt, readVars, xmlVars
<1>10. CASE UNCHANGED responseVars
  BY <1>10 DEF responseVars, readVars, xmlVars, RelayAt, Untouched, InXmlAt, InHeadAt,
               HeadCopied, NewLength
<1>11. CASE LengthOverrun \/ ParseOverrun
  BY <1>11, NoOverrunBefore
<1> QED
  BY <1>1, <1>2, <1>3, <1>4, <1>5, <1>6, <1>7, <1>8, <1>9, <1>10, <1>11 DEF ResponseNext, WriteF4m

LEMMA StreamStays ==
  ASSUME [ResponseNext]_responseVars
  PROVE  stream' = stream
BY DEF ResponseNext, ReadHeader, HeaderCut, ReadBody, Parse, WriteUnchanged, WriteF4m,
       DropBitrate, KeepMediaEnd, KeepLine, EndManifest, XmlOverrun, ReplaceLength,
       CopyHeader, CopyTypeAndWrite, HeadOverrun, LengthOverrun, ParseOverrun,
       InXml, InXmlOn, InHead, Lost, readVars, responseVars

LEMMA RelayingStays == ResponseSpec => []Relaying
<1>1. ResponseInit => Relaying
  BY DEF ResponseInit, Relaying, RelayAt, Untouched
<1>2. ResponseTyped /\ ResponseTyped' /\ HeaderInv /\ Relaying /\ [ResponseNext]_responseVars
      => Relaying'
  <2> SUFFICES ASSUME ResponseTyped, ResponseTyped', HeaderInv, Relaying,
                      [ResponseNext]_responseVars
               PROVE  Relaying'
    OBVIOUS
  <2>1. stream' = stream
    BY StreamStays
  <2>2. ASSUME NEW e, NEW l, NEW t, HeaderOf(stream, e, l, t) PROVE RelayAt(e, l, t)'
    <3>1. RelayAt(e, l, t)
      BY <2>2 DEF Relaying
    <3> QED
      BY <2>2, <3>1, RelayNext
  <2> QED
    BY <2>1, <2>2 DEF Relaying
<1> QED
  BY <1>1, <1>2, ResponseTypedStays, HeaderCounted, PTL DEF ResponseSpec

(* Whatever well-formed answer comes, well formed is what is written: the  *)
(* number put in place of Content-Length is counted from one symbol before *)
(* the body that is kept, and that symbol is the LF of the empty line.     *)
THEOREM WellFormedOut == ResponseSpec => []WellFormedStays
<1>1. ResponseTyped /\ Relaying => WellFormedStays
  <2> SUFFICES ASSUME ResponseTyped, Relaying, phase = "written", WellFormed(stream)
               PROVE  WellFormed(out)
    BY DEF WellFormedStays
  <2>1. stream \in Seq(Symbol) /\ out \in Seq(Symbol)
    BY DEF ResponseTyped, ResponseTypeOK
  <2>2. PICK l, t : HeaderOf(stream, HeaderEnd(stream), l, t)
    BY <2>1, WellFormedHeader
  <2>3. RelayAt(HeaderEnd(stream), l, t)
    BY <2>2 DEF Relaying
  <2>4. CASE stream[t].w = "xml"
    BY <2>1, <2>3, <2>4, HeaderWellFormed DEF RelayAt
  <2>5. CASE stream[t].w # "xml"
    BY <2>3, <2>5 DEF RelayAt
  <2> QED
    BY <2>4, <2>5
<1> QED
  BY <1>1, ResponseTypedStays, RelayingStays, PTL

-----------------------------------------------------------------------------
(* Lines of a body. A place of a line is of no other line.                 *)
LEMMA InLine ==
  ASSUME NEW b \in Seq(Symbol), NEW s \in LineStarts(b), NEW i \in s .. LineEnd(b, s)
  PROVE  StartsLine(b, i) = s
<1>1. \A r \in LineStarts(b) :
        /\ r \in 1 .. Len(b) /\ (r = 1 \/ b[r - 1] = LF)
        /\ LineEnd(b, r) \in r .. Len(b) /\ \A j \in r .. LineEnd(b, r) - 1 : b[j] # LF
  BY LineStartsShape, LineEndShape
<1> DEFINE r == StartsLine(b, i)
<1>2. s <= i /\ i <= LineEnd(b, s) /\ i \in Int
  BY <1>1
<1>3. r \in LineStarts(b) /\ r <= i /\ i <= LineEnd(b, r)
  BY <1>2 DEF StartsLine
<1> HIDE DEF r
<1>4. /\ r \in Nat /\ s \in Nat /\ r >= 1 /\ s >= 1
      /\ LineEnd(b, s) \in Int /\ LineEnd(b, r) \in Int
  BY <1>1, <1>3
<1>5. ~(r < s)
  <2> SUFFICES ASSUME r < s PROVE FALSE
    OBVIOUS
  <2>1. s # 1 /\ b[s - 1] = LF
    BY <1>1, <1>4
  <2>2. s - 1 \in r .. LineEnd(b, r) - 1
    BY <1>2, <1>3, <1>4
  <2> QED
    BY <1>1, <1>3, <2>1, <2>2
<1>6. ~(s < r)
  <2> SUFFICES ASSUME s < r PROVE FALSE
    OBVIOUS
  <2>1. r # 1 /\ b[r - 1] = LF
    BY <1>1, <1>3, <1>4
  <2>2. r - 1 \in s .. LineEnd(b, s) - 1
    BY <1>2, <1>3, <1>4
  <2> QED
    BY <1>1, <2>1, <2>2
<1>7. r = s
  BY <1>4, <1>5, <1>6
<1> QED
  BY <1>7 DEF r

(* Every place is of a line.                                               *)
LEMMA LineOf ==
  ASSUME NEW b \in Seq(Symbol), NEW i \in 1 .. Len(b)
  PROVE  \E s \in LineStarts(b) : i \in s .. LineEnd(b, s)
<1> DEFINE D == {d \in 0 .. i - 1 : i - d \in LineStarts(b)}
           s == i - Least(D)
<1>1. i \in Nat /\ i >= 1 /\ Len(b) \in Nat /\ i <= Len(b)
  OBVIOUS
<1>2. 1 \in LineStarts(b)
  BY <1>1, LineStartsShape
<1>3. i - 1 \in D
  <2>1. i - (i - 1) = 1 /\ i - 1 \in 0 .. i - 1
    BY <1>1
  <2> QED
    BY <1>2, <2>1
<1>4. D \in SUBSET Nat /\ D # {}
  <2>1. D \subseteq 0 .. i - 1 /\ 0 .. i - 1 \subseteq Nat
    BY <1>1
  <2> HIDE DEF D
  <2> QED
    BY <1>3, <2>1
<1>5. Least(D) \in D /\ \A g \in D : Least(D) <= g
  BY <1>4, LeastShape
<1>6. s \in LineStarts(b) /\ s \in 1 .. i /\ Least(D) = i - s
  BY <1>1, <1>5
<1>7. ASSUME NEW j \in s .. i - 1 PROVE b[j] # LF
  <2> SUFFICES ASSUME b[j] = LF PROVE FALSE
    OBVIOUS
  <2> DEFINE r == j + 1
  <2>1. r \in 1 .. Len(b) /\ r - 1 = j /\ r > s /\ r <= i
    BY <1>1, <1>6
  <2>2. r \in LineStarts(b)
    BY <2>1, LineStartsShape
  <2> HIDE DEF r
  <2>3. i - r \in 0 .. i - 1 /\ i - (i - r) = r
    BY <1>1, <2>1
  <2>4. i - r \in D
    BY <2>2, <2>3
  <2>5. i - s <= i - r
    BY <1>5, <1>6, <2>4
  <2> QED
    BY <1>1, <1>6, <2>1, <2>5
<1> DEFINE f == LineEnd(b, s)
<1>8. /\ f \in s .. Len(b) /\ (b[f] = LF \/ f = Len(b))
  <2> HIDE DEF s
  <2>1. s \in 1 .. Len(b)
    BY <1>1, <1>6
  <2> QED
    BY <2>1, LineEndShape
<1> HIDE DEF f, s
<1>9. f >= i
  BY <1>1, <1>6, <1>7, <1>8
<1>10. i \in s .. f
  BY <1>1, <1>6, <1>8, <1>9
<1> QED
  BY <1>6, <1>10 DEF f

(* The places of P and a stretch after them, in order.                     *)
PickedOn(b, P, Q, a, f) ==
  /\ Cardinality(P) \in Nat
  /\ Cardinality(Q) = Cardinality(P) + (f - a)
  /\ \A k \in 1 .. Cardinality(P) : Picked(b, Q)[k] = Picked(b, P)[k]
  /\ \A k \in 1 .. f - a : Picked(b, Q)[Cardinality(P) + k] = b[a + k]

LEMMA PickedMore ==
  ASSUME NEW b, NEW a \in Nat, NEW f \in Nat, a <= f, NEW P \in SUBSET (1 .. a)
  PROVE  PickedOn(b, P, P \cup (a + 1 .. f), a, f)
<1> DEFINE n == Cardinality(P)
           Q == P \cup (a + 1 .. f)
           upTo(S, i) == {j \in S : j <= i}
           rank(S, k) == {i \in S : Cardinality(upTo(S, i)) = k}
<1>1. IsFiniteSet(P) /\ n \in Nat
  <2>1. IsFiniteSet(1 .. a)
    BY FS_Interval
  <2> QED
    BY <2>1, FS_Subset, FS_CardinalityType
<1>2. ASSUME NEW i \in a .. f
      PROVE  Cardinality(P \cup (a + 1 .. i)) = n + (i - a)
  <2>1. i \in Int /\ a + 1 \in Int
    OBVIOUS
  <2>2. IsFiniteSet(a + 1 .. i) /\ Cardinality(a + 1 .. i) = IF a + 1 > i THEN 0 ELSE i - (a + 1) + 1
    BY <2>1, FS_Interval
  <2>3. P \cap (a + 1 .. i) = {}
    OBVIOUS
  <2>4. Cardinality(P \cup (a + 1 .. i)) = Cardinality(P) + Cardinality(a + 1 .. i) - Cardinality({})
    <3> DEFINE R == a + 1 .. i
    <3> HIDE DEF R
    <3>1. IsFiniteSet(R) /\ P \cap R = {}
      BY <2>2, <2>3 DEF R
    <3>2. Cardinality(P \cup R) = Cardinality(P) + Cardinality(R) - Cardinality(P \cap R)
      BY <1>1, <3>1, FS_Union
    <3> QED
      BY <3>1, <3>2 DEF R
  <2>5. Cardinality(a + 1 .. i) = i - a /\ Cardinality({}) = 0
    BY <2>1, <2>2, FS_EmptySet
  <2> HIDE DEF n
  <2> QED
    BY <1>1, <2>1, <2>4, <2>5 DEF n
<1>3. Cardinality(Q) = n + (f - a)
  <2>1. f \in a .. f
    OBVIOUS
  <2> QED
    BY <1>2, <2>1
<1>4. ASSUME NEW i \in P
      PROVE  upTo(Q, i) = upTo(P, i) /\ Cardinality(upTo(P, i)) \in 0 .. n
  <2>1. upTo(Q, i) = upTo(P, i)
    OBVIOUS
  <2>2. upTo(P, i) \in SUBSET P
    OBVIOUS
  <2>3. IsFiniteSet(upTo(P, i)) /\ Cardinality(upTo(P, i)) <= n
    BY <1>1, <2>2, FS_Subset
  <2>4. Cardinality(upTo(P, i)) \in Nat
    BY <2>3, FS_CardinalityType
  <2> HIDE DEF upTo, n
  <2> QED
    BY <1>1, <2>1, <2>3, <2>4
<1>5. ASSUME NEW i \in a + 1 .. f
      PROVE  Cardinality(upTo(Q, i)) = n + (i - a)
  <2>1. upTo(Q, i) = P \cup (a + 1 .. i)
    <3>1. \A j \in P : j <= i
      OBVIOUS
    <3>2. \A j \in a + 1 .. f : j <= i <=> j \in a + 1 .. i
      OBVIOUS
    <3>3. \A j \in a + 1 .. i : j \in a + 1 .. f
      OBVIOUS
    <3> QED
      BY <3>1, <3>2, <3>3
  <2>2. i \in a .. f
    OBVIOUS
  <2> HIDE DEF upTo, Q
  <2> QED
    BY <1>2, <2>1, <2>2
<1>6. /\ DOMAIN Picked(b, Q) = 1 .. Cardinality(Q)
      /\ \A k \in 1 .. Cardinality(Q) : Picked(b, Q)[k] = b[Least(rank(Q, k))]
      /\ \A k \in 1 .. n : Picked(b, P)[k] = b[Least(rank(P, k))]
  BY DEF Picked
<1>7. \A i \in Q : i \in P \/ i \in a + 1 .. f
  OBVIOUS
<1>8. P \subseteq Q /\ (a + 1 .. f) \subseteq Q
  OBVIOUS
<1> HIDE DEF n, Q, upTo
<1>9. ASSUME NEW k \in 1 .. n PROVE Picked(b, Q)[k] = Picked(b, P)[k]
  <2>1. k \in 1 .. Cardinality(Q)
    BY <1>1, <1>3
  <2>2. \A i \in a + 1 .. f : Cardinality(upTo(Q, i)) # k
    BY <1>1, <1>5
  <2>3. rank(Q, k) = rank(P, k)
    BY <1>4, <1>7, <1>8, <2>2
  <2> HIDE DEF rank
  <2> QED
    BY <1>6, <2>1, <2>3
<1>10. ASSUME NEW k \in 1 .. f - a PROVE Picked(b, Q)[n + k] = b[a + k]
  <2> DEFINE m == n + k
  <2>1. m \in 1 .. Cardinality(Q) /\ m > n /\ m \in Nat
    BY <1>1, <1>3
  <2>2. \A i \in P : Cardinality(upTo(Q, i)) # m
    BY <1>1, <1>4, <2>1
  <2>3. \A i \in a + 1 .. f : Cardinality(upTo(Q, i)) = m <=> i = a + k
    BY <1>1, <1>5
  <2>4. a + k \in a + 1 .. f /\ a + k \in Nat
    OBVIOUS
  <2> HIDE DEF m
  <2>5. rank(Q, m) = {a + k}
    BY <1>7, <1>8, <2>2, <2>3, <2>4
  <2>6. Least({a + k}) = a + k
    <3> DEFINE g == a + k
    <3>1. {g} \in SUBSET Nat /\ g \in {g} /\ \A h \in {g} : g <= h
      BY <2>4
    <3> HIDE DEF g
    <3>2. Least({g}) = g
      BY <3>1, LeastIs
    <3> QED
      BY <3>2 DEF g
  <2> HIDE DEF rank
  <2>7. Picked(b, Q)[m] = b[a + k]
    BY <1>6, <2>1, <2>5, <2>6
  <2> QED
    BY <2>7 DEF m
<1> QED
  BY <1>1, <1>3, <1>9, <1>10 DEF PickedOn, n, Q

(* What is kept of b of its first a symbols.                               *)
KeptUpTo(b, a) == {i \in KeptPlaces(b) : i <= a}

LEMMA NoStartWithin ==
  ASSUME NEW b \in Seq(Symbol), NEW s \in LineStarts(b), NEW m \in LineStarts(b),
         m \in s .. LineEnd(b, s)
  PROVE  m = s
<1>1. /\ s \in 1 .. Len(b) /\ m \in 1 .. Len(b) /\ (m = 1 \/ b[m - 1] = LF)
      /\ LineEnd(b, s) \in s .. Len(b) /\ \A j \in s .. LineEnd(b, s) - 1 : b[j] # LF
  BY LineStartsShape, LineEndShape
<1>2. CASE m > s
  <2>1. m # 1 /\ m - 1 \in s .. LineEnd(b, s) - 1
    BY <1>1, <1>2
  <2> QED
    BY <1>1, <2>1
<1> QED
  BY <1>1, <1>2

(* A line is kept as a whole or not at all.                                *)
LEMMA KeptLine ==
  ASSUME NEW b \in Seq(Symbol), NEW s \in LineStarts(b)
  PROVE  /\ KeptUpTo(b, s - 1) \in SUBSET (1 .. s - 1)
         /\ KeptUpTo(b, LineEnd(b, s)) =
              IF KeepsLine(b, s) THEN KeptUpTo(b, s - 1) \cup (s .. LineEnd(b, s))
              ELSE KeptUpTo(b, s - 1)
<1> DEFINE f == LineEnd(b, s)
<1>1. s \in 1 .. Len(b) /\ Len(b) \in Nat /\ f \in s .. Len(b)
  BY LineStartsShape, LineEndShape
<1>2. \A i \in s .. f : StartsLine(b, i) = s
  BY InLine
<1> HIDE DEF f
<1>3. \A i \in s .. f : i \in KeptPlaces(b) <=> KeepsLine(b, s)
  <2>1. \A i \in s .. f : i \in 1 .. Len(b)
    BY <1>1
  <2> QED
    BY <1>2, <2>1 DEF KeptPlaces
<1>4. \A i \in KeptPlaces(b) : i \in 1 .. Len(b) /\ i \in Int
  BY <1>1 DEF KeptPlaces
<1>5. \A i \in Int : i <= f <=> i <= s - 1 \/ i \in s .. f
  BY <1>1
<1>6. KeptUpTo(b, s - 1) \in SUBSET (1 .. s - 1)
  BY <1>1, <1>4 DEF KeptUpTo
<1>7. \A i \in s .. f : i \in Int
  OBVIOUS
<1>8. KeptUpTo(b, f) = IF KeepsLine(b, s) THEN KeptUpTo(b, s - 1) \cup (s .. f)
                       ELSE KeptUpTo(b, s - 1)
  <2>1. CASE KeepsLine(b, s)
    BY <1>3, <1>4, <1>5, <1>7, <2>1 DEF KeptUpTo
  <2>2. CASE ~KeepsLine(b, s)
    BY <1>3, <1>4, <1>5, <1>7, <2>2 DEF KeptUpTo
  <2> QED
    BY <2>1, <2>2
<1> QED
  BY <1>6, <1>8 DEF f

(* Nothing is kept from the end of the manifest on.                        *)
LEMMA KeptBefore ==
  ASSUME NEW b \in Seq(Symbol), NEW s \in StartsOf(b, "manifestEnd")
  PROVE  KeptPlaces(b) = KeptUpTo(b, s - 1)
<1>1. s \in LineStarts(b) /\ s \in 1 .. Len(b) /\ Len(b) \in Nat
  BY LineStartsShape DEF StartsOf
<1>2. ASSUME NEW i \in KeptPlaces(b) PROVE i <= s - 1
  <2>1. i \in 1 .. Len(b) /\ KeepsLine(b, StartsLine(b, i))
    BY DEF KeptPlaces
  <2>2. PICK r \in LineStarts(b) : i \in r .. LineEnd(b, r)
    BY <2>1, LineOf
  <2>3. StartsLine(b, i) = r
    BY <2>2, InLine
  <2>4. r < s
    BY <2>1, <2>3 DEF KeepsLine
  <2>5. r \in 1 .. Len(b) /\ LineEnd(b, r) \in r .. Len(b)
    BY LineStartsShape, LineEndShape
  <2>6. s \notin r .. LineEnd(b, r)
    BY <1>1, <2>4, <2>5, NoStartWithin
  <2> QED
    BY <1>1, <2>2, <2>4, <2>5, <2>6
<1> QED
  BY <1>2 DEF KeptUpTo

(* The body of a well-formed answer, and what it is.                       *)
LEMMA BodyShape ==
  ASSUME NEW b \in Seq(Symbol), NEW e, NEW l, NEW t, HeaderOf(b, e, l, t)
  PROVE  /\ Body(b) \in Seq(Symbol) /\ Len(Body(b)) = Len(b) - e
         /\ \A k \in 1 .. Len(b) - e : Body(b)[k] = b[e + k]
         /\ IsXml(b) <=> b[t].w = "xml"
<1>1. e \in 4 .. Len(b) /\ t \in 1 .. e - 2 /\ Len(b) \in Nat
      /\ \A i \in 1 .. e : b[i].w \in Types <=> i = t
  BY DEF HeaderOf
<1>2. HeaderEnd(b) = e
  BY HeaderWellFormed
<1>3. IsXml(b) <=> b[t].w = "xml"
  <2>1. t \in 1 .. e
    BY <1>1
  <2>2. \A i \in 1 .. e : b[i].w = "xml" => i = t
    BY <1>1 DEF Types
  <2> QED
    BY <1>2, <2>1, <2>2 DEF IsXml
<1> DEFINE n == Len(b)
           m == e + 1
           c == SubSeq(b, m, n)
<1>4. m \in Nat \ {0} /\ n \in 0 .. Len(b) /\ m = e + 1 /\ n \in Nat
  BY <1>1
<1> HIDE DEF m, n
<1>5. /\ c \in Seq(Symbol) /\ Len(c) = IF m <= n THEN n - m + 1 ELSE 0
      /\ \A k \in 1 .. n - m + 1 : c[k] = b[m + k - 1]
  BY <1>4, CutShape
<1>6. n - m + 1 = n - e /\ (m <= n \/ n - e = 0) /\ \A k \in 1 .. n - e : m + k - 1 = e + k
  BY <1>1, <1>4 DEF n
<1>7. /\ c \in Seq(Symbol) /\ Len(c) = n - e
      /\ \A k \in 1 .. n - e : c[k] = b[e + k]
  <2> HIDE DEF c
  <2> QED
    BY <1>4, <1>5, <1>6
<1>8. Body(b) = c
  BY <1>2 DEF Body, m, n
<1> QED
  BY <1>3, <1>7, <1>8 DEF n

(* A line of the XML is the line of the body one place before.             *)
LEMMA XmlLineOfBody ==
  ASSUME ResponseTyped, NEW e, NEW l, NEW t, HeaderOf(stream, e, l, t), RelayAt(e, l, t),
         phase = "xml", at < Len(xml), at > 0
  PROVE  LET c == Body(stream) IN
         /\ c \in Seq(Symbol) /\ at \in LineStarts(c)
         /\ XmlLine = Line(c, at)
         /\ LineEnd(xml, at + 1) = LineEnd(c, at) + 1
<1> DEFINE c == Body(stream)
           f == LineEnd(xml, at + 1)
<1>1. /\ stream \in Seq(Symbol) /\ xml \in Seq(Symbol) /\ at \in Nat /\ Len(xml) \in Nat
      /\ f \in at + 1 .. Len(xml) /\ (f = Len(xml) \/ xml[f] = LF)
      /\ \A j \in at + 1 .. f - 1 : xml[j] # LF
      /\ xml = SubSeq(stream, e, Len(stream)) /\ xml[at] = LF
  <2>1. stream \in Seq(Symbol) /\ xml = SubSeq(stream, e, Len(stream)) /\ InXmlAt
    BY DEF ResponseTyped, ResponseTypeOK, RelayAt
  <2>2. /\ xml \in Seq(Symbol) /\ at \in Nat /\ Len(xml) \in Nat
        /\ f \in at + 1 .. Len(xml) /\ (f = Len(xml) \/ xml[f] = LF)
        /\ \A j \in at + 1 .. f - 1 : xml[j] # LF
    BY XmlTurn
  <2>3. xml[at] = LF
    BY <2>1, <2>2 DEF InXmlAt
  <2> QED
    BY <2>1, <2>2, <2>3
<1>2. /\ c \in Seq(Symbol) /\ Len(c) = Len(stream) - e
      /\ \A k \in 1 .. Len(stream) - e : c[k] = stream[e + k]
  <2>1. stream \in Seq(Symbol)
    BY <1>1
  <2> QED
    BY <2>1, BodyShape
<1>3. /\ Len(xml) = Len(stream) - e + 1
      /\ \A k \in 1 .. Len(stream) - e + 1 : xml[k] = stream[e + k - 1]
  <2>1. stream \in Seq(Symbol) /\ xml = SubSeq(stream, e, Len(stream))
    BY <1>1
  <2> QED
    BY <2>1, XmlShape
<1>4. e \in Nat /\ Len(stream) \in Nat /\ Len(c) \in Nat
  <2>1. e \in Nat
    BY DEF HeaderOf
  <2> QED
    BY <1>1, <1>2, <2>1
<1> HIDE DEF c, f
<1>5. Len(xml) = Len(c) + 1 /\ \A k \in 1 .. Len(c) : xml[k + 1] = c[k]
  <2>1. Len(xml) = Len(c) + 1
    BY <1>2, <1>3, <1>4
  <2>2. ASSUME NEW k \in 1 .. Len(c) PROVE xml[k + 1] = c[k]
    <3> DEFINE j == k + 1
    <3>1. j \in 1 .. Len(stream) - e + 1 /\ e + j - 1 = e + k /\ k \in 1 .. Len(stream) - e
      BY <1>2, <1>4
    <3> HIDE DEF j
    <3>2. xml[j] = c[k]
      BY <1>2, <1>3, <3>1
    <3> QED
      BY <3>2 DEF j
  <2> QED
    BY <2>1, <2>2
<1>6. at \in 1 .. Len(c)
  BY <1>1, <1>4, <1>5
<1>7. at \in LineStarts(c)
  <2>1. at = 1 \/ c[at - 1] = LF
    <3>1. CASE at # 1
      <4>1. at - 1 \in 1 .. Len(c) /\ (at - 1) + 1 = at
        BY <1>4, <1>6, <3>1
      <4> QED
        BY <1>1, <1>5, <4>1
    <3> QED
      BY <3>1
  <2> QED
    BY <1>2, <1>6, <2>1, LineStartsShape
<1>8. LineEnd(c, at) = f - 1
  <2>1. f - 1 \in at .. Len(c) /\ (f - 1) + 1 = f /\ f - 1 \in 1 .. Len(c)
    BY <1>1, <1>4, <1>5, <1>6
  <2>2. c[f - 1] = LF \/ f - 1 = Len(c)
    <3>1. CASE xml[f] = LF
      <4>1. xml[(f - 1) + 1] = c[f - 1]
        BY <1>5, <2>1
      <4> QED
        BY <2>1, <3>1, <4>1
    <3>2. CASE f = Len(xml)
      BY <1>4, <1>5, <3>2
    <3> QED
      BY <1>1, <3>1, <3>2
  <2>3. ASSUME NEW j \in at .. (f - 1) - 1 PROVE c[j] # LF
    <3>1. j \in 1 .. Len(c) /\ j + 1 \in at + 1 .. f - 1
      BY <1>1, <1>6, <2>1
    <3> QED
      BY <1>1, <1>5, <3>1
  <2> QED
    BY <1>2, <1>6, <2>1, <2>2, <2>3, LineEndIs
<1>9. XmlLine = Line(c, at)
  <2>1. /\ Line(c, at) \in Seq(Symbol) /\ Len(Line(c, at)) = (f - 1) - at + 1
        /\ \A k \in 1 .. (f - 1) - at + 1 : Line(c, at)[k] = c[at + k - 1]
    BY <1>2, <1>6, <1>8, LineShape
  <2>2. /\ XmlLine \in Seq(Symbol) /\ at + Len(XmlLine) = f /\ Len(XmlLine) \in Nat
        /\ \A k \in 1 .. Len(XmlLine) : XmlLine[k] = xml[at + k]
    BY XmlTurn DEF f
  <2>3. Len(XmlLine) = Len(Line(c, at))
    BY <1>1, <2>1, <2>2
  <2>4. ASSUME NEW k \in 1 .. Len(XmlLine) PROVE XmlLine[k] = Line(c, at)[k]
    <3> DEFINE j == at + k - 1
    <3>1. j \in 1 .. Len(c) /\ j + 1 = at + k /\ k \in 1 .. (f - 1) - at + 1
      BY <1>1, <1>5, <1>4, <2>2
    <3>2. xml[j + 1] = c[j]
      BY <1>5, <3>1
    <3> HIDE DEF j
    <3>3. Line(c, at)[k] = c[j]
      BY <2>1, <3>1 DEF j
    <3> QED
      BY <2>2, <3>1, <3>2, <3>3
  <2> QED
    BY <2>1, <2>2, <2>3, <2>4, SeqEqual
<1>10. f = LineEnd(c, at) + 1
  BY <1>1, <1>8
<1> QED
  BY <1>2, <1>7, <1>9, <1>10 DEF c, f

-----------------------------------------------------------------------------
(* A complete manifest: how far the list of bitrates and media is.         *)
KeptIs(q, c, P) ==
  /\ Len(q) >= Cardinality(P) + 1
  /\ \A k \in 1 .. Cardinality(P) : q[k + 1] = Picked(c, P)[k]

ListedAt(c) ==
  /\ noWrite <=> \E m \in StartsOf(c, "mediaEnd") : m < at
  /\ \A m \in StartsOf(c, "manifestEnd") : m >= at
  /\ at > 0 =>
       /\ Len(kept) = Cardinality(KeptUpTo(c, at - 1)) + 1
       /\ KeptIs(kept, c, KeptUpTo(c, at - 1))

ListedWhole(c) ==
  /\ Len(kept) = Cardinality(KeptPlaces(c)) + 2
  /\ KeptIs(kept, c, KeptPlaces(c))
  /\ kept[Len(kept)] = Sym("manifestEnd")

CompleteAt(c) ==
  /\ phase = "xml" => ListedAt(c)
  /\ phase \in {"head", "written"} => ListedWhole(c)

(* The line looked at, of a body without far indented lines.               *)
LEMMA BodyTurn ==
  ASSUME ResponseTyped, NEW e, NEW l, NEW t, HeaderOf(stream, e, l, t), RelayAt(e, l, t),
         NEW c, c = Body(stream), Shallow(c), ListedAt(c),
         phase = "xml", at < Len(xml), at > 0
  PROVE  LET f == LineEnd(c, at)
         IN  /\ c \in Seq(Symbol) /\ at \in LineStarts(c) /\ at \in 1 .. Len(c)
             /\ f \in at .. Len(c) /\ Len(c) \in Nat
             /\ at + Len(XmlLine) = f + 1
             /\ Len(XmlLine) = f - at + 1
             /\ \A k \in 1 .. Len(XmlLine) : XmlLine[k] = c[(at - 1) + k]
             /\ \A w \in {"bitrate", "mediaEnd", "manifestEnd"} :
                  StartsWith(XmlLine, w) <=> at \in StartsOf(c, w)
             /\ KeepsLine(c, at) <=>
                  at \notin StartsOf(c, "bitrate") /\ at \notin StartsOf(c, "manifestEnd") /\ ~noWrite
             /\ at \notin StartsOf(c, "manifestEnd") =>
                  \A m \in StartsOf(c, "manifestEnd") : m >= f + 1
             /\ (\E m \in StartsOf(c, "mediaEnd") : m < f + 1) <=>
                  noWrite \/ at \in StartsOf(c, "mediaEnd")
<1> DEFINE f == LineEnd(c, at)
<1>1. /\ c \in Seq(Symbol) /\ at \in LineStarts(c)
      /\ XmlLine = Line(c, at)
      /\ LineEnd(xml, at + 1) = f + 1
  BY XmlLineOfBody
<1>2. /\ at \in 1 .. Len(c) /\ Len(c) \in Nat /\ f \in at .. Len(c)
  BY <1>1, LineStartsShape, LineEndShape
<1>3. at + Len(XmlLine) = f + 1
  BY <1>1, XmlTurn
<1>4. /\ XmlLine \in Seq(Symbol) /\ Len(XmlLine) = f - at + 1
      /\ \A k \in 1 .. f - at + 1 : Line(c, at)[k] = c[at + k - 1]
  BY <1>1, <1>2, LineShape
<1>5. Indent(Line(c, at)) <= 3
  BY <1>1 DEF Shallow
<1>6. ListedAt(c)
  OBVIOUS
<1> HIDE DEF f
<1>7. \A k \in 1 .. Len(XmlLine) : XmlLine[k] = c[(at - 1) + k]
  <2>1. \A k \in 1 .. Len(XmlLine) : at + k - 1 = (at - 1) + k /\ k \in 1 .. f - at + 1
    BY <1>2, <1>4
  <2> QED
    BY <1>1, <1>4, <2>1
<1>8. \A w \in {"bitrate", "mediaEnd", "manifestEnd"} :
        StartsWith(XmlLine, w) <=> at \in StartsOf(c, w)
  <2>1. /\ StartsWith(XmlLine, "bitrate") <=> FirstWord(XmlLine) = "bitrate"
        /\ StartsWith(XmlLine, "mediaEnd") <=> FirstWord(XmlLine) = "mediaEnd"
        /\ StartsWith(XmlLine, "manifestEnd") <=> FirstWord(XmlLine) = "manifestEnd"
    BY <1>1, <1>4, <1>5, KeysFound
  <2> QED
    BY <1>1, <2>1 DEF StartsOf
<1>9. \A w : \A m \in StartsOf(c, w) : m \in LineStarts(c) /\ m \in 1 .. Len(c) /\ m \in Int
  <2>1. \A w : \A m \in StartsOf(c, w) : m \in LineStarts(c)
    BY DEF StartsOf
  <2>2. \A m \in LineStarts(c) : m \in 1 .. Len(c)
    BY <1>1, LineStartsShape
  <2>3. \A m \in 1 .. Len(c) : m \in Int
    BY <1>2
  <2> QED
    BY <2>1, <2>2, <2>3
<1>10. \A m \in LineStarts(c) : m \in at .. f => m = at
  BY <1>1, NoStartWithin DEF f
<1>11. ASSUME NEW w, NEW m \in StartsOf(c, w), at \notin StartsOf(c, w)
       PROVE  m < f + 1 <=> m < at
  <2>1. m \in LineStarts(c) /\ m \in Int /\ m # at
    BY <1>9, <1>11
  <2>2. m \notin at .. f
    BY <1>10, <2>1
  <2> QED
    BY <1>2, <2>1, <2>2
<1>12. KeepsLine(c, at) <=>
         at \notin StartsOf(c, "bitrate") /\ at \notin StartsOf(c, "manifestEnd") /\ ~noWrite
  <2>1. ~noWrite <=> \A m \in StartsOf(c, "mediaEnd") : at <= m
    BY <1>2, <1>6, <1>9 DEF ListedAt
  <2>2. at \notin StartsOf(c, "manifestEnd") <=> \A m \in StartsOf(c, "manifestEnd") : at < m
    BY <1>2, <1>6, <1>9 DEF ListedAt
  <2> QED
    BY <2>1, <2>2 DEF KeepsLine
<1>13. ASSUME at \notin StartsOf(c, "manifestEnd"), NEW m \in StartsOf(c, "manifestEnd")
       PROVE  m >= f + 1
  <2>1. ~(m < at) /\ m \in Int
    BY <1>2, <1>6, <1>9 DEF ListedAt
  <2>2. ~(m < f + 1)
    BY <1>11, <1>13, <2>1
  <2> QED
    BY <1>2, <2>1, <2>2
<1>14. (\E m \in StartsOf(c, "mediaEnd") : m < f + 1) <=>
         noWrite \/ at \in StartsOf(c, "mediaEnd")
  <2>1. CASE at \in StartsOf(c, "mediaEnd")
    <3>1. at < f + 1
      BY <1>2
    <3> QED
      BY <2>1, <3>1
  <2>2. CASE at \notin StartsOf(c, "mediaEnd")
    <3>1. \A m \in StartsOf(c, "mediaEnd") : m < f + 1 <=> m < at
      BY <1>11, <2>2
    <3>2. noWrite <=> \E m \in StartsOf(c, "mediaEnd") : m < at
      BY <1>6 DEF ListedAt
    <3> QED
      BY <2>2, <3>1, <3>2
  <2> QED
    BY <2>1, <2>2
<1> QED
  BY <1>1, <1>2, <1>3, <1>4, <1>7, <1>8, <1>12, <1>13, <1>14 DEF f

(* A line more that is kept.                                               *)
LEMMA KeptMore ==
  ASSUME NEW c \in Seq(Symbol), NEW s \in LineStarts(c), NEW line \in Seq(Symbol),
         KeepsLine(c, s), kept \in Seq(Symbol), kept' = kept \o line,
         Len(line) = LineEnd(c, s) - s + 1,
         \A k \in 1 .. Len(line) : line[k] = c[(s - 1) + k],
         Len(kept) = Cardinality(KeptUpTo(c, s - 1)) + 1,
         KeptIs(kept, c, KeptUpTo(c, s - 1))
  PROVE  /\ Len(kept') = Cardinality(KeptUpTo(c, LineEnd(c, s))) + 1
         /\ KeptIs(kept', c, KeptUpTo(c, LineEnd(c, s)))
<1> DEFINE a == s - 1
           f == LineEnd(c, s)
           P == KeptUpTo(c, a)
           Q == KeptUpTo(c, f)
           n == Cardinality(P)
<1>1. s \in 1 .. Len(c) /\ Len(c) \in Nat /\ f \in s .. Len(c)
  BY LineStartsShape, LineEndShape
<1>2. P \in SUBSET (1 .. a) /\ Q = P \cup (s .. f)
  BY KeptLine
<1> HIDE DEF P, Q, f
<1>3. a \in Nat /\ f \in Nat /\ a <= f /\ a + 1 = s
  BY <1>1
<1>4. /\ n \in Nat /\ Cardinality(Q) = n + (f - a)
      /\ \A k \in 1 .. n : Picked(c, Q)[k] = Picked(c, P)[k]
      /\ \A k \in 1 .. f - a : Picked(c, Q)[n + k] = c[a + k]
  <2>1. Q = P \cup (a + 1 .. f)
    BY <1>2, <1>3
  <2> HIDE DEF a
  <2>2. PickedOn(c, P, Q, a, f)
    <3>1. PickedOn(c, P, P \cup (a + 1 .. f), a, f)
      BY <1>2, <1>3, PickedMore
    <3> QED
      BY <2>1, <3>1
  <2> QED
    BY <2>2 DEF PickedOn
<1>5. /\ Len(kept') = Len(kept) + Len(line)
      /\ \A i \in 1 .. Len(kept) + Len(line) :
           kept'[i] = IF i <= Len(kept) THEN kept[i] ELSE line[i - Len(kept)]
  BY ConcatProperties
<1>6. Len(kept) = n + 1 /\ Len(line) = f - a
      /\ \A k \in 1 .. n : kept[k + 1] = Picked(c, P)[k]
  <2>1. Len(kept) = n + 1 /\ \A k \in 1 .. n : kept[k + 1] = Picked(c, P)[k]
    BY DEF KeptIs, P
  <2>2. Len(line) = f - a
    BY <1>1 DEF f
  <2> QED
    BY <2>1, <2>2
<1>7. \A k \in 1 .. Len(line) : line[k] = c[a + k]
  OBVIOUS
<1> HIDE DEF n, a
<1>8. Len(kept') = Cardinality(Q) + 1
  BY <1>3, <1>4, <1>5, <1>6
<1>9. ASSUME NEW k \in 1 .. Cardinality(Q) PROVE kept'[k + 1] = Picked(c, Q)[k]
  <2> DEFINE i == k + 1
  <2>1. i \in 1 .. Len(kept) + Len(line)
    BY <1>3, <1>4, <1>6
  <2>2. CASE k <= n
    <3>1. i <= Len(kept) /\ k \in 1 .. n
      BY <1>3, <1>4, <1>6, <2>2
    <3> HIDE DEF i
    <3>2. kept'[i] = kept[i]
      BY <1>5, <2>1, <3>1
    <3> QED
      BY <1>4, <1>6, <3>1, <3>2 DEF i
  <2>3. CASE k > n
    <3> DEFINE j == k - n
    <3>1. ~(i <= Len(kept)) /\ i - Len(kept) = j /\ j \in 1 .. f - a /\ n + j = k
      BY <1>3, <1>4, <1>6, <2>3
    <3> HIDE DEF i, j
    <3>2. kept'[i] = line[j]
      BY <1>5, <2>1, <3>1
    <3>3. line[j] = c[a + j] /\ Picked(c, Q)[n + j] = c[a + j]
      BY <1>4, <1>6, <1>7, <3>1
    <3> QED
      BY <3>1, <3>2, <3>3 DEF i
  <2>4. k <= n \/ k > n
    <3>1. k \in Int /\ n \in Int
      BY <1>3, <1>4
    <3> QED
      BY <3>1
  <2> QED
    BY <2>2, <2>3, <2>4
<1>10. KeptIs(kept', c, Q)
  <2>1. Len(kept') >= Cardinality(Q) + 1
    BY <1>3, <1>4, <1>8
  <2> QED
    BY <1>9, <2>1 DEF KeptIs
<1> QED
  BY <1>8, <1>10 DEF Q, f

(* The first turn of the loop keeps the LF of the empty line.              *)
LEMMA ListedFirst ==
  ASSUME ResponseTyped, NEW e, NEW l, NEW t, HeaderOf(stream, e, l, t), RelayAt(e, l, t),
         NEW c \in Seq(Symbol), at = 0,
         DropBitrate \/ KeepMediaEnd \/ KeepLine \/ EndManifest
  PROVE  CompleteAt(c)'
<1>1. /\ phase = "xml" /\ at < Len(xml)
  BY DEF DropBitrate, KeepMediaEnd, KeepLine, EndManifest, InXml, InXmlOn, InXmlOn
<1>2. /\ XmlLine = <<LF>>
      /\ \A key \in {"bitrate", "mediaEnd", "manifestEnd"} : ~StartsWith(XmlLine, key)
  BY <1>1, XmlTurn
<1>3. kept = <<>> /\ ~noWrite
  BY <1>1 DEF RelayAt, InXmlAt
<1>4. KeepLine
  BY <1>2 DEF DropBitrate, KeepMediaEnd, EndManifest
<1>5. kept' = <<>> \o <<LF>> /\ at' = 1 /\ noWrite' = noWrite /\ phase' = "xml"
  BY <1>1, <1>2, <1>3, <1>4 DEF KeepLine, Keep, NextLine
<1>6. kept' = <<LF>> /\ Len(kept') = 1
  BY <1>5
<1>7. \A w : \A m \in StartsOf(c, w) : m \in Nat /\ m >= 1
  BY LineStartsShape DEF StartsOf
<1>8. KeptUpTo(c, at' - 1) = {} /\ Cardinality({}) = 0
  <2>1. \A i \in KeptPlaces(c) : ~(i <= 0)
    BY DEF KeptPlaces
  <2>2. at' - 1 = 0
    BY <1>5
  <2> QED
    BY <2>1, <2>2, FS_EmptySet DEF KeptUpTo
<1>9. KeptIs(kept', c, {})
  BY <1>6, <1>8 DEF KeptIs
<1>10. noWrite' <=> \E m \in StartsOf(c, "mediaEnd") : m < at'
  <2>1. ~noWrite'
    BY <1>3, <1>5
  <2>2. \A m \in StartsOf(c, "mediaEnd") : ~(m < at')
    BY <1>5, <1>7
  <2> QED
    BY <2>1, <2>2
<1>11. ListedAt(c)'
  <2>1. \A m \in StartsOf(c, "manifestEnd") : m >= at'
    BY <1>5, <1>7
  <2>2. /\ Len(kept') = Cardinality(KeptUpTo(c, at' - 1)) + 1
        /\ KeptIs(kept', c, KeptUpTo(c, at' - 1))
    <3>1. Len(kept') = Cardinality({}) + 1
      BY <1>6, <1>8
    <3> QED
      BY <1>8, <1>9, <3>1
  <2> QED
    BY <1>10, <2>1, <2>2 DEF ListedAt
<1> QED
  BY <1>5, <1>11 DEF CompleteAt

LEMMA ListedNext ==
  ASSUME ResponseTyped, NEW e, NEW l, NEW t, HeaderOf(stream, e, l, t), RelayAt(e, l, t),
         NEW c, c = Body(stream), Shallow(c), ListedAt(c), at # 0,
         DropBitrate \/ KeepMediaEnd \/ KeepLine \/ EndManifest
  PROVE  CompleteAt(c)'
<1> DEFINE f == LineEnd(c, at)
           line == XmlLine
<1>1. /\ phase = "xml" /\ at < Len(xml) /\ kept \in Seq(Symbol) /\ at \in Nat /\ at > 0
  BY DEF DropBitrate, KeepMediaEnd, KeepLine, EndManifest, InXml, InXmlOn, ResponseTyped, ResponseTypeOK
<1>2. line \in Seq(Symbol)
  BY <1>1, XmlTurn
<1>3. /\ c \in Seq(Symbol) /\ at \in LineStarts(c) /\ at \in 1 .. Len(c)
      /\ f \in at .. Len(c) /\ Len(c) \in Nat
      /\ at + Len(line) = f + 1
      /\ Len(line) = f - at + 1
      /\ \A k \in 1 .. Len(line) : line[k] = c[(at - 1) + k]
      /\ \A w \in {"bitrate", "mediaEnd", "manifestEnd"} :
           StartsWith(line, w) <=> at \in StartsOf(c, w)
      /\ KeepsLine(c, at) <=>
           at \notin StartsOf(c, "bitrate") /\ at \notin StartsOf(c, "manifestEnd") /\ ~noWrite
      /\ at \notin StartsOf(c, "manifestEnd") =>
           \A m \in StartsOf(c, "manifestEnd") : m >= f + 1
      /\ (\E m \in StartsOf(c, "mediaEnd") : m < f + 1) <=>
           noWrite \/ at \in StartsOf(c, "mediaEnd")
  BY <1>1, BodyTurn
<1>4. /\ Len(kept) = Cardinality(KeptUpTo(c, at - 1)) + 1
      /\ KeptIs(kept, c, KeptUpTo(c, at - 1))
  BY <1>1 DEF ListedAt
<1>5. KeptUpTo(c, f) =
        IF KeepsLine(c, at) THEN KeptUpTo(c, at - 1) \cup (at .. f) ELSE KeptUpTo(c, at - 1)
  BY <1>3, KeptLine
<1>6. ASSUME KeepsLine(c, at), kept' = kept \o line
      PROVE  Len(kept') = Cardinality(KeptUpTo(c, f)) + 1 /\ KeptIs(kept', c, KeptUpTo(c, f))
  BY <1>1, <1>2, <1>3, <1>4, <1>6, KeptMore
<1>7. ASSUME ~KeepsLine(c, at), kept' = kept
      PROVE  Len(kept') = Cardinality(KeptUpTo(c, f)) + 1 /\ KeptIs(kept', c, KeptUpTo(c, f))
  BY <1>4, <1>5, <1>7
<1> HIDE DEF f, line
<1>8. ASSUME at' = f + 1, phase' = "xml", at \notin StartsOf(c, "manifestEnd"),
             noWrite' <=> noWrite \/ at \in StartsOf(c, "mediaEnd"),
             Len(kept') = Cardinality(KeptUpTo(c, f)) + 1, KeptIs(kept', c, KeptUpTo(c, f))
      PROVE  CompleteAt(c)'
  <2>1. at' - 1 = f
    BY <1>3, <1>8
  <2>2. ListedAt(c)'
    BY <1>3, <1>8, <2>1 DEF ListedAt
  <2> QED
    BY <1>8, <2>2 DEF CompleteAt
<1>9. CASE DropBitrate
  <2>1. /\ at' = at + Len(line) /\ phase' = "xml" /\ noWrite' = noWrite /\ kept' = kept
        /\ at \in StartsOf(c, "bitrate")
    BY <1>1, <1>3, <1>9 DEF DropBitrate, NextLine, line
  <2>2. FirstWord(Line(c, at)) = "bitrate"
    BY <2>1 DEF StartsOf
  <2>3. at \notin StartsOf(c, "manifestEnd") /\ at \notin StartsOf(c, "mediaEnd")
    BY <2>2 DEF StartsOf
  <2> QED
    BY <1>3, <1>7, <1>8, <2>1, <2>3
<1>10. CASE KeepMediaEnd
  <2>1. /\ at' = at + Len(line) /\ phase' = "xml" /\ noWrite' = TRUE
        /\ kept' = (IF noWrite THEN kept ELSE kept \o line)
        /\ at \in StartsOf(c, "mediaEnd") /\ at \notin StartsOf(c, "bitrate")
    BY <1>1, <1>3, <1>10 DEF KeepMediaEnd, NextLine, Keep, line
  <2>2. FirstWord(Line(c, at)) = "mediaEnd"
    BY <2>1 DEF StartsOf
  <2>3. at \notin StartsOf(c, "manifestEnd")
    BY <2>2 DEF StartsOf
  <2>4. Len(kept') = Cardinality(KeptUpTo(c, f)) + 1 /\ KeptIs(kept', c, KeptUpTo(c, f))
    BY <1>3, <1>6, <1>7, <2>1, <2>3
  <2> QED
    BY <1>3, <1>8, <2>1, <2>3, <2>4
<1>11. CASE KeepLine
  <2>1. /\ at' = at + Len(line) /\ phase' = "xml" /\ noWrite' = noWrite
        /\ kept' = (IF noWrite THEN kept ELSE kept \o line)
    BY <1>1, <1>11 DEF KeepLine, NextLine, Keep, line
  <2>2. /\ at \notin StartsOf(c, "mediaEnd") /\ at \notin StartsOf(c, "bitrate")
        /\ at \notin StartsOf(c, "manifestEnd")
    BY <1>3, <1>11 DEF KeepLine, line
  <2>3. Len(kept') = Cardinality(KeptUpTo(c, f)) + 1 /\ KeptIs(kept', c, KeptUpTo(c, f))
    BY <1>3, <1>6, <1>7, <2>1, <2>2
  <2> QED
    BY <1>3, <1>8, <2>1, <2>2, <2>3
<1>12. CASE EndManifest
  <2> DEFINE x == Sym("manifestEnd")
             P == KeptPlaces(c)
  <2>1. /\ kept' = Append(kept, x) /\ phase' = "head"
        /\ at \in StartsOf(c, "manifestEnd")
    BY <1>1, <1>3, <1>12 DEF EndManifest, line
  <2>2. P = KeptUpTo(c, at - 1)
    BY <1>3, <2>1, KeptBefore
  <2>3. x \in Symbol
    BY Symbols
  <2> HIDE DEF x, P
  <2>4. Len(kept) = Cardinality(P) + 1 /\ KeptIs(kept, c, P)
    BY <1>4, <2>2
  <2>5. /\ kept' \in Seq(Symbol) /\ Len(kept') = Len(kept) + 1 /\ Len(kept) \in Nat
        /\ \A i \in 1 .. Len(kept) : kept'[i] = kept[i]
        /\ kept'[Len(kept) + 1] = x
    BY <1>1, <2>1, <2>3
  <2>6. IsFiniteSet(P) /\ Cardinality(P) \in Nat
    <3>1. IsFiniteSet(1 .. Len(c)) /\ P \in SUBSET (1 .. Len(c))
      BY <1>3, FS_Interval DEF P, KeptPlaces
    <3> QED
      BY <3>1, FS_Subset, FS_CardinalityType
  <2>7. ASSUME NEW k \in 1 .. Cardinality(P) PROVE kept'[k + 1] = Picked(c, P)[k]
    <3>1. k + 1 \in 1 .. Len(kept)
      BY <2>4, <2>6
    <3>2. kept[k + 1] = Picked(c, P)[k]
      BY <2>4 DEF KeptIs
    <3> QED
      BY <2>5, <3>1, <3>2
  <2>8. Len(kept') = Cardinality(P) + 2 /\ Len(kept') >= Cardinality(P) + 1
    BY <2>4, <2>5, <2>6
  <2>9. KeptIs(kept', c, P)
    BY <2>7, <2>8 DEF KeptIs
  <2>10. kept'[Len(kept')] = x
    BY <2>5
  <2>11. ListedWhole(c)'
    BY <2>8, <2>9, <2>10 DEF ListedWhole, P, x
  <2> QED
    BY <2>1, <2>11 DEF CompleteAt
<1> QED
  BY <1>9, <1>10, <1>11, <1>12

LEMMA CompleteNext ==
  ASSUME ResponseTyped, HeaderInv, [ResponseNext]_responseVars,
         NEW e, NEW l, NEW t, HeaderOf(stream, e, l, t), RelayAt(e, l, t),
         NEW c, c = Body(stream), stream[t].w = "xml", Shallow(c),
         CompleteAt(c)
  PROVE  CompleteAt(c)'
<1>1. c \in Seq(Symbol) /\ Len(c) = Len(stream) - e
      /\ \A w : \A m \in StartsOf(c, w) : m \in 1 .. Len(c)
  <2>1. c \in Seq(Symbol) /\ Len(c) = Len(stream) - e
    BY BodyShape DEF ResponseTyped, ResponseTypeOK
  <2>2. \A m \in LineStarts(c) : m \in 1 .. Len(c)
    BY <2>1, LineStartsShape
  <2> QED
    BY <2>1, <2>2 DEF StartsOf
<1>2. CASE ReadHeader \/ HeaderCut
  BY <1>2 DEF ReadHeader, HeaderCut, CompleteAt
<1>3. CASE ReadBody
  <2>1. phase' = "parse"
    BY <1>3, WholeRead
  <2> QED
    BY <2>1 DEF CompleteAt
<1>4. CASE Parse
  <2>1. phase' = "xml" /\ UNCHANGED <<at, noWrite, kept>>
    BY <1>4, RelayParse
  <2>2. at = 0 /\ ~noWrite
    BY <1>4 DEF Parse, RelayAt, Untouched
  <2>3. at' = 0 /\ ~noWrite'
    BY <2>1, <2>2
  <2>4. \A w : \A m \in StartsOf(c, w) : m >= at' /\ ~(m < at')
    BY <1>1, <2>3
  <2>5. ListedAt(c)'
    BY <2>3, <2>4 DEF ListedAt
  <2> QED
    BY <2>1, <2>5 DEF CompleteAt
<1>5. CASE DropBitrate \/ KeepMediaEnd \/ KeepLine \/ EndManifest
  <2>1. CASE at = 0
    BY <1>1, <1>5, <2>1, ListedFirst
  <2>2. CASE at # 0
    <3>1. ListedAt(c)
      BY <1>5 DEF CompleteAt, DropBitrate, KeepMediaEnd, KeepLine, EndManifest, InXml, InXmlOn, InXmlOn
    <3> QED
      BY <1>5, <2>2, <3>1, ListedNext
  <2> QED
    BY <2>1, <2>2
<1>6. CASE LengthOverrun \/ ParseOverrun \/ XmlOverrun \/ HeadOverrun
  BY <1>6 DEF LengthOverrun, ParseOverrun, XmlOverrun, HeadOverrun, Lost, CompleteAt
<1>8. CASE ReplaceLength \/ CopyHeader \/ CopyTypeAndWrite
  <2>1. phase = "head" /\ kept' = kept /\ phase' \in {"head", "written"}
    BY <1>8 DEF ReplaceLength, CopyHeader, CopyTypeAndWrite, InHead
  <2>2. ListedWhole(c)'
    BY <2>1 DEF CompleteAt, ListedWhole
  <2> QED
    BY <2>1, <2>2 DEF CompleteAt
<1>9. CASE UNCHANGED responseVars
  BY <1>9 DEF responseVars, xmlVars, CompleteAt, ListedAt, ListedWhole
<1> QED
  BY <1>2, <1>3, <1>4, <1>5, <1>6, <1>8, <1>9 DEF ResponseNext, WriteF4m

Completing ==
  \A e, l, t, c :
    HeaderOf(stream, e, l, t) /\ c = Body(stream) /\ stream[t].w = "xml" /\ Shallow(c)
    => CompleteAt(c)

LEMMA CompletingStays == ResponseSpec => []Completing
<1>1. ResponseInit => Completing
  BY DEF ResponseInit, Completing, CompleteAt
<1>2. ResponseTyped /\ HeaderInv /\ Relaying /\ Completing /\ [ResponseNext]_responseVars
      => Completing'
  <2> SUFFICES ASSUME ResponseTyped, HeaderInv, Relaying, Completing,
                      [ResponseNext]_responseVars
               PROVE  Completing'
    OBVIOUS
  <2>1. stream' = stream
    BY StreamStays
  <2>2. ASSUME NEW e, NEW l, NEW t, NEW c, HeaderOf(stream, e, l, t),
               c = Body(stream), stream[t].w = "xml", Shallow(c)
        PROVE  CompleteAt(c)'
    <3>1. RelayAt(e, l, t) /\ CompleteAt(c)
      BY <2>2 DEF Relaying, Completing
    <3> QED
      BY <2>2, <3>1, CompleteNext
  <2> QED
    BY <2>1, <2>2 DEF Completing
<1> QED
  BY <1>1, <1>2, ResponseTypedStays, HeaderCounted, RelayingStays, PTL DEF ResponseSpec

(* Where an end of the manifest that has an end of line is still ahead,     *)
(* the two loops of write_f4m_nolist stay within what they read.            *)
LEMMA NoOverrunAfter ==
  ASSUME ResponseTyped, NEW e, NEW l, NEW t, HeaderOf(stream, e, l, t), RelayAt(e, l, t),
         NEW c, c = Body(stream), CompleteAt(c),
         stream[t].w = "xml" => \E m \in StartsOf(c, "manifestEnd") : EndsInside(c, m)
  PROVE  ~XmlOverrun /\ ~HeadOverrun
<1>1. ASSUME XmlOverrun PROVE FALSE
  <2>1. phase = "xml" /\ ~EndsInside(xml, at + 1) /\ ListedAt(c) /\ stream[t].w = "xml"
    BY <1>1 DEF XmlOverrun, CompleteAt, RelayAt
  <2>2. PICK m \in StartsOf(c, "manifestEnd") : EndsInside(c, m)
    BY <2>1
  <2>3. PICK j \in m .. Len(c) : c[j] = LF
    BY <2>2 DEF EndsInside
  <2>4. xml = SubSeq(stream, e, Len(stream)) /\ stream \in Seq(Symbol) /\ at \in Nat
    BY <2>1 DEF RelayAt, ResponseTyped, ResponseTypeOK
  <2>5. /\ Len(xml) = Len(stream) - e + 1
        /\ \A k \in 1 .. Len(stream) - e + 1 : xml[k] = stream[e + k - 1]
    BY <2>4, XmlShape
  <2>6. /\ c \in Seq(Symbol) /\ Len(c) = Len(stream) - e
        /\ \A k \in 1 .. Len(stream) - e : c[k] = stream[e + k]
    BY <2>4, BodyShape
  <2>7. e \in Nat /\ Len(stream) \in Nat
    BY <2>4 DEF HeaderOf
  <2>8. m >= at /\ m \in 1 .. Len(c)
    <3>1. m \in LineStarts(c)
      BY DEF StartsOf
    <3> QED
      BY <2>1, <2>6, <3>1, LineStartsShape DEF ListedAt
  <2>9. /\ j \in 1 .. Len(stream) - e /\ j + 1 \in 1 .. Len(stream) - e + 1
        /\ e + (j + 1) - 1 = e + j /\ j + 1 \in at + 1 .. Len(xml)
    BY <2>3, <2>4, <2>5, <2>6, <2>7, <2>8
  <2>10. xml[j + 1] = c[j]
    BY <2>5, <2>6, <2>9
  <2>11. EndsInside(xml, at + 1)
    BY <2>3, <2>9, <2>10 DEF EndsInside
  <2> QED
    BY <2>1, <2>11
<1>2. ASSUME HeadOverrun PROVE FALSE
  <2>1. phase = "head" /\ ~EndsInside(head, at + 1)
    BY <1>2 DEF HeadOverrun
  <2> QED
    BY <2>1, HeadTurn
<1> QED
  BY <1>1, <1>2

(* The loops that know no end of their buffers end within them on every    *)
(* complete answer, of any length, if what ends a manifest is a line.      *)
THEOREM NeverLost == ResponseSpec => []CompleteNeverLost
<1>1. ResponseInit => CompleteNeverLost
  BY DEF ResponseInit, CompleteNeverLost
<1>2. ResponseTyped /\ HeaderInv /\ Relaying /\ Completing /\ CompleteNeverLost
      /\ [ResponseNext]_responseVars => CompleteNeverLost'
  <2> SUFFICES ASSUME ResponseTyped, HeaderInv, Relaying, Completing, CompleteNeverLost,
                      [ResponseNext]_responseVars, phase' = "lost",
                      Complete(stream), ManifestLineEnds(stream)
               PROVE  FALSE
    BY StreamStays DEF CompleteNeverLost
  <2>1. stream \in Seq(Symbol) /\ WellFormed(stream) /\ phase # "lost"
    BY DEF ResponseTyped, ResponseTypeOK, Complete, CompleteNeverLost
  <2> DEFINE e == HeaderEnd(stream)
             c == Body(stream)
  <2>2. PICK l, t : HeaderOf(stream, e, l, t)
    BY <2>1, WellFormedHeader
  <2> HIDE DEF e, c
  <2>3. IsXml(stream) <=> stream[t].w = "xml"
    BY <2>1, <2>2, BodyShape
  <2>4. RelayAt(e, l, t)
    BY <2>2 DEF Relaying
  <2>5. ~LengthOverrun /\ ~ParseOverrun
    BY <2>2, <2>4, NoOverrunBefore
  <2>6. ~XmlOverrun /\ ~HeadOverrun
    <3>1. CASE stream[t].w # "xml"
      BY <2>4, <3>1 DEF RelayAt, XmlOverrun, HeadOverrun
    <3>2. CASE stream[t].w = "xml"
      <4>1. Shallow(c) /\ \E m \in StartsOf(c, "manifestEnd") : EndsInside(c, m)
        BY <2>3, <3>2 DEF Complete, ManifestLineEnds, c
      <4>2. CompleteAt(c)
        BY <2>2, <3>2, <4>1 DEF Completing, c
      <4> QED
        BY <2>2, <2>4, <4>1, <4>2, NoOverrunAfter DEF c
    <3> QED
      BY <3>1, <3>2
  <2>7. LengthOverrun \/ ParseOverrun \/ XmlOverrun \/ HeadOverrun
    BY <2>1 DEF ResponseNext, ReadHeader, HeaderCut, ReadBody, Parse, WriteUnchanged, WriteF4m,
       DropBitrate, KeepMediaEnd, KeepLine, EndManifest, ReplaceLength, CopyHeader,
       CopyTypeAndWrite, InXml, InXmlOn, InHead, responseVars
  <2> QED
    BY <2>5, <2>6, <2>7
<1> QED
  BY <1>1, <1>2, ResponseTypedStays, HeaderCounted, RelayingStays, CompletingStays, PTL
     DEF ResponseSpec

(* Every complete answer reaches the client symbol for symbol or, of a     *)
(* manifest, without its list of bitrates and its further media.           *)
THEOREM FaithfulRelay == ResponseSpec => []RelaysFaithfully
<1>1. ResponseTyped /\ Relaying /\ Completing => RelaysFaithfully
  <2> SUFFICES ASSUME ResponseTyped, Relaying, Completing, phase = "written", Complete(stream)
               PROVE  IF IsXml(stream) THEN Body(out) = Rewritten(Body(stream)) ELSE out = stream
    BY DEF RelaysFaithfully
  <2>1. stream \in Seq(Symbol) /\ WellFormed(stream) /\ out \in Seq(Symbol) /\ kept \in Seq(Symbol)
    BY DEF ResponseTyped, ResponseTypeOK, Complete
  <2> DEFINE e == HeaderEnd(stream)
  <2>2. PICK l, t : HeaderOf(stream, e, l, t)
    BY <2>1, WellFormedHeader
  <2> HIDE DEF e
  <2>3. IsXml(stream) <=> stream[t].w = "xml"
    BY <2>1, <2>2, BodyShape
  <2>4. RelayAt(e, l, t)
    BY <2>2 DEF Relaying
  <2>5. CASE ~IsXml(stream)
    BY <2>3, <2>4, <2>5 DEF RelayAt
  <2>6. CASE IsXml(stream)
    <3> DEFINE c == Body(stream)
               g == e + Shift(stream, l)
               n == Cardinality(KeptPlaces(c))
               x == Sym("manifestEnd")
    <3>1. Shallow(c)
      BY <2>6 DEF Complete
    <3>2. ListedWhole(c)
      BY <2>2, <2>3, <2>6, <3>1 DEF Completing, CompleteAt
    <3>3. /\ HeaderOf(out, g, l, t + Shift(stream, l))
          /\ \A k \in 1 .. Len(kept) - 1 : out[g + k] = kept[k + 1]
          /\ Len(out) = g + (Len(kept) - 1)
      BY <2>3, <2>4, <2>6 DEF RelayAt
    <3>4. c \in Seq(Symbol) /\ Len(c) \in Nat
      BY <2>1, <2>2, BodyShape
    <3>5. x \in Symbol
      BY Symbols
    <3>6. Rewritten(c) = Append(Picked(c, KeptPlaces(c)), x)
      BY DEF Rewritten
    <3> DEFINE q == Picked(c, KeptPlaces(c))
    <3>7. q = [k \in 1 .. n |-> q[k]]
      BY DEF Picked
    <3> HIDE DEF c, g, x, q
    <3>8. n \in Nat
      <4>1. IsFiniteSet(1 .. Len(c)) /\ KeptPlaces(c) \in SUBSET (1 .. Len(c))
        BY <3>4, FS_Interval DEF KeptPlaces
      <4> QED
        BY <4>1, FS_Subset, FS_CardinalityType
    <3> HIDE DEF n
    <3>9. /\ Len(kept) = n + 2
          /\ \A k \in 1 .. n : kept[k + 1] = q[k]
          /\ kept[n + 2] = x
      BY <3>2 DEF ListedWhole, KeptIs, n, q, x
    <3>10. q \in Seq(Symbol) /\ Len(q) = n
      <4>1. \A k \in 1 .. n : k + 1 \in 1 .. Len(kept)
        BY <3>8, <3>9
      <4>2. \A k \in 1 .. n : q[k] \in Symbol
        BY <2>1, <3>9, <4>1
      <4>3. [k \in 1 .. n |-> q[k]] \in Seq(Symbol) /\ Len([k \in 1 .. n |-> q[k]]) = n
        BY <3>8, <4>2
      <4> QED
        BY <3>7, <4>3
    <3>11. /\ Append(q, x) \in Seq(Symbol) /\ Len(Append(q, x)) = n + 1
           /\ \A k \in 1 .. n : Append(q, x)[k] = q[k]
           /\ Append(q, x)[n + 1] = x
      BY <3>5, <3>10
    <3>12. g \in Nat
      BY <3>3 DEF HeaderOf
    <3>13. /\ Body(out) \in Seq(Symbol) /\ Len(Body(out)) = Len(out) - g
           /\ \A k \in 1 .. Len(out) - g : Body(out)[k] = out[g + k]
      <4>1. out \in Seq(Symbol)
        BY <2>1
      <4> QED
        BY <3>3, <4>1, BodyShape
    <3>14. Len(out) - g = n + 1 /\ Len(kept) - 1 = n + 1
      BY <3>3, <3>8, <3>9, <3>12
    <3>15. ASSUME NEW k \in 1 .. n + 1 PROVE Body(out)[k] = Append(q, x)[k]
      <4>1. Body(out)[k] = kept[k + 1]
        BY <3>3, <3>13, <3>14
      <4>2. CASE k = n + 1
        <5>1. k + 1 = n + 2
          BY <3>8, <4>2
        <5> QED
          BY <3>9, <3>11, <4>1, <4>2, <5>1
      <4>3. CASE k # n + 1
        <5>1. k \in 1 .. n
          BY <3>8, <4>3
        <5> QED
          BY <3>9, <3>11, <4>1, <5>1
      <4> QED
        BY <4>2, <4>3
    <3>16. Body(out) = Append(q, x)
      <4> DEFINE o == Body(out)
                 r == Append(q, x)
      <4>1. o \in Seq(Symbol) /\ r \in Seq(Symbol) /\ Len(o) = n + 1 /\ Len(r) = n + 1
        BY <3>11, <3>13, <3>14
      <4>2. \A k \in 1 .. n + 1 : o[k] = r[k]
        BY <3>15
      <4> HIDE DEF o, r
      <4>3. o = r
        BY <4>1, <4>2, SeqEqual
      <4> QED
        BY <4>3 DEF o, r
    <3> QED
      BY <2>6, <3>6, <3>16 DEF c, q
  <2> QED
    BY <2>5, <2>6
<1> QED
  BY <1>1, ResponseTypedStays, RelayingStays, CompletingStays, PTL
=============================================================================
