------------------------------ MODULE MCResponse ------------------------------
(* Instances of Response for TLC: raw streams, in which CR, LF and words     *)
(* come in any order, and answers built of a header and a body, whole or cut *)
(* off, with the Content-Length of their body or another.                    *)
EXTENDS Response, SequencesExt

Crlf == <<CR, LF>>
Text(w) == <<Sym(w)>> \o Crlf
Indented(k, w) == [i \in 1 .. k |-> Blank] \o Text(w)

UpTo(S, n) == UNION {[1 .. k -> S] : k \in 0 .. n}

RawStreams == UpTo({CR, LF, ContentLength(1)}, 7)

(* Manifests made of lines as in tmp.txt, some indented too far, with what   *)
(* may follow the first medium and with and without their end.               *)
Lines ==
  {Text("text"), Text("bitrate"), Text("mediaEnd"), Indented(2, "bitrate"),
   Indented(3, "metadataEnd"), Indented(4, "metadataEnd"), Indented(6, "bootstrap")}

Bodies ==
  {FlattenSeq(ls) \o more \o end :
     ls \in UpTo(Lines, 3),
     more \in {<<>>, Text("mediaEnd") \o Text("bitrate") \o Text("text") \o Text("mediaEnd")},
     end \in {<<>>, <<Sym("manifestEnd")>>, Indented(2, "manifestEnd"),
             Text("manifestEnd") \o Text("text")}}

OneBody == Text("bitrate") \o Text("mediaEnd") \o Text("manifestEnd")

(* Headers in the order Apache gives them, and with Content-Type earlier, or *)
(* without one of the two.                                                   *)
Headers(n, type) ==
  { Text("header") \o <<ContentLength(n)>> \o Crlf \o Text(type),
    <<ContentLength(n)>> \o Crlf \o Text("header") \o Text(type),
    <<ContentLength(n)>> \o Crlf \o Text(type) \o Text("header"),
    Text(type) \o <<ContentLength(n)>> \o Crlf,
    <<Blank, ContentLength(n)>> \o Crlf \o <<Blank>> \o Text(type),
    <<ContentLength(n)>> \o Crlf \o Indented(6, type),
    Text("header") \o Text(type),
    <<ContentLength(n)>> \o Crlf }

ApacheHeader(n, type) ==
  Text("header") \o <<ContentLength(n)>> \o Crlf \o Text(type) \o Crlf

Manifests ==
  {ApacheHeader(Len(b), "xml") \o b : b \in Bodies}
  \cup {h \o Crlf \o OneBody : h \in Headers(Len(OneBody), "xml")}

Others ==
  UNION {{h \o Crlf \o b : h \in Headers(Len(b) + d, type)} :
           b \in {<<>>, Text("text"), Text("text") \o Crlf \o Text("text")},
           type \in {"video", "html"}, d \in {0, 2}}

Truncated ==
  LET m == ApacheHeader(Len(OneBody), "xml") \o OneBody
  IN  {SubSeq(m, 1, k) : k \in 0 .. Len(m)}

MCStreams == RawStreams \cup Manifests \cup Others \cup Truncated
=============================================================================
