----------------------------- MODULE MCJls2RoundTrip -----------------------------
(* Instance of Jls2RoundTrip for TLC: what the encoder writes, and streams *)
(* of up to four segments with a fault in a segment, in the numbers of the *)
(* header, in its digests or at their end.                                 *)
EXTENDS Jls2RoundTrip

Good(n) == Python!GoodSegment(n)

PythonKinds ==
  {Good(1), Good(2),
   [Good(1) EXCEPT !.decodes = FALSE],
   [Good(1) EXCEPT !.mode = "columnar", !.nested = FALSE],
   [Good(1) EXCEPT !.original = 0],
   [Good(1) EXCEPT !.mode = "unknown"]}

NativeKinds == PythonKinds \ {Good(2), [Good(1) EXCEPT !.mode = "unknown"]}

PythonBodies ==
  UNION {[1..n -> PythonKinds] : n \in 0..2}
  \cup [1..3 -> {Good(1), Good(2)}]
  \cup {<<Good(1), g, Good(1)>> : g \in PythonKinds}

NativeBodies ==
  UNION {[1..n -> NativeKinds] : n \in 0..3} \cup {[i \in 1..4 |-> Good(i % 2)]}

(* The header an encoder would write before these segments. *)
Sound(body) ==
  [wellFormed |-> TRUE, withinLimit |-> TRUE,
   original |-> Python!Declared([segments |-> body], Len(body)),
   count |-> Len(body), segments |-> body, partial |-> FALSE,
   encodedDigestOK |-> TRUE, source |-> FirstSegments(Len(body))]

(* One fault in the header or at the end of the stream. *)
Faulty(s) ==
  {[s EXCEPT !.withinLimit = FALSE], [s EXCEPT !.original = @ + 1],
   [s EXCEPT !.count = @ + 1], [s EXCEPT !.partial = TRUE],
   [s EXCEPT !.encodedDigestOK = FALSE], [s EXCEPT !.source = <<0>> \o @]}

PythonFaulty(s) ==
  Faulty(s) \cup {[s EXCEPT !.wellFormed = FALSE]}
  \cup (IF s.count = 0 THEN {} ELSE
        {[s EXCEPT !.original = @ - 1], [s EXCEPT !.count = @ - 1]})

MCPythonStreams ==
  LET sound == {Sound(body) : body \in PythonBodies}
  IN  sound \cup UNION {PythonFaulty(s) : s \in sound}

MCNativeStreams ==
  LET sound == {Sound(body) : body \in NativeBodies}
  IN  sound \cup UNION {Faulty(s) : s \in sound}
================================================================================
