----------------------- MODULE MCTabularRoundTrip -------------------------
(* Instance of TabularRoundTrip for TLC: other streams with target 2 and    *)
(* slack 1 of up to three segments, with a fault in a segment, in the      *)
(* header or at the end, and any other stream in the place of a sound one. *)
EXTENDS TabularRoundTrip

Kinds ==
  LET good == GoodSegment(2)
  IN  {good, GoodSegment(1), GoodSegment(3), GoodSegment(4),
       [good EXCEPT !.bounded = FALSE], [good EXCEPT !.known = FALSE],
       [good EXCEPT !.original = 1], [good EXCEPT !.original = 3],
       [good EXCEPT !.restores = FALSE]}

Bodies == UNION {[1..n -> {GoodSegment(k) : k \in 1..3}] : n \in 0..2}
          \cup {<<GoodSegment(2), g>> : g \in Kinds}
          \cup {<<g, GoodSegment(1)>> : g \in Kinds}
          \cup {<<GoodSegment(k), GoodSegment(2), GoodSegment(1)>> : k \in 2..3}

(* The header compress_stream would write before these segments. *)
Sound(body) ==
  [wellFormed |-> TRUE, withinLimit |-> TRUE, target |-> 2, slack |-> 1,
   original |-> TotalOf([i \in 1..Len(body) |-> body[i].size], Len(body)),
   count |-> Len(body), payload |-> body, payloadSizeOK |-> TRUE,
   manifestOK |-> TRUE, segments |-> body, partial |-> FALSE]

(* One fault in the header or at the end of the stream. *)
Faulty(s) ==
  {[s EXCEPT !.withinLimit = FALSE], [s EXCEPT !.original = @ + 1],
   [s EXCEPT !.count = @ + 1], [s EXCEPT !.partial = TRUE],
   [s EXCEPT !.payloadSizeOK = FALSE], [s EXCEPT !.manifestOK = FALSE],
   [s EXCEPT !.payload = <<GoodSegment(3)>> \o @],
   [s EXCEPT !.segments = [i \in DOMAIN @ |-> [@[i] EXCEPT !.restores = FALSE]]]}
  \cup (IF s.original < 2 THEN {} ELSE {[s EXCEPT !.original = @ - 1]})

MCStreams == LET sound == {Sound(body) : body \in Bodies}
             IN  sound \cup UNION {Faulty(Sound(body)) :
                               body \in {<<>>, <<GoodSegment(2), GoodSegment(1)>>}}
================================================================================
