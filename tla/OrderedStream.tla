---------------------------- MODULE OrderedStream ----------------------------
(***************************************************************************)
(* What every segmented codec of compression-lab promises, however many    *)
(* threads work on the segments: the output grows by the next segment of   *)
(* the input and by no other, nothing is published unless all of them are  *)
(* there, and once the call has ended nothing changes.  A segment is its   *)
(* number in the input.                                                    *)
(***************************************************************************)
EXTENDS Naturals, Sequences

VARIABLES
  total,    \* how many segments the input has
  emitted,  \* the segments the output holds, one after the other
  result    \* "running", "published" or "failed"

streamVars == <<total, emitted, result>>

StreamInit == total \in Nat /\ emitted = <<>> /\ result = "running"

(* Only the segment that comes next in the input. *)
Emit ==
  /\ result = "running" /\ Len(emitted) < total
  /\ emitted' = Append(emitted, Len(emitted) + 1)
  /\ UNCHANGED <<total, result>>

PublishAll ==
  /\ result = "running" /\ Len(emitted) = total
  /\ result' = "published"
  /\ UNCHANGED <<total, emitted>>

GiveUp ==
  /\ result = "running"
  /\ result' = "failed"
  /\ UNCHANGED <<total, emitted>>

StreamNext == Emit \/ PublishAll \/ GiveUp

StreamSpec == StreamInit /\ [][StreamNext]_streamVars
==============================================================================
