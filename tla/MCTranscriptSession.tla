------------------------ MODULE MCTranscriptSession ------------------------
(* Small instances of TranscriptSession for TLC.                           *)
EXTENDS TranscriptSession

\* Messages are interchangeable.
UserSymmetry == Permutations(Users)

\* A call that was answered when nobody awaited it any more, and the order of arrival
\* in a transcript that was not loaded, are read by nothing.
View == <<model, view, readOnly, reply, watch, refresher, loadedAt,
          overtaken /\ view # "unloaded", serverVars,
          {c \in calls : c.phase = "asked" \/ c.key = watch}, disk, wire, subscribed, bounds>>
============================================================================
