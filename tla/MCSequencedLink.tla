---------------------------- MODULE MCSequencedLink ----------------------------
(***************************************************************************)
(* A tracked node and one outside the tracker; the six sequence numbers    *)
(* are used more than twice, with frames from exactly half of them behind  *)
(* to just less than half of them ahead.                                   *)
(***************************************************************************)
EXTENDS SequencedLink

\* No action reads what the last delivery was and returned.
View == <<seen, last_sequence, summary, sequence_number, sent, accepted, before, logged>>
==============================================================================
