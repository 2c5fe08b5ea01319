----------------------------- MODULE DropStatus -----------------------------
(***************************************************************************)
(* What a drop promises its consumers, whatever the threads that drive    *)
(* it (spec.md, drop lifecycle): it starts INITIALIZED, may be WRITING    *)
(* while data arrives, and ends in exactly one terminal status; the        *)
(* consumers are handed data chunks, then are told once, with that        *)
(* terminal status, that the drop is done, and are handed nothing after.  *)
(***************************************************************************)
EXTENDS Sequences

VARIABLES
  st,   \* the drop's status
  out   \* what the consumers have been handed, in order

avars == <<st, out>>

Writable == {"INITIALIZED", "WRITING"}
Terminal == {"COMPLETED", "ERROR", "CANCELLED", "SKIPPED"}
Chunk    == "DATA"

\* The consumers have been told the drop is done.
Told == \E i \in DOMAIN out : out[i] # Chunk

AInit == st = "INITIALIZED" /\ out = <<>>

\* Data is being written.
Write == st \in Writable /\ st' = "WRITING" /\ UNCHANGED out

\* A chunk reaches the streaming consumers before they are told.
Deliver == ~Told /\ out' = Append(out, Chunk) /\ UNCHANGED st

\* The drop moves, once, to a terminal status.
End == st \in Writable /\ st' \in Terminal /\ UNCHANGED out

\* The consumers are told the terminal status, once.
Tell == st \in Terminal /\ ~Told /\ out' = Append(out, st) /\ UNCHANGED st

ANext == Write \/ Deliver \/ End \/ Tell

\* A drop that has ended tells its consumers: graph execution moves on only
\* through these events.
ASpec == AInit /\ [][ANext]_avars /\ WF_avars(Tell)

=============================================================================
