----------------------------- MODULE FrameCycle -----------------------------
(***************************************************************************)
(* What the pump promises about the frames of the UMEM, whatever rings and *)
(* indices carry them: each frame has one holder and goes round a cycle.   *)
(***************************************************************************)
CONSTANTS
  Frames,  \* the frames of the UMEM
  Lossy    \* may the pump lose frames?

VARIABLE holder

Holders == {"kernel", "pump", "wire", "lost"}

Init == holder = [f \in Frames |-> "kernel"]

\* The kernel receives a packet into the frame; it is transmitted or dropped; a
\* transmitted frame comes back.
Moves == {<<"kernel", "pump">>, <<"pump", "wire">>, <<"pump", "kernel">>, <<"wire", "kernel">>}

\* A frame that cannot be given back is gone: no move brings it back.
Losses == IF Lossy THEN {<<from, "lost">> : from \in Holders} ELSE {}

Goes(f, to) == <<holder[f], to>> \in Moves \cup Losses

\* Any number of frames may go at once, each a step of its own way.
Next == \E moved \in SUBSET Frames :
          /\ moved # {}
          /\ \A f \in Frames \ moved : holder'[f] = holder[f]
          /\ \A f \in moved : Goes(f, holder'[f])

Spec == Init /\ [][Next]_holder
=============================================================================
