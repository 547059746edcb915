------------------------------- MODULE Frames -------------------------------
(***************************************************************************)
(* The frame allocator of mm/frames.rs: a list of free frames threaded     *)
(* through the first word of the frames themselves, and a count beside it. *)
(* An allocator state is a record; the boot hart is the only caller.       *)
(***************************************************************************)
EXTENDS Naturals, FiniteSets

CONSTANT FRAME_TOTAL   \* how many frames the pool holds

ASSUME FramesAssumption == FRAME_TOTAL \in Nat

Frame == 1 .. FRAME_TOTAL
NoFrame == 0

\* The first word of a frame: a link while it is free, and what its owner
\* writes there afterwards.
FramesInit ==
  [head |-> FRAME_TOTAL, word |-> [f \in Frame |-> f - 1], free |-> FRAME_TOTAL]

FrameAlloc(m) == m.head

\* frame_alloc(): unlink the head and zero the frame; nothing when it is 0.
AfterAlloc(m) ==
  IF m.head = NoFrame THEN m
  ELSE [head |-> m.word[m.head],
        word |-> [m.word EXCEPT ![m.head] = 0],
        free |-> m.free - 1]

\* Defect: the frame is linked without becoming the head.
FrameFreeLost(m, f) ==
  [m EXCEPT !.word[f] = m.head, !.free = @ + 1]

\* frame_free(): link the frame in front of the head.
FrameFree(m, f) ==
  [head |-> f, word |-> [m.word EXCEPT ![f] = m.head], free |-> m.free + 1]

\* The frames the list leads to: follow at most FRAME_TOTAL links.
FreeList(m) ==
  LET step[n \in 0 .. FRAME_TOTAL] ==
        IF n = 0 THEN m.head
        ELSE IF step[n - 1] = NoFrame THEN NoFrame ELSE m.word[step[n - 1]]
  IN  {step[n] : n \in 0 .. FRAME_TOTAL} \ {NoFrame}
=============================================================================
