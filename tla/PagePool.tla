------------------------------ MODULE PagePool ------------------------------
(***************************************************************************)
(* What a page allocator promises its callers: a pool of frames, each one  *)
(* granted to at most one holder at a time; a request is refused only when *)
(* every frame of the pool is granted.  PageAllocator implements it.       *)
(***************************************************************************)
CONSTANTS Frames,   \* all frame addresses the machine may have
          NoFrame   \* the answer to a request that is refused

VARIABLES pool,     \* the frames under management, {} before start-up
          granted,  \* the frames that are not available
          answer    \* the answer to the last request

vars == <<pool, granted, answer>>

Init == pool = {} /\ granted = {} /\ answer = NoFrame

(* Start-up chooses the pool, once, before anything is granted.            *)
Setup ==
  /\ pool = {} /\ granted = {}
  /\ pool' \in SUBSET Frames
  /\ UNCHANGED <<granted, answer>>

Grant ==
  \E f \in pool \ granted : /\ granted' = granted \cup {f}
                            /\ answer' = f
                            /\ UNCHANGED pool

(* A frame leaves the pool, but its delivery fails.                        *)
Lose ==
  \E f \in pool \ granted : /\ granted' = granted \cup {f}
                            /\ UNCHANGED <<pool, answer>>

Refuse ==
  /\ granted = pool
  /\ answer' = NoFrame
  /\ UNCHANGED <<pool, granted>>

Release ==
  \E f \in granted : /\ granted' = granted \ {f}
                     /\ UNCHANGED <<pool, answer>>

Next == Setup \/ Grant \/ Lose \/ Refuse \/ Release

Spec == Init /\ [][Next]_vars
=============================================================================
