---------------------------- MODULE AddressSpace ----------------------------
(***************************************************************************)
(* What paging promises, without tables: a partial map from virtual to     *)
(* physical large pages that changes at one place at a time, and only as a *)
(* caller asked.  A request may also fail and change nothing.              *)
(***************************************************************************)
CONSTANTS Virtual, Physical, Unmapped,
          Pinned,     \* what every address space maps: the running kernel
          Requests    \* pairs of a virtual page and the page it may be given

VARIABLE space

Spaces ==
  {f \in [Virtual -> Physical \cup {Unmapped}] : \A v \in DOMAIN Pinned : f[v] = Pinned[v]}

Init == space \in Spaces

Grant(v, p) ==
  /\ v \notin DOMAIN Pinned
  /\ space' = [space EXCEPT ![v] = p]

Next == \E r \in Requests : Grant(r[1], r[2])

Spec == Init /\ [][Next]_space
=============================================================================
