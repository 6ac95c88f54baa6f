----------------------------- MODULE AddressSpace -----------------------------
(***************************************************************************)
(* What a loader plugin promises the engine about the address space it     *)
(* builds: segments are added one at a time, none of them overlaps one     *)
(* that is already there, none of them is ever changed or removed, and the *)
(* loader reports success only if it mapped something.                     *)
(*                                                                         *)
(* A segment is a record [base, size, input]: the addresses base ..        *)
(* base + size - 1 show the bytes of the file that start at offset input.  *)
(***************************************************************************)
EXTENDS Naturals

VARIABLES
  limit,            \* no segment ends above this address
  segments,         \* the set of segments mapped so far
  status            \* "loading", then "loaded" or "rejected"

vars == <<limit, segments, status>>

DisjointFrom(s, t) == s.base + s.size <= t.base \/ t.base + t.size <= s.base

Segment == [base : Nat, size : Nat, input : Nat]

Init ==
  /\ limit \in Nat
  /\ segments = {}
  /\ status = "loading"

Map ==
  /\ status = "loading"
  /\ \E s \in segments' :
       /\ s \in Segment
       /\ s.size > 0
       /\ s.base + s.size <= limit
       /\ \A t \in segments : DisjointFrom(s, t)
       /\ segments' = segments \cup {s}
  /\ UNCHANGED <<limit, status>>

Finish ==
  /\ status = "loading"
  /\ status' \in {"loaded", "rejected"}
  /\ status' = "loaded" => segments # {}
  /\ UNCHANGED <<limit, segments>>

Next == Map \/ Finish

Spec == Init /\ [][Next]_vars
===============================================================================
