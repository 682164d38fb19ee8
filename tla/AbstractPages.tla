---------------------------- MODULE AbstractPages ----------------------------
(***************************************************************************)
(* What the page allocator promises its callers (spec.md 4.2), stated      *)
(* over the page map without any scan: a call either grants a run of       *)
(* consecutive free entries that fits the request and retags exactly that  *)
(* run with the requested type, or releases the run that starts at the     *)
(* named address, or changes nothing.  The choice of run is left open:     *)
(* first-fit is a separate property of the implementation.                 *)
(*                                                                         *)
(* Entries past the end of the map are not described by the map; what a   *)
(* call does there is checked separately (NoWritePastMap).                 *)
(***************************************************************************)
EXTENDS Naturals, Sequences, EfiTypes

VARIABLES map, last

Run(first, n) == {k \in first .. first + n - 1 : k \in DOMAIN map}

Relabel(first, n, t) ==
  [k \in DOMAIN map |-> IF k \in Run(first, n) THEN [map[k] EXCEPT !.Type = t]
                                                ELSE map[k]]

\* The run fits the request's strategy.
Fits(req, first) ==
  CASE req.a_type = AllocateAnyPages   -> TRUE
    [] req.a_type = AllocateMaxAddress ->
         \A k \in Run(first, req.pages) : map[k].PhysicalStart <= req.mem
    [] req.a_type = AllocateAddress    -> map[first].PhysicalStart = req.mem

Grant ==
  /\ last'.op = "AllocatePages"
  /\ last'.status = EFI_SUCCESS
  /\ \E first \in DOMAIN map :
       /\ \A k \in Run(first, last'.pages) : map[k].Type = EfiConventionalMemory
       /\ Fits(last', first)
       /\ map' = Relabel(first, last'.pages, last'.m_type)

Release ==
  /\ last'.op = "FreePages"
  /\ last'.status = EFI_SUCCESS
  /\ \E first \in DOMAIN map :
       /\ map[first].PhysicalStart = last'.mem
       /\ map' = Relabel(first, last'.pages, EfiConventionalMemory)

NoChange ==
  /\ last'.op \in {"AllocatePages", "FreePages"}
  /\ map' = map

Init == last.op = "none"

Next == Grant \/ Release \/ NoChange

Spec == Init /\ [][Next]_<<map, last>>

=============================================================================
