----------------------------- MODULE Reservation -----------------------------
(***************************************************************************)
(* What an address-space reserver promises, whichever way it finds the     *)
(* holes: it claims only addresses nobody uses, never gives one back, and  *)
(* says it is done only when no free address of its window is left.        *)
(* ReserveAddressSpace (halving mmap sizes) and StealMemoryRegion (parsing *)
(* /proc/self/maps) both implement it.                                     *)
(***************************************************************************)

CONSTANT Window     \* the addresses to be claimed

VARIABLES used,     \* addresses that were mapped before the reserver ran
          reserved, \* addresses the reserver has claimed
          done      \* the reserver has announced that it is finished

absVars == <<used, reserved, done>>

Unclaimed == Window \ (used \cup reserved)

AbsInit == /\ reserved = {}
           /\ done = FALSE

\* The claim of a step: some unclaimed addresses more, or none.
Claim == /\ reserved \subseteq reserved'
         /\ reserved' \ reserved \subseteq Unclaimed
         /\ UNCHANGED used

Reserve == ~done /\ Claim /\ UNCHANGED done

Finish == ~done /\ Claim /\ Window \subseteq used \cup reserved' /\ done' = TRUE

AbsNext == Reserve \/ Finish

AbsSpec == AbsInit /\ [][AbsNext]_absVars
=============================================================================
