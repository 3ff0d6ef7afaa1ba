------------------------- MODULE ReserveAddressSpace -------------------------
(***************************************************************************)
(* src/reserve-address-space.cpp: fill every hole of the address space     *)
(* with PROT_NONE mappings, asking the kernel for ever smaller sizes.      *)
(* Addresses and lengths are counted in pages of PAGE_SIZE bytes: a length *)
(* below PAGE_SIZE is 0 pages.                                             *)
(*                                                                         *)
(* The names that every specification has carry the loop's, so that a      *)
(* module can extend this one and StealMemoryRegion.                       *)
(***************************************************************************)
EXTENDS Integers, FiniteSets

CONSTANTS Pages,     \* the pages the kernel hands out to this process
          InitialLen \* 1 << 51 bytes, in pages

\* The lengths alloc_len can take before it drops below one page.
CONSTANT Sizes

ASSUME PagesAssumption == Pages \subseteq Nat /\ IsFiniteSet(Pages)

\* The sizes are powers of two: each but 1 halves exactly into another.
ASSUME SizesAssumption ==
  /\ InitialLen \in Sizes
  /\ \A n \in Sizes : /\ n \in Nat \ {0}
                      /\ n = 1 \/ (n \div 2 \in Sizes /\ 2 * (n \div 2) = n)

\* The address space has no room for two mappings of the first size.
ASSUME InitialLenAssumption ==
  \A a \in Pages : ~(a .. a + 2 * InitialLen - 1 \subseteq Pages)

VARIABLES used,      \* pages mapped when main() starts
          reserved,  \* pages mapped by the mmap calls of the loop
          alloc_len,
          total_len,
          status     \* "loop", or what main() returned: "done" (0), "error" (-1)

halvingVars == <<used, reserved, alloc_len, total_len, status>>

Free == Pages \ (used \cup reserved)

\* The gaps of n pages the kernel could place a mapping in.
Gaps(n) == {a \in Free : a .. a + n - 1 \subseteq Free}

HalvingInit == /\ used \in SUBSET Pages
        /\ reserved = {}
        /\ alloc_len = InitialLen
        /\ total_len = 0
        /\ status = "loop"

\* Bug: the last size, one page, is not tried.
MoreThanAPage == alloc_len > 1

\* alloc_len >= PAGE_SIZE
AtLeastAPage == alloc_len >= 1

InLoop == status = "loop" /\ AtLeastAPage

\* Bug: MAP_FIXED at an address of the program's choice.
MmapFixed == /\ InLoop
             /\ \E a \in Pages : /\ a .. a + alloc_len - 1 \subseteq Pages
                               /\ reserved' = reserved \cup (a .. a + alloc_len - 1)
             /\ total_len' = total_len + alloc_len
             /\ UNCHANGED <<used, alloc_len, status>>

\* mmap with a hint above every gap and without MAP_FIXED: the kernel picks one.
MmapSucceeds == /\ InLoop
                /\ \E a \in Gaps(alloc_len) :
                     reserved' = reserved \cup (a .. a + alloc_len - 1)
                /\ total_len' = total_len + alloc_len
                /\ UNCHANGED <<used, alloc_len, status>>

\* Bug: the same size is tried again.
MmapNoGapRetries == /\ InLoop /\ Gaps(alloc_len) = {}
                    /\ UNCHANGED halvingVars

\* Bug: the failed mmap is added to the total.
MmapNoGapCounts == /\ InLoop /\ Gaps(alloc_len) = {}
                   /\ alloc_len' = alloc_len \div 2
                   /\ total_len' = total_len + alloc_len
                   /\ UNCHANGED <<used, reserved, status>>

\* ENOMEM, or EPERM for a length the kernel never accepts: next size.
MmapNoGap == /\ InLoop
             /\ Gaps(alloc_len) = {}
             /\ alloc_len' = alloc_len \div 2
             /\ UNCHANGED <<used, reserved, total_len, status>>

\* Any other errno.
MmapError == /\ InLoop
             /\ status' = "error"
             /\ UNCHANGED <<used, reserved, alloc_len, total_len>>

Return == /\ status = "loop"
          /\ ~AtLeastAPage
          /\ status' = "done"
          /\ UNCHANGED <<used, reserved, alloc_len, total_len>>

HalvingNext == MmapSucceeds \/ MmapNoGap \/ MmapError \/ Return

HalvingSpec == HalvingInit /\ [][HalvingNext]_halvingVars

\* The loop is sequential code that only stops by returning; an error other
\* than the lack of a gap need not occur.
HalvingFairSpec == HalvingSpec /\ WF_halvingVars(MmapSucceeds \/ MmapNoGap \/ Return)
-----------------------------------------------------------------------------
HalvingTypeOK == /\ used \in SUBSET Pages
          /\ reserved \in SUBSET Pages
          /\ alloc_len \in Sizes \cup {0}
          /\ total_len \in Nat
          /\ status \in {"loop", "done", "error"}

\* When main() returns 0 no page of the address space is free: the greedy
\* halving has left no hole behind, whichever gap the kernel chose each time.
Complete == status = "done" => Free = {}

\* "No more free VM gaps of this size" stays true after the size is halved:
\* no gap of twice the current length is left.
HalvingLosesNothing == Gaps(2 * alloc_len) = {} \/ alloc_len = 0

\* The length main() prints is the number of pages it really reserved: no
\* mapping lies over another one or over a page that was in use.
TotalIsReserved == /\ total_len = Cardinality(reserved)
                   /\ reserved \cap used = {}

\* The program returns.
HalvingTerminates == <>(status # "loop")

\* The halving loop implements the reservation it stands for.
HalvingPromise == INSTANCE Reservation WITH Window <- Pages, done <- status = "done"
HalvingImplementsReservation == HalvingPromise!AbsSpec
=============================================================================
