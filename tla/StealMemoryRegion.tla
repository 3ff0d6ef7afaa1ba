-------------------------- MODULE StealMemoryRegion --------------------------
(***************************************************************************)
(* address-space-stealing/alloc.cpp: parse /proc/self/maps while mapping   *)
(* PROT_NONE over each hole the lines reveal.  The kernel renders the file *)
(* piecemeal, from the live address space the parser is changing.          *)
(*                                                                         *)
(* Addresses are counted in pages and rendered in base 16: the digits but  *)
(* the last, taken as one, and the last.  With the '-', the ' ' and the    *)
(* rest of a line up to its '\n', a line is seven tokens; remaining counts *)
(* those left in Buffer, so that a read may end inside a number.           *)
(***************************************************************************)
EXTENDS Integers, Sequences, FiniteSets

CONSTANTS Begin, End,    \* the window to steal
          Layouts,       \* the sets of mappings the process may start with
          BucketEntries, \* the regions that a bucket is meant for
          MmapMayFail    \* whether an mmap may return an error

ASSUME WindowAssumption == Begin \in Nat \ {0} /\ End \in Nat

\* A mapping is a nonempty interval [begin, end); two of them never overlap, and
\* there are finitely many.
ASSUME LayoutsAssumption ==
  \A L \in Layouts : IsFiniteSet(L) /\ \A u \in L :
    /\ u \in [begin : Nat, end : Nat]
    /\ u.begin < u.end
    /\ \A v \in L : u = v \/ u.end <= v.begin \/ v.end <= u.begin

ASSUME BucketAssumption == BucketEntries \in Nat \ {0}

ASSUME MmapAssumption == MmapMayFail \in BOOLEAN

VARIABLES vmas,        \* the mappings the process started with
          mapped,      \* the intervals the kernel has mapped for the parser
          stolen,      \* the intervals the parser has asked for
          fetched,     \* the address up to which the kernel has rendered lines
          lines,       \* lines rendered, the first one perhaps consumed in part
          remaining,   \* Remaining, in tokens
          State,       \* the parser's State, "Grabbed" after AfterGrab(Root)
          digits,      \* how much of the number at Cursor has been consumed
          regionBegin, \* RegionBegin
          regionEnd,   \* RegionEnd
          root,        \* the words stored from Root->PtrSize on
          position,    \* Position
          damage       \* what those past the array have hit

kernelVars == <<vmas, fetched>>
parserVars == <<lines, remaining, State, digits, regionBegin, regionEnd>>
stealVars == <<mapped, stolen, root, position, damage>>
vars == <<kernelVars, parserVars, stealVars>>

Max2(a, b) == IF a >= b THEN a ELSE b
Min2(a, b) == IF a <= b THEN a ELSE b

Interval(from, to) == [begin |-> from, end |-> to]
PagesOf(S) == UNION {r.begin .. r.end - 1 : r \in S}

Init == /\ vmas \in Layouts
        /\ mapped = {} /\ stolen = {}
        /\ fetched = 0 /\ lines = {} /\ remaining = 0
        /\ State = "ParseBegin" /\ digits = 0 /\ regionBegin = 0 /\ regionEnd = 0
        /\ root = <<>> /\ position = 0 /\ damage = "none"
-----------------------------------------------------------------------------
\* What the kernel would still render: the mappings from fetched upwards, the
\* parser's own ones among them.
Upcoming == {v \in vmas \cup mapped : v.begin >= fetched}

TokensConsumed == CASE State = "ParseBegin" -> digits
                    [] State = "ParseEnd" -> 3 + digits
                    [] State = "ScanEnd" -> 6
                    [] OTHER -> 0

Tokens(ls) == 7 * Cardinality(ls) - TokensConsumed

\* read(): the kernel renders some of the mappings, in the order of their
\* addresses, and delivers a part of what it has rendered.
Refill ==
  /\ State # "Grabbed" /\ remaining = 0
  /\ \E new \in SUBSET Upcoming :
       /\ \A u \in new : \A v \in Upcoming \ new : u.begin < v.begin
       /\ lines' = lines \cup new
       /\ \E n \in 1 .. Tokens(lines') : remaining' = n
       /\ IF new = {} THEN UNCHANGED fetched
          ELSE \E last \in new : /\ \A u \in new : u.end <= last.end
                                 /\ fetched' = last.end
  /\ UNCHANGED <<vmas, State, digits, stealVars>>

\* Bug: a number that a read has cut is begun anew behind the cut.
ReadMapsForgets == Refill /\ regionBegin' = 0 /\ regionEnd' = 0

ReadMaps == Refill /\ UNCHANGED <<regionBegin, regionEnd>>

\* The line the next token belongs to.
IsCurrent(v) == v \in lines /\ \A u \in lines : v.begin <= u.begin
-----------------------------------------------------------------------------
BucketWords == BucketEntries + 1

Put(bucket, p, word) ==
  [w \in DOMAIN bucket \cup {p} |-> IF w = p THEN word ELSE bucket[w]]

\* Bug: the word behind the size is left for the next region.
WithRegionAndGap(bucket, p, r) ==
  Put(Put(Put(bucket, p, r.begin), p + 1, r.end - r.begin), p + 3, 0)

\* Storing the words of a region from index p of a bucket, with the 0 behind it.
WithRegion(bucket, p, r) ==
  Put(Put(Put(bucket, p, r.begin), p + 1, r.end - r.begin), p + 2, 0)

\* Bug: Position moves on by one.
StoreRegionOverlaps(r) ==
  /\ root' = WithRegion(root, position, r) /\ position' = position + 1
  /\ UNCHANGED damage

\* The stores of a region.  The first that is past PtrSize and the word of padding
\* behind it is that of a 0.  What it hits depends on the build.  In one that
\* line 2 asks for (g++ 12, no optimisation) it is the parameter End.  In others
\* it may be anything, and the model ends.  Hence no region is stored after it, and
\* the next bucket, for which Position would have to be 2 * BucketEntries, is out
\* of reach.
StoreRegion(r) ==
  /\ root' = WithRegion(root, position, r)
  /\ position' = position + 2
  /\ IF DOMAIN root' \subseteq 0 .. BucketWords - 1 THEN UNCHANGED damage
     ELSE damage' \in {"end", "lost"}

\* The parameter End.
WindowEnd == IF damage = "end" THEN 0 ELSE End

\* mmap with MAP_FIXED; what it returns is not looked at.
Mmap(r) == /\ stolen' = stolen \cup {r}
           /\ \/ mapped' = mapped \cup {r}
              \/ MmapMayFail /\ UNCHANGED mapped

\* Map and record the interval when there is one.
Steal(from, to) ==
  \/ to > from /\ Mmap(Interval(from, to)) /\ StoreRegion(Interval(from, to))
  \/ to <= from /\ UNCHANGED stealVars
-----------------------------------------------------------------------------
Parse(state) == State = state /\ remaining > 0 /\ remaining' = remaining - 1

\* The digits at Cursor of the number n.
Digit(n) == IF digits = 0 THEN n \div 16 ELSE n % 16

\* A digit of the beginning is shifted in.
ParseBeginDigit ==
  /\ Parse("ParseBegin") /\ digits < 2
  /\ \E v \in lines : IsCurrent(v) /\ regionBegin' = 16 * regionBegin + Digit(v.begin)
  /\ digits' = digits + 1
  /\ UNCHANGED <<kernelVars, lines, State, regionEnd, stealVars>>

\* Bug: RegionEnd is not reset before the digits of the next end.
ParseDashKeepsEnd ==
  /\ Parse("ParseBegin") /\ digits = 2
  /\ Steal(Max2(regionEnd, Begin), Min2(regionBegin, WindowEnd))
  /\ regionBegin' = 0 /\ digits' = 0
  /\ State' = "ParseEnd"
  /\ UNCHANGED <<kernelVars, lines, regionEnd>>

\* '-': RegionBegin is complete, steal the hole in front of it.
ParseDash ==
  /\ Parse("ParseBegin") /\ digits = 2
  /\ Steal(Max2(regionEnd, Begin), Min2(regionBegin, WindowEnd))
  /\ regionBegin' = 0 /\ regionEnd' = 0 /\ digits' = 0
  /\ State' = "ParseEnd"
  /\ UNCHANGED <<kernelVars, lines>>

\* A digit of the end is shifted in.
ParseEndDigit ==
  /\ Parse("ParseEnd") /\ digits < 2
  /\ \E v \in lines : IsCurrent(v) /\ regionEnd' = 16 * regionEnd + Digit(v.end)
  /\ digits' = digits + 1
  /\ UNCHANGED <<kernelVars, lines, State, regionBegin, stealVars>>

\* Bug: the ' ' is skipped and the state left as it is.
ParseSpaceStays ==
  /\ Parse("ParseEnd") /\ digits = 2
  /\ UNCHANGED <<kernelVars, lines, State, digits, regionBegin, regionEnd, stealVars>>

\* ' ': RegionEnd is complete.
ParseSpace ==
  /\ Parse("ParseEnd") /\ digits = 2
  /\ State' = "ScanEnd" /\ digits' = 0
  /\ UNCHANGED <<kernelVars, lines, regionBegin, regionEnd, stealVars>>

\* Bug: RegionEnd is reset at the end of the line.
ScanNewlineResets ==
  /\ Parse("ScanEnd")
  /\ \E v \in lines : IsCurrent(v) /\ lines' = lines \ {v}
  /\ State' = "ParseBegin" /\ regionEnd' = 0
  /\ UNCHANGED <<kernelVars, digits, regionBegin, stealVars>>

\* The end of the line.
ScanNewline ==
  /\ Parse("ScanEnd")
  /\ \E v \in lines : IsCurrent(v) /\ lines' = lines \ {v}
  /\ State' = "ParseBegin"
  /\ UNCHANGED <<kernelVars, digits, regionBegin, regionEnd, stealVars>>

\* read() has returned 0 at the start of a line: steal the tail of the window
\* and hand Root over.
EndOfFile ==
  /\ State = "ParseBegin" /\ remaining = 0
  /\ lines = {} /\ Upcoming = {}
  /\ Steal(Max2(regionEnd, Begin), WindowEnd)
  /\ State' = "Grabbed"
  /\ UNCHANGED <<kernelVars, lines, remaining, digits, regionBegin, regionEnd>>

Next == /\ damage # "lost"
        /\ \/ ReadMaps \/ ParseBeginDigit \/ ParseDash \/ ParseEndDigit \/ ParseSpace
           \/ ScanNewline \/ EndOfFile

Spec == Init /\ [][Next]_vars

\* One thread that runs until AfterGrab, and reads that return.
FairSpec == Spec /\ WF_vars(Next)
-----------------------------------------------------------------------------
Intervals == [begin : Nat, end : Nat]

TypeOK == /\ vmas \in Layouts
          /\ mapped \subseteq Intervals /\ stolen \subseteq Intervals
          /\ fetched \in Nat
          /\ lines \subseteq Intervals
          /\ remaining \in Nat
          /\ State \in {"ParseBegin", "ParseEnd", "ScanEnd", "Grabbed"}
          /\ digits \in 0 .. 2 /\ regionBegin \in Nat /\ regionEnd \in Nat
          /\ DOMAIN root \subseteq Nat /\ position \in Nat
          /\ damage \in {"none", "end", "lost"}

\* MAP_FIXED destroys what it lands on: the parser never asks for a page that
\* was mapped, nor for one outside its window, however its reads are cut.
NeverOvermaps ==
  /\ PagesOf(stolen) \cap PagesOf(vmas) = {}
  /\ PagesOf(stolen) \subseteq Begin .. End - 1

\* No page is asked for twice, and the parser's own mappings never come back
\* to it as lines of the file it is still reading.
NeverTwice ==
  /\ \A r, s \in stolen : r = s \/ r.end <= s.begin \/ s.end <= r.begin
  /\ lines \cap stolen = {}

\* No write to a bucket is outside of its array (PtrSize).
InBounds == DOMAIN root \subseteq 0 .. BucketWords - 1

\* The array has two words for a region and one for the 0 behind the last.
Fits == 2 * Cardinality(stolen) <= BucketEntries

\* The array holds half the regions that BucketEntries says, 16 of 32, and not
\* one more: it is then that the stores leave it.
ArrayHoldsHalf == InBounds <=> Fits

\* The regions that can be read back from Root: pairs of words up to the first 0.
Told == {Interval(root[2 * k], root[2 * k] + root[2 * k + 1]) :
           k \in {k \in 0 .. BucketEntries : /\ 2 * k + 1 < BucketWords
                                            /\ \A j \in 0 .. k : 2 * j \in DOMAIN root /\ root[2 * j] # 0}}

\* As long as they fit, AfterGrab gets exactly what was asked for, whether or not
\* the mmap succeeded, and a 0 behind the last region.
RootTellsStolen == Fits => Told = stolen /\ (stolen # {} => root[position] = 0)

\* The parser gets through the file, although the file grows with every hole
\* it fills, unless the stores past the array make it lose its way.
Terminates == <>(State = "Grabbed" \/ damage = "lost")

\* What the parser asks for is the reservation, one hole at a time.  It may be
\* done without having filled its window only when stores went past the array.
Promise == INSTANCE Reservation WITH
             Window <- Begin .. End - 1, used <- PagesOf(vmas),
             reserved <- PagesOf(stolen), done <- State = "Grabbed" /\ InBounds
ImplementsReservation == Promise!AbsSpec
=============================================================================
