-------------------------- MODULE ReservationProofs --------------------------
(***************************************************************************)
(* Theorems about the two programs that implement Reservation.             *)
(*                                                                         *)
(* StealMemoryRegion, for every address space the process may start with,  *)
(* every window and every way the reads are cut: what is stolen (IInv),    *)
(* how far the window is covered (CoveredSoFar), and what of it the first  *)
(* bucket tells (Bucketed).                                                *)
(*                                                                         *)
(* ReserveAddressSpace, for every set of pages and every set of            *)
(* power-of-two sizes: what is left when a length has been tried           *)
(* (HalvingInv).                                                           *)
(***************************************************************************)
EXTENDS StealMemoryRegion, ReserveAddressSpace, FiniteSetTheorems, TLAPS

ParserTypes == /\ vmas \in Layouts
               /\ stolen \subseteq Intervals
               /\ fetched \in Nat /\ digits \in 0 .. 2
               /\ regionBegin \in Nat /\ regionEnd \in Nat
               /\ State \in {"ParseBegin", "ParseEnd", "ScanEnd", "Grabbed"}
               /\ damage \in {"none", "end", "lost"}

\* What the parser is through with: nothing it may still steal reaches below.
Behind(x) == /\ x.end <= fetched
             /\ State = "ParseBegin" => x.end <= regionEnd
             /\ \A u \in lines : x.end <= u.begin

\* The lines are the mappings below fetched that are not behind the parser.
LinesInOrder == /\ lines \subseteq vmas
                /\ \A u \in lines : u.end <= fetched
                /\ \A v \in vmas : v.begin < fetched => v \in lines \/ Behind(v)

\* What has been shifted in of the number n that the parser is at.
Prefix(n) == CASE digits = 0 -> 0 [] digits = 1 -> n \div 16 [] OTHER -> n

\* Each number grows by its digits, wherever the reads cut it, and RegionEnd stays
\* until the next '-'.
CurrentLine == /\ State \in {"ParseEnd", "ScanEnd"} \/ digits # 0 => lines # {}
               /\ State = "ParseBegin" =>
                    /\ digits = 0 => regionBegin = 0
                    /\ \A v \in lines : IsCurrent(v) => regionBegin = Prefix(v.begin)
               /\ State # "ParseBegin" => regionBegin = 0
               /\ State = "ParseEnd" => \A v \in lines : IsCurrent(v) => regionEnd = Prefix(v.end)
               /\ State = "ScanEnd" => \A v \in lines : IsCurrent(v) => regionEnd = v.end
               /\ State \in {"ScanEnd", "Grabbed"} => digits = 0

\* What has been stolen so far lies behind the parser as well.
StolenBehind == /\ mapped \subseteq stolen
                /\ State # "Grabbed" => \A r \in stolen : Behind(r)
                /\ State = "Grabbed" => lines = {}

StolenApart == /\ \A r \in stolen : /\ r.begin < r.end /\ r.begin >= Begin /\ r.end <= End
                                    /\ \A v \in vmas : r.end <= v.begin \/ v.end <= r.begin
               /\ \A r, s \in stolen : r = s \/ r.end <= s.begin \/ s.end <= r.begin

IInv == /\ ParserTypes
        /\ LinesInOrder /\ CurrentLine /\ StolenBehind /\ StolenApart

\* The mappings of a layout are nonempty and disjoint.
LEMMA VmasApart ==
  ASSUME vmas \in Layouts
  PROVE  /\ \A u \in vmas : u \in Intervals /\ u.begin < u.end
         /\ \A u, v \in vmas : u = v \/ u.end <= v.begin \/ v.end <= u.begin
  BY LayoutsAssumption DEF Intervals

LEMMA LeastNumber ==
  ASSUME NEW T, T \subseteq Nat, T # {}
  PROVE  \E x \in T : \A y \in T : x <= y
<1> DEFINE R == OpToRel(<, Nat)
<1>1. IsWellFoundedOn(R, Nat)
  BY NatLessThanWellFounded, Zenon
<1> HIDE DEF R
<1>2. PICK x \in T : \A y \in T : ~ (<<y, x>> \in R)
  BY <1>1, WFMin, Zenon
<1>3. ASSUME NEW y \in T PROVE x \in Nat /\ y \in Nat /\ ~(y < x)
  <2>1. <<y, x>> \notin R
    BY <1>2, Zenon
  <2>2. x \in Nat /\ y \in Nat
    BY <1>2
  <2>3. y < x => <<y, x>> \in R
    BY <2>2 DEF R, OpToRel
  <2> QED
    BY <2>1, <2>2, <2>3
<1> QED
  BY <1>2, <1>3

\* Of some mappings one is the first.
LEMMA FirstMapping ==
  ASSUME NEW S, S \subseteq Intervals, S # {}
  PROVE  \E v \in S : \A u \in S : v.begin <= u.begin
<1> DEFINE T == {u.begin : u \in S}
<1>1. T \subseteq Nat /\ T # {}
  BY DEF Intervals
<1> HIDE DEF T
<1>2. PICK x \in T : \A y \in T : x <= y
  BY <1>1, LeastNumber, Zenon
<1> USE DEF T
<1> QED
  BY <1>2

LEMMA TwoDigits ==
  ASSUME NEW n \in Nat
  PROVE  n \div 16 \in Nat /\ n % 16 \in Nat /\ 16 * (n \div 16) + (n % 16) = n
  OBVIOUS

\* A digit makes a prefix of the number the next longer one.
LEMMA Shifted ==
  ASSUME NEW n \in Nat, digits \in 0 .. 1, digits' = digits + 1
  PROVE  16 * Prefix(n) + Digit(n) \in Nat /\ 16 * Prefix(n) + Digit(n) = Prefix(n)'
  BY TwoDigits DEF Prefix, Digit

\* A read shows no mapping but those the process started with.
LEMMA UpcomingAreVmas ==
  ASSUME IInv, State # "Grabbed"
  PROVE  Upcoming = {v \in vmas : v.begin >= fetched}
<1>1. \A r \in stolen : r \in Intervals /\ r.begin < r.end /\ r.end <= fetched
  BY DEF IInv, ParserTypes, StolenBehind, Behind, StolenApart
<1>2. \A r \in stolen : ~(r.begin >= fetched)
  BY <1>1 DEF IInv, ParserTypes, Intervals
<1>3. QED
  BY <1>2 DEF IInv, StolenBehind, Upcoming

\* A read leaves the line being parsed the first one.
LEMMA ReadKeepsCurrent ==
  ASSUME IInv, ReadMaps, lines # {}, NEW v, IsCurrent(v)'
  PROVE  IsCurrent(v)
<1>1. PICK new \in SUBSET Upcoming : lines' = lines \cup new
  BY DEF ReadMaps, Refill
<1>2. Upcoming = {u \in vmas : u.begin >= fetched}
  BY UpcomingAreVmas DEF ReadMaps, Refill
<1>3. /\ \A u \in vmas : u.begin \in Nat /\ u.end \in Nat /\ u.begin < u.end
      /\ fetched \in Nat /\ lines \subseteq vmas
  BY VmasApart DEF IInv, ParserTypes, Intervals, LinesInOrder
<1>4. PICK u \in lines : TRUE
  OBVIOUS
<1>5. u.begin < fetched /\ v.begin <= u.begin
  BY <1>1, <1>3, <1>4 DEF IsCurrent, IInv, LinesInOrder
<1>6. v \in lines
  BY <1>1, <1>2, <1>3, <1>4, <1>5 DEF IsCurrent
<1>7. QED
  BY <1>1, <1>6 DEF IsCurrent

\* Stealing from one point to another keeps the stolen regions apart from the
\* mappings and from each other when both sides are on the right side of it.
LEMMA StealKeepsApart ==
  ASSUME IInv, NEW from \in Nat, NEW to \in Nat, Steal(from, to), UNCHANGED vmas,
         from >= Begin, to <= End,
         \A v \in vmas : v.end <= from \/ to <= v.begin,
         \A r \in stolen : r.end <= from
  PROVE  /\ StolenApart' /\ stolen' \subseteq Intervals /\ mapped' \subseteq stolen'
         /\ \A r \in stolen' : r \in stolen \/ (r.end = to /\ r.begin < to)
         /\ damage' \in {"none", "end", "lost"}
<1>1. CASE to <= from
  <2>1. UNCHANGED <<mapped, stolen, damage>>
    BY <1>1 DEF Steal, stealVars
  <2>2. QED
    BY <2>1 DEF IInv, StolenApart, ParserTypes, StolenBehind
<1>2. CASE to > from
  <2> DEFINE r == Interval(from, to)
  <2>1. r \in Intervals /\ r.begin = from /\ r.end = to
    BY DEF Interval, Intervals
  <2>2. stolen' = stolen \cup {r} /\ mapped' \subseteq mapped \cup {r}
    BY <1>2 DEF Steal, Mmap
  <2>3. \A s \in stolen : s \in Intervals
    BY DEF IInv, ParserTypes
  <2>4. /\ r.begin < r.end /\ r.begin >= Begin /\ r.end <= End
        /\ \A v \in vmas : r.end <= v.begin \/ v.end <= r.begin
    BY <1>2, <2>1
  <2>5. \A s \in stolen : s.end <= r.begin
    BY <2>1
  <2> HIDE DEF r
  <2>6. StolenApart'
    BY <2>2, <2>4, <2>5 DEF IInv, StolenApart
  <2>7. damage' \in {"none", "end", "lost"}
    BY <1>2 DEF Steal, StoreRegion, IInv, ParserTypes
  <2>8. QED
    BY <1>2, <2>1, <2>2, <2>6, <2>7 DEF IInv, ParserTypes, StolenBehind
<1>3. QED
  BY <1>1, <1>2

LEMMA Inductive == Spec => []IInv
<1>1. Init => IInv
  <2> SUFFICES ASSUME Init PROVE IInv
    OBVIOUS
  <2>1. ParserTypes
    BY DEF Init, ParserTypes
  <2>2. \A v \in vmas : ~(v.begin < fetched)
    BY <2>1, VmasApart DEF ParserTypes, Init, Intervals
  <2>3. \A n : Prefix(n) = 0
    BY DEF Init, Prefix
  <2>4. QED
    BY <2>1, <2>2, <2>3 DEF Init, IInv, LinesInOrder, CurrentLine, StolenBehind, StolenApart
<1>2. IInv /\ [Next]_vars => IInv'
  <2> SUFFICES ASSUME IInv, [Next]_vars PROVE IInv'
    OBVIOUS
  <2>0. /\ \A u \in vmas : u.begin \in Nat /\ u.end \in Nat /\ u.begin < u.end
        /\ \A u, v \in vmas : u = v \/ u.end <= v.begin \/ v.end <= u.begin
        /\ fetched \in Nat /\ regionEnd \in Nat /\ lines \subseteq vmas
        /\ \A u \in stolen : u.begin \in Nat /\ u.end \in Nat /\ u.begin < u.end
    BY VmasApart DEF IInv, ParserTypes, Intervals, LinesInOrder, StolenApart
  <2>1. CASE ReadMaps
    <3>1. /\ State # "Grabbed"
          /\ UNCHANGED <<vmas, State, digits, regionBegin, regionEnd, mapped, stolen, damage>>
      BY <2>1 DEF ReadMaps, Refill, stealVars
    <3>2. PICK new \in SUBSET Upcoming :
            /\ \A u \in new : \A v \in Upcoming \ new : u.begin < v.begin
            /\ lines' = lines \cup new
            /\ IF new = {} THEN UNCHANGED fetched
               ELSE \E last \in new : /\ \A u \in new : u.end <= last.end
                                      /\ fetched' = last.end
      BY <2>1 DEF ReadMaps, Refill
    <3>3. Upcoming = {v \in vmas : v.begin >= fetched}
      BY <3>1, UpcomingAreVmas
    <3>4. new \subseteq vmas /\ \A u \in new : u.begin >= fetched
      BY <3>2, <3>3
    <3>5. fetched' \in Nat /\ fetched' >= fetched /\ \A u \in new : u.end <= fetched'
      BY <2>0, <3>2, <3>4
    <3>6. \A v \in vmas : v.begin < fetched' => v.begin < fetched \/ v \in new
      <4>1. SUFFICES ASSUME NEW v \in vmas, v.begin >= fetched, v \notin new
                     PROVE  ~(v.begin < fetched')
        BY <2>0
      <4>2. CASE new = {}
        BY <2>0, <3>2, <4>1, <4>2
      <4>3. CASE new # {}
        <5>1. PICK last \in new : fetched' = last.end
          BY <3>2, <4>3
        <5>2. last.begin < v.begin
          BY <3>2, <3>3, <4>1
        <5>3. QED
          BY <2>0, <3>4, <4>1, <5>1, <5>2
      <4>4. QED
        BY <4>2, <4>3
    <3>7. \A x : x.end \in Nat /\ Behind(x) => Behind(x)'
      BY <2>0, <3>1, <3>2, <3>4, <3>5 DEF Behind
    <3>8. LinesInOrder'
      <4>1. \A u \in lines' : u.end <= fetched'
        BY <2>0, <3>2, <3>4, <3>5 DEF IInv, LinesInOrder
      <4>2. QED
        BY <2>0, <3>1, <3>2, <3>4, <3>6, <3>7, <4>1 DEF IInv, LinesInOrder
    <3>9. CurrentLine'
      <4>1. \A v : lines # {} /\ IsCurrent(v)' => IsCurrent(v)
        BY <2>1, ReadKeepsCurrent
      <4>2. lines # {} => lines' # {}
        BY <3>2
      <4>3. \A v : v \in lines' /\ IsCurrent(v)' => lines = {} \/ (v \in lines /\ IsCurrent(v))
        BY <4>1 DEF IsCurrent
      <4>4. \A n : Prefix(n)' = Prefix(n)
        BY <3>1 DEF Prefix
      <4>5. digits = 0 => \A n : Prefix(n) = 0
        BY DEF Prefix
      <4>6. QED
        BY <3>1, <4>2, <4>3, <4>4, <4>5 DEF IInv, CurrentLine
    <3>10. StolenBehind'
      BY <2>0, <3>1, <3>7 DEF IInv, StolenBehind
    <3>11. QED
      BY <3>1, <3>5, <3>8, <3>9, <3>10 DEF IInv, ParserTypes, StolenApart
  <2>2. CASE ParseDash
    <3>1. /\ State = "ParseBegin" /\ State' = "ParseEnd" /\ digits = 2 /\ digits' = 0
          /\ regionBegin' = 0 /\ regionEnd' = 0
          /\ UNCHANGED <<vmas, fetched, lines>>
      BY <2>2 DEF ParseDash, Parse, kernelVars
    <3> DEFINE from == Max2(regionEnd, Begin)
    <3> DEFINE to == Min2(regionBegin, WindowEnd)
    <3>2. PICK v \in lines : IsCurrent(v) /\ regionBegin = v.begin
      <4>1. lines # {} /\ lines \subseteq Intervals
        BY <2>0, <3>1, VmasApart DEF IInv, CurrentLine, ParserTypes
      <4>2. PICK v \in lines : IsCurrent(v)
        BY <4>1, FirstMapping DEF IsCurrent
      <4>3. regionBegin = Prefix(v.begin)
        BY <3>1, <4>2 DEF IInv, CurrentLine
      <4> QED
        BY <3>1, <4>2, <4>3 DEF Prefix
    <3>3. /\ from \in Nat /\ from >= Begin /\ from >= regionEnd
          /\ to \in Nat /\ to <= End /\ to <= v.begin /\ v \in vmas
      BY <2>0, <3>2, WindowAssumption DEF Max2, Min2, WindowEnd
    <3>12. Steal(from, to)
      BY <2>2 DEF ParseDash
    <3> HIDE DEF from, to
    <3>4. \A w \in vmas : w.end <= from \/ to <= w.begin
      <4>1. SUFFICES ASSUME NEW w \in vmas PROVE w.end <= from \/ to <= w.begin
        OBVIOUS
      <4>2. CASE w \in lines
        BY <2>0, <3>2, <3>3, <4>2 DEF IsCurrent
      <4>3. CASE w.begin < fetched /\ w \notin lines
        BY <2>0, <3>1, <3>3, <4>3 DEF IInv, LinesInOrder, Behind
      <4>4. CASE ~(w.begin < fetched)
        BY <2>0, <3>3, <4>4 DEF IInv, LinesInOrder
      <4>5. QED
        BY <4>2, <4>3, <4>4
    <3>5. \A r \in stolen : r.end <= from
      BY <2>0, <3>1, <3>3 DEF IInv, StolenBehind, Behind
    <3>6. /\ StolenApart' /\ stolen' \subseteq Intervals /\ mapped' \subseteq stolen'
          /\ damage' \in {"none", "end", "lost"}
      BY <3>1, <3>3, <3>4, <3>5, <3>12, StealKeepsApart
    <3>7. \A r \in stolen' : r \in stolen \/ (r.end = to /\ r.begin < to)
      BY <3>1, <3>3, <3>4, <3>5, <3>12, StealKeepsApart
    <3>8. \A x : Behind(x) => Behind(x)'
      BY <3>1 DEF Behind
    <3>9. \A r \in stolen' : Behind(r)'
      <4>1. SUFFICES ASSUME NEW r \in stolen', r.end = to PROVE Behind(r)'
        BY <3>1, <3>7, <3>8 DEF IInv, StolenBehind
      <4>2. \A u \in lines : v.begin <= u.begin
        BY <3>2 DEF IsCurrent
      <4>3. to <= fetched /\ \A u \in lines : to <= u.begin
        BY <2>0, <3>3, <4>2 DEF IInv, LinesInOrder
      <4>4. QED
        BY <3>1, <4>1, <4>3 DEF Behind
    <3>10. LinesInOrder'
      BY <3>1, <3>8 DEF IInv, LinesInOrder
    <3>11. CurrentLine'
      <4>1. \A n : Prefix(n)' = 0
        BY <3>1 DEF Prefix
      <4>2. lines # {}
        BY <3>2
      <4> QED
        BY <3>1, <4>1, <4>2 DEF CurrentLine
    <3>13. QED
      BY <3>1, <3>6, <3>9, <3>10, <3>11 DEF IInv, ParserTypes, StolenBehind
  <2>3. CASE ParseSpace
    <3>1. /\ State = "ParseEnd" /\ State' = "ScanEnd" /\ digits = 2 /\ digits' = 0
          /\ UNCHANGED <<vmas, fetched, lines, regionBegin, regionEnd, mapped, stolen, damage>>
      BY <2>3 DEF ParseSpace, Parse, kernelVars, stealVars
    <3>2. \A x : Behind(x) => Behind(x)'
      BY <3>1 DEF Behind
    <3>3. LinesInOrder' /\ StolenBehind' /\ StolenApart'
      BY <3>1, <3>2 DEF IInv, LinesInOrder, StolenBehind, StolenApart
    <3>4. \A v \in lines' : IsCurrent(v)' => IsCurrent(v) /\ Prefix(v.end) = v.end
      BY <3>1 DEF IsCurrent, Prefix
    <3>5. CurrentLine'
      BY <3>1, <3>4 DEF IInv, CurrentLine
    <3>6. QED
      BY <3>1, <3>3, <3>5 DEF IInv, ParserTypes
  <2>8. CASE ParseBeginDigit
    <3>1. /\ State = "ParseBegin" /\ digits \in 0 .. 1 /\ digits' = digits + 1
          /\ UNCHANGED <<vmas, fetched, lines, State, regionEnd, mapped, stolen, damage>>
      BY <2>8 DEF ParseBeginDigit, Parse, kernelVars, stealVars, IInv, ParserTypes
    <3>2. PICK v \in lines : IsCurrent(v) /\ regionBegin' = 16 * regionBegin + Digit(v.begin)
      BY <2>8 DEF ParseBeginDigit
    <3>3. regionBegin = Prefix(v.begin)
      BY <3>1, <3>2 DEF IInv, CurrentLine
    <3>4. v.begin \in Nat
      BY <2>0
    <3>5. regionBegin' \in Nat /\ regionBegin' = Prefix(v.begin)'
      BY <3>1, <3>2, <3>3, <3>4, Shifted
    <3>6. \A x : Behind(x) => Behind(x)'
      BY <3>1 DEF Behind
    <3>7. LinesInOrder' /\ StolenBehind' /\ StolenApart'
      BY <3>1, <3>6 DEF IInv, LinesInOrder, StolenBehind, StolenApart
    <3>8. \A u \in lines' : IsCurrent(u)' => u = v
      BY <2>0, <3>1, <3>2 DEF IsCurrent
    <3>9. digits' # 0 /\ digits' \in 0 .. 2
      BY <3>1
    <3>10. CurrentLine'
      BY <3>1, <3>2, <3>5, <3>8, <3>9 DEF CurrentLine
    <3>11. QED
      BY <3>1, <3>5, <3>7, <3>9, <3>10 DEF IInv, ParserTypes
  <2>9. CASE ParseEndDigit
    <3>1. /\ State = "ParseEnd" /\ digits \in 0 .. 1 /\ digits' = digits + 1
          /\ UNCHANGED <<vmas, fetched, lines, State, regionBegin, mapped, stolen, damage>>
      BY <2>9 DEF ParseEndDigit, Parse, kernelVars, stealVars, IInv, ParserTypes
    <3>2. PICK v \in lines : IsCurrent(v) /\ regionEnd' = 16 * regionEnd + Digit(v.end)
      BY <2>9 DEF ParseEndDigit
    <3>3. regionEnd = Prefix(v.end)
      BY <3>1, <3>2 DEF IInv, CurrentLine
    <3>4. v.end \in Nat
      BY <2>0
    <3>5. regionEnd' \in Nat /\ regionEnd' = Prefix(v.end)'
      BY <3>1, <3>2, <3>3, <3>4, Shifted
    <3>6. \A x : Behind(x) => Behind(x)'
      BY <3>1 DEF Behind
    <3>7. LinesInOrder' /\ StolenBehind' /\ StolenApart'
      BY <3>1, <3>6 DEF IInv, LinesInOrder, StolenBehind, StolenApart
    <3>8. \A u \in lines' : IsCurrent(u)' => u = v
      BY <2>0, <3>1, <3>2 DEF IsCurrent
    <3>9. regionBegin' = 0 /\ digits' \in 0 .. 2
      BY <3>1 DEF IInv, CurrentLine
    <3>10. CurrentLine'
      BY <3>1, <3>2, <3>5, <3>8, <3>9 DEF CurrentLine
    <3>11. QED
      BY <3>1, <3>5, <3>7, <3>9, <3>10 DEF IInv, ParserTypes
  <2>4. CASE ScanNewline
    <3>1. /\ State = "ScanEnd" /\ State' = "ParseBegin"
          /\ UNCHANGED <<vmas, fetched, digits, regionBegin, regionEnd, mapped, stolen, damage>>
      BY <2>4 DEF ScanNewline, Parse, kernelVars, stealVars
    <3>2. PICK v \in lines : IsCurrent(v) /\ lines' = lines \ {v}
      BY <2>4 DEF ScanNewline
    <3>3. regionEnd = v.end
      BY <3>1, <3>2 DEF IInv, CurrentLine
    <3>4. \A x : x.end \in Nat /\ Behind(x) => Behind(x)'
      BY <2>0, <3>1, <3>2, <3>3 DEF Behind
    <3>5. \A u \in lines \ {v} : v.end <= u.begin
      BY <2>0, <3>2 DEF IsCurrent
    <3>6. Behind(v)'
      BY <2>0, <3>1, <3>2, <3>3, <3>5 DEF Behind, IInv, LinesInOrder
    <3>7. LinesInOrder'
      BY <2>0, <3>1, <3>2, <3>4, <3>6 DEF IInv, LinesInOrder
    <3>8. StolenBehind' /\ StolenApart'
      BY <2>0, <3>1, <3>4 DEF IInv, StolenBehind, StolenApart
    <3>9. digits' = 0 /\ regionBegin' = 0 /\ \A n : Prefix(n)' = 0
      BY <3>1 DEF IInv, CurrentLine, Prefix
    <3>10. CurrentLine'
      BY <3>1, <3>9 DEF CurrentLine
    <3>11. QED
      BY <3>1, <3>7, <3>8, <3>10 DEF IInv, ParserTypes
  <2>5. CASE EndOfFile
    <3>1. /\ State = "ParseBegin" /\ State' = "Grabbed" /\ lines = {} /\ Upcoming = {}
          /\ UNCHANGED <<vmas, fetched, lines, digits, regionBegin, regionEnd>>
      BY <2>5 DEF EndOfFile, kernelVars
    <3> DEFINE from == Max2(regionEnd, Begin)
    <3> DEFINE to == WindowEnd
    <3>2. Steal(from, to)
      BY <2>5 DEF EndOfFile
    <3>3. from \in Nat /\ from >= Begin /\ from >= regionEnd /\ to \in Nat /\ to <= End
      BY <2>0, WindowAssumption DEF Max2, WindowEnd
    <3> HIDE DEF from, to
    <3>4. \A w \in vmas : w.end <= from
      <4>1. SUFFICES ASSUME NEW w \in vmas PROVE w.end <= regionEnd
        BY <2>0, <3>3
      <4>2. w.begin < fetched
        BY <2>0, <3>1 DEF Upcoming
      <4>3. QED
        BY <3>1, <4>2 DEF IInv, LinesInOrder, Behind
    <3>5. \A r \in stolen : r.end <= from
      BY <2>0, <3>1, <3>3 DEF IInv, StolenBehind, Behind
    <3>6. /\ StolenApart' /\ stolen' \subseteq Intervals /\ mapped' \subseteq stolen'
          /\ damage' \in {"none", "end", "lost"}
      BY <3>1, <3>2, <3>3, <3>4, <3>5, StealKeepsApart
    <3>7. \A v \in vmas : Behind(v) => Behind(v)'
      BY <3>1 DEF Behind
    <3>8. LinesInOrder'
      BY <3>1, <3>7 DEF IInv, LinesInOrder
    <3>9. CurrentLine'
      BY <3>1 DEF IInv, CurrentLine
    <3>10. QED
      BY <3>1, <3>6, <3>8, <3>9 DEF IInv, ParserTypes, StolenBehind
  <2>6. CASE UNCHANGED vars
    <3>1. UNCHANGED <<vmas, mapped, stolen, fetched, lines, State, digits, regionBegin, regionEnd, damage>>
      BY <2>6 DEF vars, kernelVars, parserVars, stealVars
    <3>2. ParserTypes' /\ StolenApart'
      BY <3>1 DEF IInv, ParserTypes, StolenApart
    <3>3. LinesInOrder' /\ StolenBehind'
      BY <3>1 DEF IInv, LinesInOrder, StolenBehind, Behind
    <3>4. CurrentLine'
      BY <3>1 DEF IInv, CurrentLine, IsCurrent, Prefix
    <3>5. QED
      BY <3>2, <3>3, <3>4 DEF IInv
  <2>7. QED
    BY <2>1, <2>2, <2>3, <2>4, <2>5, <2>6, <2>8, <2>9 DEF Next
<1>3. QED
  BY <1>1, <1>2, PTL DEF Spec

\* MAP_FIXED never lands on a mapping nor outside of the window, for every
\* address space and window and wherever the reads are cut, inside a number too.
THEOREM SparesMappings == Spec => []NeverOvermaps
<1>1. IInv => NeverOvermaps
  <2> SUFFICES ASSUME IInv PROVE NeverOvermaps
    OBVIOUS
  <2>1. \A v \in vmas : v.begin \in Nat /\ v.end \in Nat
    BY VmasApart DEF IInv, ParserTypes, Intervals
  <2>2. \A r \in stolen : r.begin \in Nat /\ r.end \in Nat
    BY DEF IInv, ParserTypes, Intervals
  <2>3. PagesOf(stolen) \cap PagesOf(vmas) = {}
    <3>1. SUFFICES ASSUME NEW r \in stolen, NEW v \in vmas,
                          NEW p \in r.begin .. r.end - 1, p \in v.begin .. v.end - 1
                   PROVE  FALSE
      BY DEF PagesOf
    <3>2. r.end <= v.begin \/ v.end <= r.begin
      BY DEF IInv, StolenApart
    <3>3. QED
      BY <2>1, <2>2, <3>1, <3>2
  <2>4. PagesOf(stolen) \subseteq Begin .. End - 1
    BY <2>2, WindowAssumption DEF PagesOf, IInv, StolenApart
  <2>5. QED
    BY <2>3, <2>4 DEF NeverOvermaps
<1>2. QED
  BY <1>1, Inductive, PTL

\* No page is asked for twice, and no read shows the parser what it mapped.
THEOREM StealsOnce == Spec => []NeverTwice
<1>1. IInv => NeverTwice
  <2> SUFFICES ASSUME IInv PROVE NeverTwice
    OBVIOUS
  <2>1. \A r \in stolen : r.begin \in Nat /\ r.end \in Nat /\ r.begin < r.end
    BY DEF IInv, ParserTypes, Intervals, StolenApart
  <2>2. ASSUME NEW r \in lines, r \in stolen PROVE FALSE
    BY <2>1, <2>2 DEF IInv, StolenBehind, Behind
  <2>3. QED
    BY <2>2 DEF IInv, StolenApart, NeverTwice
<1>2. QED
  BY <1>1, Inductive, PTL

\* Every page of the window below x was mapped or has been stolen.
Covered(x) == \A p \in Begin .. End - 1 : p < x => p \in PagesOf(vmas) \cup PagesOf(stolen)

\* How far the window is covered: up to the line being parsed, or through it, as
\* long as the parameter End is what it was.
CoveredSoFar == damage = "none" =>
                  /\ State \in {"ParseBegin", "ScanEnd"} => Covered(regionEnd)
                  /\ State = "ParseEnd" => \A v \in lines : IsCurrent(v) => Covered(v.begin)
                  /\ State = "Grabbed" => Covered(End)

\* Stealing closes the gap between two points.
LEMMA StealCovers ==
  ASSUME NEW from \in Nat, NEW to \in Nat, Steal(from, to), UNCHANGED vmas
  PROVE  /\ PagesOf(stolen) \subseteq PagesOf(stolen')
         /\ \A p \in from .. to - 1 : p \in PagesOf(stolen')
<1>1. CASE to <= from
  BY <1>1 DEF Steal, stealVars
<1>2. CASE to > from
  <2>1. stolen' = stolen \cup {Interval(from, to)}
    BY <1>2 DEF Steal, Mmap
  <2>2. PagesOf(stolen) \subseteq PagesOf(stolen')
    BY <2>1 DEF PagesOf
  <2>3. Interval(from, to).begin = from /\ Interval(from, to).end = to
    BY DEF Interval
  <2>4. \A p \in from .. to - 1 : p \in PagesOf(stolen')
    BY <2>1, <2>3 DEF PagesOf
  <2>5. QED
    BY <2>2, <2>4
<1>3. QED
  BY <1>1, <1>2

\* What has been hit stays hit.
LEMMA DamageStays == [Next]_vars => (damage' = "none" => damage = "none")
<1> SUFFICES ASSUME [Next]_vars, damage' = "none" PROVE damage = "none"
  OBVIOUS
<1>1. \A from, to : Steal(from, to) => damage = "none"
  BY DEF Steal, StoreRegion, stealVars
<1>2. QED
  BY <1>1 DEF Next, ReadMaps, Refill, ParseBeginDigit, ParseDash, ParseEndDigit, ParseSpace, ScanNewline,
              EndOfFile, vars, stealVars

LEMMA CoverageStep == IInv /\ IInv' /\ CoveredSoFar /\ [Next]_vars => CoveredSoFar'
<1> SUFFICES ASSUME IInv, IInv', CoveredSoFar, [Next]_vars, damage' = "none" PROVE CoveredSoFar'
  BY DEF CoveredSoFar
<1>0. /\ \A u \in vmas : u.begin \in Nat /\ u.end \in Nat /\ u.begin < u.end
      /\ regionEnd \in Nat /\ lines \subseteq vmas /\ Begin \in Nat /\ End \in Nat
  BY VmasApart, WindowAssumption DEF IInv, ParserTypes, Intervals, LinesInOrder
<1>7. damage = "none"
  BY DamageStays
<1>8. WindowEnd = End
  BY <1>7 DEF WindowEnd
<1>1. CASE ReadMaps
  <2>1. UNCHANGED <<vmas, stolen, State, regionEnd>>
    BY <1>1 DEF ReadMaps, Refill, stealVars
  <2>2. \A x : Covered(x) => Covered(x)'
    BY <2>1 DEF Covered
  <2>3. State = "ParseEnd" => lines # {} /\ \A v : IsCurrent(v)' => IsCurrent(v)
    BY <1>1, ReadKeepsCurrent DEF IInv, CurrentLine
  <2>4. State' = "ParseEnd" => \A v \in lines' : IsCurrent(v)' => Covered(v.begin)'
    BY <1>7, <2>1, <2>2, <2>3 DEF CoveredSoFar, IsCurrent
  <2>5. QED
    BY <1>7, <2>1, <2>2, <2>4 DEF CoveredSoFar
<1>2. CASE ParseDash
  <2> DEFINE from == Max2(regionEnd, Begin)
  <2> DEFINE to == Min2(regionBegin, End)
  <2>1. /\ State = "ParseBegin" /\ State' = "ParseEnd" /\ digits = 2
        /\ UNCHANGED <<vmas, lines>>
    BY <1>2 DEF ParseDash, Parse, kernelVars
  <2>2. regionBegin \in Nat
    BY DEF IInv, ParserTypes
  <2>3. /\ from \in Nat /\ to \in Nat
        /\ \A p \in Begin .. End - 1 : p < regionBegin => p < regionEnd \/ p \in from .. to - 1
    BY <1>0, <2>2 DEF Max2, Min2
  <2>4. Steal(from, to)
    BY <1>2, <1>8 DEF ParseDash
  <2> HIDE DEF from, to
  <2>5. /\ PagesOf(stolen) \subseteq PagesOf(stolen')
        /\ \A p \in from .. to - 1 : p \in PagesOf(stolen')
    BY <2>1, <2>3, <2>4, StealCovers
  <2>6. Covered(regionEnd)
    BY <1>7, <2>1 DEF CoveredSoFar
  <2>7. PICK x : x = regionBegin
    OBVIOUS
  <2>8. Covered(x)'
    <3>1. \A p \in Begin .. End - 1 : p < x => p \in PagesOf(vmas) \cup PagesOf(stolen')
      BY <2>3, <2>5, <2>6, <2>7 DEF Covered
    <3> QED
      BY <2>1, <3>1 DEF Covered
  <2>9. \A u \in lines' : IsCurrent(u)' => u.begin = x
    BY <2>1, <2>7 DEF IInv, CurrentLine, Prefix, IsCurrent
  <2>10. State' = "ParseEnd" => \A u \in lines' : IsCurrent(u)' => Covered(u.begin)'
    BY <2>8, <2>9
  <2>11. QED
    BY <2>1, <2>10 DEF CoveredSoFar
<1>3. CASE ParseBeginDigit
  <2>1. State = "ParseBegin" /\ UNCHANGED <<vmas, stolen, State, regionEnd>>
    BY <1>3 DEF ParseBeginDigit, Parse, kernelVars, stealVars
  <2>2. QED
    BY <1>7, <2>1 DEF CoveredSoFar, Covered
<1>4. CASE ParseEndDigit
  <2>1. State = "ParseEnd" /\ UNCHANGED <<vmas, stolen, State, lines>>
    BY <1>4 DEF ParseEndDigit, Parse, kernelVars, stealVars
  <2>2. QED
    BY <1>7, <2>1 DEF CoveredSoFar, Covered, IsCurrent
<1>9. CASE ParseSpace
  <2>1. /\ State = "ParseEnd" /\ State' = "ScanEnd"
        /\ UNCHANGED <<vmas, stolen, lines, regionEnd>>
    BY <1>9 DEF ParseSpace, Parse, kernelVars, stealVars
  <2>2. PICK v \in lines : IsCurrent(v)
    <3>1. lines # {} /\ lines \subseteq Intervals
      BY <1>0, <2>1, VmasApart DEF IInv, CurrentLine, ParserTypes
    <3> QED
      BY <3>1, FirstMapping DEF IsCurrent
  <2>3. regionEnd = v.end
    <3>1. IsCurrent(v)' /\ v \in lines'
      BY <2>1, <2>2 DEF IsCurrent
    <3>2. regionEnd' = v.end
      BY <2>1, <3>1 DEF IInv, CurrentLine
    <3> QED
      BY <2>1, <3>2
  <2>4. Covered(v.begin)
    BY <1>7, <2>1, <2>2 DEF CoveredSoFar
  <2>5. v.begin .. v.end - 1 \subseteq PagesOf(vmas)
    BY <1>0 DEF PagesOf
  <2>6. \A p \in Begin .. End - 1 : p < v.end => p < v.begin \/ p \in v.begin .. v.end - 1
    BY <1>0
  <2>7. Covered(v.end)
    BY <2>4, <2>5, <2>6 DEF Covered
  <2>8. QED
    BY <2>1, <2>3, <2>7 DEF CoveredSoFar, Covered
<1>10. CASE ScanNewline
  <2>1. /\ State = "ScanEnd" /\ State' = "ParseBegin"
        /\ UNCHANGED <<vmas, stolen, regionEnd>>
    BY <1>10 DEF ScanNewline, Parse, kernelVars, stealVars
  <2>2. QED
    BY <1>7, <2>1 DEF CoveredSoFar, Covered
<1>5. CASE EndOfFile
  <2> DEFINE from == Max2(regionEnd, Begin)
  <2>1. State = "ParseBegin" /\ State' = "Grabbed" /\ Steal(from, End) /\ UNCHANGED vmas
    BY <1>5, <1>8 DEF EndOfFile, kernelVars
  <2>2. /\ from \in Nat
        /\ \A p \in Begin .. End - 1 : p < regionEnd \/ p \in from .. End - 1
    BY <1>0 DEF Max2
  <2> HIDE DEF from
  <2>3. /\ PagesOf(stolen) \subseteq PagesOf(stolen')
        /\ \A p \in from .. End - 1 : p \in PagesOf(stolen')
    BY <1>0, <2>1, <2>2, StealCovers
  <2>4. Covered(End)'
    BY <1>7, <2>1, <2>2, <2>3 DEF CoveredSoFar, Covered
  <2>5. QED
    BY <2>1, <2>4 DEF CoveredSoFar
<1>6. CASE UNCHANGED vars
  BY <1>6 DEF vars, kernelVars, parserVars, stealVars, CoveredSoFar, Covered, IsCurrent
<1>11. QED
  BY <1>1, <1>2, <1>3, <1>4, <1>5, <1>6, <1>9, <1>10 DEF Next

LEMMA Coverage == Spec => []CoveredSoFar
<1>1. Init => CoveredSoFar
  BY WindowAssumption DEF Init, CoveredSoFar, Covered
<1>2. QED
  BY <1>1, Inductive, CoverageStep, PTL DEF Spec

-----------------------------------------------------------------------------
\* The words of a bucket, of any number; the regions lie in the even places.
Bucket == UNION {[D -> Nat] : D \in SUBSET Nat}
Region(k) == Interval(root[2 * k], root[2 * k] + root[2 * k + 1])

RegionsStored == \A k \in Nat : 2 * k < position => root[2 * k] # 0 /\ Region(k) \in stolen
StolenFound == \A r \in stolen : \E k \in Nat : 2 * k < position /\ r = Region(k)
Terminated == IF position = 0 THEN DOMAIN root = {}
              ELSE DOMAIN root = 0 .. position /\ root[position] = 0
DamageIsOverrun == damage = "none" <=> InBounds

\* Each stolen region has two words, and the last has a 0 behind it.
Bucketed == /\ root \in Bucket /\ IsFiniteSet(stolen) /\ position = 2 * Cardinality(stolen)
            /\ RegionsStored /\ StolenFound /\ Terminated /\ DamageIsOverrun

\* What one store and the stores of a region leave in a bucket.
LEMMA EmptyBucket == <<>> \in Bucket /\ DOMAIN <<>> = {}
  BY DEF Bucket

\* c is the bucket b but for the word w at p.
IsPut(c, b, p, w) == /\ c \in Bucket /\ DOMAIN c = DOMAIN b \cup {p}
                     /\ c[p] = w /\ \A x \in DOMAIN b \ {p} : c[x] = b[x]

LEMMA PutIs ==
  ASSUME NEW b \in Bucket, NEW p \in Nat, NEW w \in Nat
  PROVE  IsPut(Put(b, p, w), b, p, w)
<1> DEFINE c == Put(b, p, w)
<1>1. c = [x \in DOMAIN b \cup {p} |-> IF x = p THEN w ELSE b[x]]
  BY DEF Put
<1>2. DOMAIN b \subseteq Nat /\ \A x \in DOMAIN b : b[x] \in Nat
  BY DEF Bucket
<1>3. c \in [DOMAIN b \cup {p} -> Nat]
  BY <1>1, <1>2
<1>4. c \in Bucket
  BY <1>2, <1>3 DEF Bucket
<1>5. QED
  BY <1>1, <1>4 DEF IsPut

\* c is the bucket b but for the words of the region r from p on.
HasRegion(c, b, p, r) ==
  /\ c \in Bucket /\ DOMAIN c = DOMAIN b \cup {p, p + 1, p + 2}
  /\ c[p] = r.begin /\ c[p + 1] = r.end - r.begin /\ c[p + 2] = 0
  /\ \A x \in DOMAIN b \ {p, p + 1, p + 2} : c[x] = b[x]

LEMMA WithRegionIs ==
  ASSUME NEW b \in Bucket, NEW p \in Nat, NEW r \in Intervals, r.begin <= r.end
  PROVE  HasRegion(WithRegion(b, p, r), b, p, r)
<1>0. PICK c : c = WithRegion(b, p, r)
  OBVIOUS
<1>1. PICK b1 : b1 = Put(b, p, r.begin)
  OBVIOUS
<1>2. PICK size : size = r.end - r.begin
  OBVIOUS
<1>3. PICK b2 : b2 = Put(b1, p + 1, size)
  OBVIOUS
<1>4. r.begin \in Nat /\ size \in Nat /\ p + 1 \in Nat /\ p + 2 \in Nat /\ 0 \in Nat
  BY <1>2 DEF Intervals
<1>5. c = Put(b2, p + 2, 0)
  BY <1>0, <1>1, <1>2, <1>3 DEF WithRegion
<1>6. IsPut(b1, b, p, r.begin)
  BY <1>1, <1>4, PutIs
<1>7. IsPut(b2, b1, p + 1, size)
  <2>1. b1 \in Bucket
    BY <1>6 DEF IsPut
  <2>2. QED
    BY <1>3, <1>4, <2>1, PutIs
<1>8. IsPut(c, b2, p + 2, 0)
  <2>1. b2 \in Bucket
    BY <1>7 DEF IsPut
  <2>2. QED
    BY <1>4, <1>5, <2>1, PutIs
<1>9. p # p + 1 /\ p # p + 2 /\ p + 1 # p + 2
  OBVIOUS
<1>10. QED
  BY <1>0, <1>2, <1>6, <1>7, <1>8, <1>9 DEF IsPut, HasRegion

\* A region that was not stolen before is stored behind the others.
LEMMA StoreKeepsBucketed ==
  ASSUME Bucketed, NEW r \in Intervals, 0 < r.begin, r.begin <= r.end,
         r \notin stolen, stolen' = stolen \cup {r}, StoreRegion(r), damage = "none"
  PROVE  Bucketed'
<1>1. PICK p \in Nat : p = position /\ p = 2 * Cardinality(stolen)
  BY FS_CardinalityType DEF Bucketed
<1>2. HasRegion(root', root, p, r) /\ position' = p + 2
  <2>1. root \in Bucket
    BY DEF Bucketed
  <2>2. HasRegion(WithRegion(root, p, r), root, p, r)
    BY <1>1, <2>1, WithRegionIs
  <2> QED
    BY <1>1, <2>2 DEF StoreRegion
<1>3. PICK n \in Nat : n = Cardinality(stolen) /\ p = 2 * n
  BY <1>1, FS_CardinalityType DEF Bucketed
<1>4. IsFiniteSet(stolen') /\ Cardinality(stolen') = n + 1
  BY <1>3, FS_AddElement DEF Bucketed
<1>5. DOMAIN root \subseteq 0 .. p /\ (p > 0 => DOMAIN root = 0 .. p) /\ (p = 0 => DOMAIN root = {})
  BY <1>1 DEF Bucketed, Terminated
<1>6. DOMAIN root' = 0 .. p + 2
  <2>1. DOMAIN root' = DOMAIN root \cup {p, p + 1, p + 2}
    BY <1>2 DEF HasRegion
  <2>2. CASE p = 0
    BY <1>5, <2>1, <2>2
  <2>3. CASE p > 0
    BY <1>5, <2>1, <2>3
  <2> QED
    BY <2>2, <2>3
<1>7. Terminated'
  BY <1>2, <1>6 DEF HasRegion, Terminated
<1>8. ASSUME NEW k \in Nat, 2 * k < p
      PROVE  root'[2 * k] = root[2 * k] /\ root'[2 * k + 1] = root[2 * k + 1]
  <2>1. p > 0 /\ 2 * k + 1 < p /\ 2 * k \in 0 .. p /\ 2 * k + 1 \in 0 .. p
    BY <1>3, <1>8
  <2>2. 2 * k \in DOMAIN root \ {p, p + 1, p + 2} /\ 2 * k + 1 \in DOMAIN root \ {p, p + 1, p + 2}
    BY <1>5, <1>8, <2>1
  <2> QED
    BY <1>2, <2>2 DEF HasRegion
<1>9. root'[2 * n] = r.begin /\ Region(n)' = r
  <2>1. root'[p] = r.begin /\ root'[p + 1] = r.end - r.begin
    BY <1>2 DEF HasRegion
  <2>2. Region(n)' = Interval(r.begin, r.begin + (r.end - r.begin))
    BY <1>3, <2>1 DEF Region
  <2>3. r.begin + (r.end - r.begin) = r.end /\ r = [begin |-> r.begin, end |-> r.end]
    BY DEF Intervals
  <2> QED
    BY <1>3, <2>1, <2>2, <2>3 DEF Interval
<1>10. ASSUME NEW k \in Nat PROVE 2 * k < p + 2 <=> 2 * k < p \/ k = n
  BY <1>3
<1>11. \A k \in Nat : 2 * k < p => Region(k)' = Region(k)
  BY <1>8 DEF Region
<1>12. RegionsStored'
  <2> SUFFICES ASSUME NEW k \in Nat, 2 * k < p + 2
               PROVE  root'[2 * k] # 0 /\ Region(k)' \in stolen'
    BY <1>2 DEF RegionsStored
  <2>1. CASE 2 * k < p
    BY <1>1, <1>8, <1>11, <2>1 DEF Bucketed, RegionsStored
  <2>2. CASE k = n
    BY <1>9, <2>2
  <2> QED
    BY <1>10, <2>1, <2>2
<1>13. StolenFound'
  <2> SUFFICES ASSUME NEW q \in stolen'
               PROVE  \E k \in Nat : 2 * k < p + 2 /\ q = Region(k)'
    BY <1>2 DEF StolenFound
  <2>1. CASE q = r
    BY <1>3, <1>9, <1>10, <2>1
  <2>2. CASE q \in stolen
    <3>1. PICK k \in Nat : 2 * k < p /\ q = Region(k)
      BY <1>1, <2>2 DEF Bucketed, StolenFound
    <3> QED
      BY <1>10, <1>11, <3>1
  <2> QED
    BY <2>1, <2>2
<1>14. DamageIsOverrun'
  BY DEF StoreRegion, DamageIsOverrun, InBounds
<1>15. position' = 2 * Cardinality(stolen') /\ root' \in Bucket
  BY <1>2, <1>3, <1>4 DEF HasRegion
<1> QED
  BY <1>4, <1>7, <1>12, <1>13, <1>14, <1>15 DEF Bucketed

LEMMA StealKeepsBucketed ==
  ASSUME Bucketed, NEW from \in Nat, NEW to \in Nat, Steal(from, to), 0 < from,
         damage = "none" \/ to <= from, Interval(from, to) \notin stolen
  PROVE  Bucketed'
<1>1. CASE to <= from
  <2>1. UNCHANGED <<stolen, root, position, damage>>
    BY <1>1 DEF Steal, stealVars
  <2> QED
    BY <2>1 DEF Bucketed, RegionsStored, StolenFound, Terminated, DamageIsOverrun, InBounds, Region
<1>2. CASE to > from
  <2> DEFINE r == Interval(from, to)
  <2>1. stolen' = stolen \cup {r} /\ StoreRegion(r)
    BY <1>2 DEF Steal, Mmap
  <2>2. r \in Intervals /\ r.begin = from /\ r.end = to
    BY DEF Interval, Intervals
  <2>3. r \notin stolen /\ damage = "none" /\ 0 < r.begin /\ r.begin <= r.end
    BY <1>2, <2>2
  <2> HIDE DEF r
  <2> QED
    BY <2>1, <2>2, <2>3, StoreKeepsBucketed
<1> QED
  BY <1>1, <1>2

LEMMA BucketStep == IInv /\ Bucketed /\ [Next]_vars => Bucketed'
<1> SUFFICES ASSUME IInv, Bucketed, [Next]_vars PROVE Bucketed'
  OBVIOUS
<1>0. /\ regionBegin \in Nat /\ regionEnd \in Nat /\ Begin \in Nat \ {0} /\ End \in Nat
      /\ damage \in {"none", "end", "lost"}
      /\ \A r \in stolen : r.begin \in Nat /\ r.end \in Nat /\ r.begin < r.end
  BY WindowAssumption DEF IInv, ParserTypes, Intervals, StolenApart
<1> DEFINE from == Max2(regionEnd, Begin)
<1>1. from \in Nat /\ from >= regionEnd /\ 0 < from
  BY <1>0 DEF Max2
<1> HIDE DEF from
<1>2. ASSUME State = "ParseBegin", NEW to
      PROVE  Interval(from, to) \notin stolen
  <2>1. Interval(from, to).begin = from
    BY DEF Interval
  <2>2. \A r \in stolen : r.end <= regionEnd
    BY <1>2 DEF IInv, StolenBehind, Behind
  <2>3. \A r \in stolen : r.begin < from
    BY <1>0, <1>1, <2>2
  <2>4. QED
    BY <1>1, <2>1, <2>3
<1>3. WindowEnd \in Nat /\ (damage = "end" => WindowEnd = 0)
  BY <1>0 DEF WindowEnd
<1>4. CASE damage # "lost" /\ ParseDash
  <2> DEFINE to == Min2(regionBegin, WindowEnd)
  <2>1. State = "ParseBegin" /\ Steal(from, to)
    BY <1>4 DEF ParseDash, Parse, from
  <2>2. to \in Nat /\ (damage = "end" => to <= from)
    BY <1>0, <1>1, <1>3 DEF Min2
  <2> HIDE DEF to
  <2>3. damage = "none" \/ to <= from
    BY <1>0, <1>4, <2>2
  <2> QED
    BY <1>1, <1>2, <2>1, <2>2, <2>3, StealKeepsBucketed
<1>5. CASE damage # "lost" /\ EndOfFile
  <2>1. State = "ParseBegin" /\ Steal(from, WindowEnd)
    BY <1>5 DEF EndOfFile, from
  <2>2. damage = "none" \/ WindowEnd <= from
    BY <1>0, <1>1, <1>3, <1>5
  <2> QED
    BY <1>1, <1>2, <1>3, <2>1, <2>2, StealKeepsBucketed
<1>6. CASE \/ ReadMaps \/ ParseBeginDigit \/ ParseEndDigit \/ ParseSpace \/ ScanNewline
           \/ UNCHANGED vars
  <2>1. UNCHANGED <<stolen, root, position, damage>>
    BY <1>6 DEF ReadMaps, Refill, ParseBeginDigit, ParseEndDigit, ParseSpace, ScanNewline, vars, stealVars
  <2> QED
    BY <2>1 DEF Bucketed, RegionsStored, StolenFound, Terminated, DamageIsOverrun, InBounds, Region
<1> QED
  BY <1>4, <1>5, <1>6 DEF Next

LEMMA BucketHolds == Spec => []Bucketed
<1>1. Init => Bucketed
  <2> SUFFICES ASSUME Init PROVE Bucketed
    OBVIOUS
  <2>1. root = <<>> /\ position = 0 /\ stolen = {} /\ damage = "none"
    BY DEF Init
  <2>2. root \in Bucket /\ DOMAIN root = {}
    BY <2>1, EmptyBucket
  <2>3. IsFiniteSet(stolen) /\ position = 2 * Cardinality(stolen)
    BY <2>1, FS_EmptySet
  <2>4. RegionsStored /\ StolenFound /\ Terminated
    BY <2>1, <2>2 DEF RegionsStored, StolenFound, Terminated
  <2>5. DamageIsOverrun
    BY <2>1, <2>2 DEF DamageIsOverrun, InBounds
  <2> QED
    BY <2>2, <2>3, <2>4, <2>5 DEF Bucketed
<1>2. QED
  BY <1>1, BucketStep, Inductive, PTL DEF Spec

LEMMA OverrunDamages == Spec => []DamageIsOverrun
<1>1. Bucketed => DamageIsOverrun
  BY DEF Bucketed
<1>2. QED
  BY <1>1, BucketHolds, PTL

\* The first word outside of PtrSize is written for the first region of more than
\* half of what BucketEntries counts, for every BucketEntries and every window:
\* for 32 the 17th.
THEOREM HalfFits == Spec => []ArrayHoldsHalf
<1>1. Bucketed => ArrayHoldsHalf
  <2> SUFFICES ASSUME Bucketed PROVE InBounds <=> Fits
    BY DEF ArrayHoldsHalf
  <2>1. PICK n \in Nat : n = Cardinality(stolen) /\ position = 2 * n
    BY FS_CardinalityType DEF Bucketed
  <2>2. BucketEntries \in Nat \ {0} /\ BucketWords - 1 = BucketEntries
    BY BucketAssumption DEF BucketWords
  <2>3. CASE n = 0
    <3>1. DOMAIN root = {}
      BY <2>1, <2>3 DEF Bucketed, Terminated
    <3> QED
      BY <2>1, <2>2, <2>3, <3>1 DEF InBounds, Fits
  <2>4. CASE n > 0
    <3>1. DOMAIN root = 0 .. 2 * n
      BY <2>1, <2>4 DEF Bucketed, Terminated
    <3>2. 0 .. 2 * n \subseteq 0 .. BucketEntries <=> 2 * n <= BucketEntries
      BY <2>2, <2>4
    <3> QED
      BY <2>1, <2>2, <3>1, <3>2 DEF InBounds, Fits
  <2> QED
    BY <2>3, <2>4
<1>2. QED
  BY <1>1, BucketHolds, PTL

\* Up to that number what is read back from Root, pairs of words before the first
\* 0, is exactly what was stolen, whichever mmaps have failed.
THEOREM RootTells == Spec => []RootTellsStolen
<1>1. Bucketed => RootTellsStolen
  <2> SUFFICES ASSUME Bucketed, Fits PROVE Told = stolen /\ (stolen # {} => root[position] = 0)
    BY DEF RootTellsStolen
  <2>1. PICK n \in Nat : n = Cardinality(stolen) /\ position = 2 * n
    BY FS_CardinalityType DEF Bucketed
  <2>2. BucketEntries \in Nat \ {0} /\ BucketWords = BucketEntries + 1 /\ 2 * n <= BucketEntries
    BY <2>1, BucketAssumption DEF BucketWords, Fits
  <2>3. stolen # {} => n > 0
    BY <2>1, FS_EmptySet DEF Bucketed
  <2>4. n > 0 => DOMAIN root = 0 .. 2 * n /\ root[2 * n] = 0
    BY <2>1 DEF Bucketed, Terminated
  <2>5. n = 0 => DOMAIN root = {}
    BY <2>1 DEF Bucketed, Terminated
  <2> DEFINE Read(k) == /\ 2 * k + 1 < BucketWords
                        /\ \A j \in 0 .. k : 2 * j \in DOMAIN root /\ root[2 * j] # 0
  <2>6. ASSUME NEW k \in Nat PROVE Read(k) <=> 2 * k < position
    <3>1. ASSUME 2 * k < position PROVE Read(k)
      <4>1. 2 * k + 1 < BucketWords /\ n > 0 /\ k < n
        BY <2>1, <2>2, <3>1
      <4>2. ASSUME NEW j \in 0 .. k PROVE 2 * j \in DOMAIN root /\ root[2 * j] # 0
        <5>1. j \in Nat /\ 2 * j < position /\ 2 * j \in 0 .. 2 * n
          BY <2>1, <4>1
        <5> QED
          BY <2>4, <4>1, <5>1 DEF Bucketed, RegionsStored
      <4> QED
        BY <4>1, <4>2
    <3>2. ASSUME ~(2 * k < position) PROVE ~Read(k)
      <4>1. n \in 0 .. k
        BY <2>1, <3>2
      <4>2. ~(2 * n \in DOMAIN root /\ root[2 * n] # 0)
        BY <2>4, <2>5
      <4> QED
        BY <4>1, <4>2
    <3> QED
      BY <3>1, <3>2
  <2>7. ASSUME NEW k \in Nat, 2 * k < position PROVE k \in 0 .. BucketEntries
    BY <2>1, <2>2, <2>7
  <2>8. Told = {Region(k) : k \in {k \in 0 .. BucketEntries : Read(k)}}
    BY DEF Told, Region
  <2> HIDE DEF Read
  <2>9. ASSUME NEW q \in Told PROVE q \in stolen
    <3>1. PICK k \in 0 .. BucketEntries : Read(k) /\ q = Region(k)
      BY <2>8, <2>9
    <3>2. k \in Nat /\ 2 * k < position
      BY <2>2, <2>6, <3>1
    <3> QED
      BY <3>1, <3>2 DEF Bucketed, RegionsStored
  <2>10. ASSUME NEW q \in stolen PROVE q \in Told
    <3>1. PICK k \in Nat : 2 * k < position /\ q = Region(k)
      BY <2>10 DEF Bucketed, StolenFound
    <3> QED
      BY <2>6, <2>7, <2>8, <3>1
  <2> QED
    BY <2>1, <2>3, <2>4, <2>9, <2>10
<1>2. QED
  BY <1>1, BucketHolds, PTL
-----------------------------------------------------------------------------
\* Parsing the file while it changes is a reservation: each hole is a claim of
\* free pages only, and at the end of the file no free page of the window is left.
THEOREM Refines == Spec => ImplementsReservation
<1>1. Init => Promise!AbsInit
  BY DEF Init, Promise!AbsInit, PagesOf
<1>2. IInv /\ DamageIsOverrun /\ DamageIsOverrun' /\ NeverOvermaps' /\ CoveredSoFar' /\ [Next]_vars => [Promise!AbsNext]_(Promise!absVars)
  <2> SUFFICES ASSUME IInv, DamageIsOverrun, DamageIsOverrun', NeverOvermaps', CoveredSoFar', [Next]_vars
               PROVE  Promise!AbsNext \/ UNCHANGED Promise!absVars
    OBVIOUS
  <2>1. CASE UNCHANGED vars
    BY <2>1 DEF vars, kernelVars, parserVars, stealVars, Promise!absVars, InBounds
  <2>2. CASE Next
    <3>1. State # "Grabbed" /\ UNCHANGED vmas
      BY <2>2 DEF Next, ReadMaps, Refill, ParseBeginDigit, ParseDash, ParseEndDigit, ParseSpace, ScanNewline, EndOfFile,
                  Parse, kernelVars
    <3>2. stolen \subseteq stolen'
      BY <2>2 DEF Next, ReadMaps, Refill, ParseBeginDigit, ParseDash, ParseEndDigit, ParseSpace, ScanNewline, EndOfFile,
                  Steal, Mmap, stealVars
    <3>3. Promise!Claim
      <4>1. PagesOf(stolen) \subseteq PagesOf(stolen')
        BY <3>2 DEF PagesOf
      <4>2. /\ PagesOf(stolen') \cap PagesOf(vmas) = {}
            /\ PagesOf(stolen') \subseteq Begin .. End - 1
        BY <3>1 DEF NeverOvermaps
      <4>3. UNCHANGED PagesOf(vmas)
        BY <3>1
      <4>4. QED
        BY <4>1, <4>2, <4>3 DEF Promise!Claim, Promise!Unclaimed
    <3>4. CASE ~(State' = "Grabbed" /\ InBounds')
      BY <3>1, <3>3, <3>4 DEF Promise!AbsNext, Promise!Reserve
    <3>5. CASE State' = "Grabbed" /\ InBounds'
      <4>1. Begin .. End - 1 \subseteq PagesOf(vmas) \cup PagesOf(stolen')
        BY <3>1, <3>5, WindowAssumption DEF DamageIsOverrun, CoveredSoFar, Covered
      <4>2. QED
        BY <3>1, <3>3, <3>5, <4>1 DEF Promise!AbsNext, Promise!Finish
    <3>6. QED
      BY <3>4, <3>5
  <2>3. QED
    BY <2>1, <2>2
<1>3. QED
  BY <1>1, <1>2, Inductive, OverrunDamages, SparesMappings, Coverage, PTL
  DEF Spec, ImplementsReservation, Promise!AbsSpec

\* Remaining counts the characters that are left, and stops at 0.
RemainingIsCount == remaining \in Nat

LEMMA RemainingCounts == Spec => []RemainingIsCount
<1>1. Init => RemainingIsCount
  BY DEF Init, RemainingIsCount
<1>2. IInv /\ IInv' /\ RemainingIsCount /\ [Next]_vars => RemainingIsCount'
  <2> SUFFICES ASSUME IInv, IInv', remaining \in Nat, [Next]_vars PROVE remaining' \in Nat
    BY DEF RemainingIsCount
  <2>1. CASE ReadMaps
    <3>1. lines' \subseteq vmas' /\ vmas' \in Layouts
      BY DEF IInv, LinesInOrder, ParserTypes
    <3>2. IsFiniteSet(vmas')
      BY <3>1, LayoutsAssumption
    <3>3. Cardinality(lines') \in Nat
      BY <3>1, <3>2, FS_Subset, FS_CardinalityType
    <3>4. Tokens(lines') \in Int
      BY <3>3 DEF Tokens, TokensConsumed, IInv, ParserTypes
    <3>5. PICK m \in 1 .. Tokens(lines') : remaining' = m
      BY <2>1 DEF ReadMaps, Refill
    <3>6. QED
      BY <3>4, <3>5
  <2>2. CASE ParseBeginDigit \/ ParseDash \/ ParseEndDigit \/ ParseSpace \/ ScanNewline
    BY <2>2 DEF ParseBeginDigit, ParseDash, ParseEndDigit, ParseSpace, ScanNewline, Parse
  <2>3. CASE EndOfFile \/ UNCHANGED vars
    BY <2>3 DEF EndOfFile, vars, parserVars
  <2>4. QED
    BY <2>1, <2>2, <2>3 DEF Next
<1>3. QED
  BY <1>1, <1>2, Inductive, PTL DEF Spec

\* The variables stay of their types.
THEOREM Typing == Spec => []TypeOK
<1>1. IInv /\ Bucketed /\ RemainingIsCount => TypeOK
  <2> SUFFICES ASSUME IInv, Bucketed, remaining \in Nat PROVE TypeOK
    BY DEF RemainingIsCount
  <2>1. lines \subseteq Intervals
    BY VmasApart DEF IInv, LinesInOrder, ParserTypes
  <2>2. DOMAIN root \subseteq Nat
    BY DEF Bucketed, Bucket
  <2>3. position \in Nat
    BY FS_CardinalityType DEF Bucketed
  <2>4. QED
    BY <2>1, <2>2, <2>3 DEF IInv, ParserTypes, StolenBehind, TypeOK
<1>2. QED
  BY <1>1, Inductive, BucketHolds, RemainingCounts, PTL
-----------------------------------------------------------------------------
\* The mappings whose lines the parser has not got through: those in the file when
\* it was opened, as its own mappings lie behind it.
Ahead == {v \in vmas : v \in lines \/ v.begin >= fetched}

Bit(b) == IF b THEN 1 ELSE 0
ToParse == 7 * Cardinality(Ahead) - TokensConsumed
StepsLeft == 2 * ToParse + Bit(remaining = 0) + Bit(State # "Grabbed")

StepsAreNat == StepsLeft \in Nat
StepsShrink == StepsLeft' < StepsLeft
Counting == IInv /\ RemainingIsCount

LEMMA AheadIsFinite ==
  ASSUME Counting
  PROVE  /\ IsFiniteSet(Ahead) /\ Cardinality(Ahead) \in Nat
         /\ TokensConsumed \in 0 .. 6 /\ ToParse \in Nat
<1>1. IsFiniteSet(vmas) /\ Ahead \subseteq vmas
  BY LayoutsAssumption DEF Counting, IInv, ParserTypes, Ahead
<1>2. IsFiniteSet(Ahead) /\ Cardinality(Ahead) \in Nat
  BY <1>1, FS_Subset, FS_CardinalityType
<1>3. TokensConsumed \in 0 .. 6
  BY DEF TokensConsumed, Counting, IInv, ParserTypes
<1>4. TokensConsumed > 0 => Cardinality(Ahead) > 0
  <2> SUFFICES ASSUME TokensConsumed > 0 PROVE Cardinality(Ahead) > 0
    OBVIOUS
  <2>1. State \in {"ParseEnd", "ScanEnd"} \/ digits # 0
    BY DEF TokensConsumed
  <2>2. PICK v \in lines : v \in vmas
    BY <2>1 DEF Counting, IInv, CurrentLine, LinesInOrder
  <2>3. Ahead # {}
    BY <2>2 DEF Ahead
  <2>4. QED
    BY <1>2, <2>3, FS_EmptySet
<1>5. QED
  BY <1>2, <1>3, <1>4 DEF ToParse

\* A read only moves mappings from the file into the buffer.
LEMMA ReadKeepsAhead == Counting /\ ReadMaps => Ahead' = Ahead
<1> SUFFICES ASSUME Counting, ReadMaps PROVE Ahead' = Ahead
  OBVIOUS
<1>1. PICK new \in SUBSET Upcoming :
        /\ \A u \in new : \A v \in Upcoming \ new : u.begin < v.begin
        /\ lines' = lines \cup new
        /\ IF new = {} THEN UNCHANGED fetched
           ELSE \E last \in new : /\ \A u \in new : u.end <= last.end
                                  /\ fetched' = last.end
  BY DEF ReadMaps, Refill
<1>2. Upcoming = {v \in vmas : v.begin >= fetched} /\ vmas' = vmas
  BY UpcomingAreVmas DEF ReadMaps, Refill, Counting
<1>3. /\ \A u \in vmas : u.begin \in Nat /\ u.end \in Nat /\ u.begin < u.end
      /\ \A u, v \in vmas : u = v \/ u.end <= v.begin \/ v.end <= u.begin
      /\ fetched \in Nat
  BY VmasApart DEF Counting, IInv, ParserTypes, Intervals
<1>4. ASSUME NEW v \in vmas
      PROVE  v \in Ahead' <=> v \in Ahead
  <2>1. CASE new = {}
    BY <1>1, <1>2, <2>1 DEF Ahead
  <2>2. CASE new # {}
    <3>1. PICK last \in new : fetched' = last.end /\ \A u \in new : u.end <= last.end
      BY <1>1, <2>2
    <3>2. last \in vmas /\ last.begin >= fetched /\ new \subseteq vmas
      BY <1>2, <3>1
    <3>3. CASE v \in lines \cup new
      BY <1>1, <1>2, <3>3 DEF Ahead
    <3>4. CASE v \notin lines \cup new
      <4>1. v.begin >= fetched => v.begin >= fetched'
        <5>1. SUFFICES ASSUME v.begin >= fetched PROVE v.begin >= last.end
          BY <3>1
        <5>2. last.begin < v.begin
          BY <1>1, <1>2, <3>1, <3>4, <5>1
        <5>3. QED
          BY <1>3, <3>2, <5>2
      <4>2. v.begin >= fetched' => v.begin >= fetched
        BY <1>3, <3>1, <3>2
      <4>3. QED
        BY <1>1, <1>2, <3>4, <4>1, <4>2 DEF Ahead
    <3>5. QED
      BY <3>3, <3>4
  <2>3. QED
    BY <2>1, <2>2
<1>5. QED
  BY <1>2, <1>4 DEF Ahead

LEMMA FewerSteps ==
  ASSUME NEW a \in Nat, NEW b \in Nat, NEW r \in BOOLEAN, NEW r2 \in BOOLEAN,
         NEW s \in BOOLEAN, NEW s2 \in BOOLEAN,
         \/ a = b - 1 /\ (s2 <=> s)
         \/ a = b /\ r /\ ~r2 /\ (s2 <=> s)
         \/ a = b /\ (r2 <=> r) /\ s /\ ~s2
  PROVE  2 * a + Bit(r2) + Bit(s2) < 2 * b + Bit(r) + Bit(s)
<1>1. /\ \A x \in BOOLEAN : Bit(x) \in {0, 1}
      /\ (r <=> r2) => Bit(r) = Bit(r2)
      /\ (s <=> s2) => Bit(s) = Bit(s2)
      /\ r => Bit(r) = 1
      /\ s => Bit(s) = 1
      /\ ~r2 => Bit(r2) = 0
      /\ ~s2 => Bit(s2) = 0
  BY DEF Bit
<1>2. Bit(r) \in {0, 1} /\ Bit(r2) \in {0, 1} /\ Bit(s) \in {0, 1} /\ Bit(s2) \in {0, 1}
  BY <1>1
<1>3. CASE a = b - 1 /\ (s2 <=> s)
  BY <1>1, <1>2, <1>3
<1>4. CASE a = b /\ r /\ ~r2 /\ (s2 <=> s)
  <2>1. a = b /\ Bit(r) = 1 /\ Bit(r2) = 0 /\ Bit(s) = Bit(s2)
    BY <1>1, <1>4, Zenon
  <2>2. QED
    BY <1>2, <2>1
<1>5. CASE a = b /\ (r2 <=> r) /\ s /\ ~s2
  <2>1. a = b /\ Bit(s) = 1 /\ Bit(s2) = 0 /\ Bit(r) = Bit(r2)
    BY <1>1, <1>5, Zenon
  <2>2. QED
    BY <1>2, <2>1
<1>6. QED
  BY <1>3, <1>4, <1>5

LEMMA StepsGetFewer == Counting /\ Counting' /\ Next => StepsShrink
<1> SUFFICES ASSUME Counting, Counting', Next PROVE StepsShrink
  OBVIOUS
<1>1. /\ IsFiniteSet(Ahead) /\ Cardinality(Ahead) \in Nat /\ TokensConsumed \in 0 .. 6
      /\ ToParse \in Nat
  BY AheadIsFinite
<1>2. (ToParse \in Nat)'
  BY AheadIsFinite, PTL
<1>3. SUFFICES \/ ToParse' = ToParse - 1 /\ (State' # "Grabbed" <=> State # "Grabbed")
               \/ /\ ToParse' = ToParse /\ remaining = 0 /\ remaining' # 0
                  /\ (State' # "Grabbed" <=> State # "Grabbed")
               \/ /\ ToParse' = ToParse /\ (remaining' = 0 <=> remaining = 0)
                  /\ State # "Grabbed" /\ State' = "Grabbed"
  <2> DEFINE r == remaining = 0    r2 == remaining' = 0
             s == State # "Grabbed"    s2 == State' # "Grabbed"
             a == ToParse'    b == ToParse
  <2>1. r \in BOOLEAN /\ r2 \in BOOLEAN /\ s \in BOOLEAN /\ s2 \in BOOLEAN
    OBVIOUS
  <2>2. \/ a = b - 1 /\ (s2 <=> s)
        \/ a = b /\ r /\ ~r2 /\ (s2 <=> s)
        \/ a = b /\ (r2 <=> r) /\ s /\ ~s2
    BY <1>3, Zenon
  <2>3. a \in Nat /\ b \in Nat
    BY <1>1, <1>2
  <2>4. /\ StepsLeft' = 2 * a + Bit(r2) + Bit(s2)
        /\ StepsLeft = 2 * b + Bit(r) + Bit(s)
    BY Zenon DEF StepsLeft
  <2> HIDE DEF r, r2, s, s2, a, b
  <2>5. QED
    BY <2>1, <2>2, <2>3, <2>4, FewerSteps DEF StepsShrink
<1>0. digits \in 0 .. 2
  BY DEF Counting, IInv, ParserTypes
<1>4. CASE ReadMaps
  <2>1. Ahead' = Ahead
    BY <1>4, ReadKeepsAhead
  <2>2. State' = State /\ digits' = digits /\ remaining = 0
    BY <1>4 DEF ReadMaps, Refill
  <2>3. remaining' # 0
    BY <1>4 DEF ReadMaps, Refill
  <2>4. ToParse' = ToParse
    BY <2>1, <2>2 DEF ToParse, TokensConsumed
  <2>5. QED
    BY <2>2, <2>3, <2>4
<1>5. CASE ParseDash
  <2>1. Ahead' = Ahead /\ State = "ParseBegin" /\ State' = "ParseEnd"
        /\ digits = 2 /\ digits' = 0
    BY <1>5 DEF ParseDash, Parse, kernelVars, Ahead
  <2>2. TokensConsumed' = TokensConsumed + 1
    BY <2>1, <1>0 DEF TokensConsumed
  <2>3. ToParse' = ToParse - 1
    BY <1>1, <2>1, <2>2 DEF ToParse
  <2>4. QED
    BY <2>1, <2>3
<1>6. CASE ParseSpace
  <2>1. Ahead' = Ahead /\ State = "ParseEnd" /\ State' = "ScanEnd"
        /\ digits = 2 /\ digits' = 0
    BY <1>6 DEF ParseSpace, Parse, kernelVars, Ahead
  <2>2. TokensConsumed' = TokensConsumed + 1
    BY <2>1, <1>0 DEF TokensConsumed
  <2>3. ToParse' = ToParse - 1
    BY <1>1, <2>1, <2>2 DEF ToParse
  <2>4. QED
    BY <2>1, <2>3
<1>10. CASE ParseBeginDigit
  <2>1. Ahead' = Ahead /\ State = "ParseBegin" /\ State' = State
        /\ digits' = digits + 1
    BY <1>10 DEF ParseBeginDigit, Parse, kernelVars, Ahead
  <2>2. TokensConsumed' = TokensConsumed + 1
    BY <2>1, <1>0 DEF TokensConsumed
  <2>3. ToParse' = ToParse - 1
    BY <1>1, <2>1, <2>2 DEF ToParse
  <2>4. QED
    BY <2>1, <2>3
<1>11. CASE ParseEndDigit
  <2>1. Ahead' = Ahead /\ State = "ParseEnd" /\ State' = State
        /\ digits' = digits + 1
    BY <1>11 DEF ParseEndDigit, Parse, kernelVars, Ahead
  <2>2. TokensConsumed' = TokensConsumed + 1
    BY <2>1, <1>0 DEF TokensConsumed
  <2>3. ToParse' = ToParse - 1
    BY <1>1, <2>1, <2>2 DEF ToParse
  <2>4. QED
    BY <2>1, <2>3
<1>7. CASE ScanNewline
  <2>1. PICK v \in lines : lines' = lines \ {v}
    BY <1>7 DEF ScanNewline
  <2>2. /\ State = "ScanEnd" /\ State' = "ParseBegin" /\ digits' = 0
        /\ UNCHANGED <<vmas, fetched>>
    BY <1>7 DEF ScanNewline, Parse, kernelVars, Counting, IInv, CurrentLine
  <2>3. v \in vmas /\ ~(v.begin >= fetched)
    BY <2>1, VmasApart DEF Counting, IInv, ParserTypes, LinesInOrder, Intervals
  <2>4. Ahead' = Ahead \ {v} /\ v \in Ahead
    BY <2>1, <2>2, <2>3 DEF Ahead
  <2>5. Cardinality(Ahead \ {v}) = Cardinality(Ahead) - 1
    BY <1>1, <2>4, FS_RemoveElement
  <2>6. ToParse' = ToParse - 1
    BY <1>1, <2>2, <2>4, <2>5 DEF ToParse, TokensConsumed
  <2>7. QED
    BY <2>2, <2>6
<1>8. CASE EndOfFile
  <2>1. /\ Ahead' = Ahead /\ State = "ParseBegin" /\ State' = "Grabbed"
        /\ remaining' = remaining /\ digits = 0
    BY <1>8 DEF EndOfFile, kernelVars, Ahead, Counting, IInv, CurrentLine
  <2>2. ToParse' = ToParse
    BY <2>1 DEF ToParse, TokensConsumed
  <2>3. QED
    BY <2>1, <2>2
<1>9. QED
  BY <1>4, <1>5, <1>6, <1>7, <1>8, <1>10, <1>11 DEF Next

\* Although the file grows with every hole that is stolen, each read and each token
\* brings the parser nearer to its end: it takes no more steps than the mappings
\* the process started with allow, however the reads are cut.
THEOREM ParserStops == Spec => [](StepsLeft \in Nat) /\ [][StepsLeft' < StepsLeft]_vars
<1>1. Counting => StepsAreNat
  <2> SUFFICES ASSUME Counting PROVE StepsLeft \in Nat
    BY DEF StepsAreNat
  <2>1. Bit(remaining = 0) \in {0, 1} /\ Bit(State # "Grabbed") \in {0, 1}
    BY DEF Bit
  <2>2. QED
    BY <2>1, AheadIsFinite DEF StepsLeft
<1>2. Counting /\ Counting' /\ [Next]_vars => [StepsShrink]_vars
  BY StepsGetFewer
<1>3. Spec => []Counting
  BY Inductive, RemainingCounts, PTL DEF Counting
<1>4. Spec => []StepsAreNat /\ [][StepsShrink]_vars
  BY <1>1, <1>2, <1>3, PTL DEF Spec
<1>5. QED
  BY <1>4 DEF StepsAreNat, StepsShrink
-----------------------------------------------------------------------------
\* Remaining never promises more than there is: behind it are tokens of lines that
\* have been read.
RemainingIsInLines == remaining <= Tokens(lines)

\* What lets a read deliver something, a token be parsed, and the parser finish.
MayRead == /\ remaining = 0
           /\ \E new \in SUBSET Upcoming :
                /\ \A u \in new : \A v \in Upcoming \ new : u.begin < v.begin
                /\ Tokens(lines \cup new) >= 1
                /\ new # {} => \E last \in new : \A u \in new : u.end <= last.end
MayParse == remaining > 0 /\ \E v \in lines : IsCurrent(v)
MayFinish == State = "ParseBegin" /\ remaining = 0 /\ lines = {} /\ Upcoming = {}

ParserGoes == State # "Grabbed" /\ damage # "lost" => MayRead \/ MayParse \/ MayFinish

\* Of the tokens of some lines at most six have been consumed.
LEMMA SomeTokens ==
  ASSUME IInv, NEW ls, IsFiniteSet(ls)
  PROVE  Tokens(ls) \in Int /\ (ls # {} => Tokens(ls) >= 1)
<1>1. Cardinality(ls) \in Nat /\ (ls # {} => Cardinality(ls) # 0)
  BY FS_CardinalityType, FS_EmptySet
<1>2. TokensConsumed \in 0 .. 6
  BY DEF TokensConsumed, IInv, ParserTypes
<1> QED
  BY <1>1, <1>2 DEF Tokens

LEMMA LinesAreFinite ==
  ASSUME IInv
  PROVE  IsFiniteSet(lines) /\ Cardinality(lines) \in Nat /\ lines \subseteq Intervals
<1>1. lines \subseteq vmas /\ vmas \in Layouts
  BY DEF IInv, LinesInOrder, ParserTypes
<1>2. IsFiniteSet(vmas) /\ vmas \subseteq Intervals
  BY <1>1, VmasApart, LayoutsAssumption
<1> QED
  BY <1>1, <1>2, FS_Subset, FS_CardinalityType

LEMMA RemainingStays ==
  IInv /\ IInv' /\ RemainingIsCount /\ RemainingIsInLines /\ [Next]_vars => RemainingIsInLines'
<1> SUFFICES ASSUME IInv, IInv', remaining \in Nat, remaining <= Tokens(lines), [Next]_vars
             PROVE  RemainingIsInLines'
  BY DEF RemainingIsCount, RemainingIsInLines
<1>0. digits \in 0 .. 2
  BY DEF IInv, ParserTypes
<1>1. IsFiniteSet(lines) /\ Cardinality(lines) \in Nat
  BY LinesAreFinite
<1>2. CASE ReadMaps
  <2>1. (IsFiniteSet(lines) /\ Cardinality(lines) \in Nat)'
    BY LinesAreFinite, PTL
  <2>2. TokensConsumed' = TokensConsumed /\ TokensConsumed \in 0 .. 6
    BY <1>0, <1>2 DEF ReadMaps, Refill, TokensConsumed
  <2>3. Tokens(lines') \in Int /\ Tokens(lines)' = Tokens(lines')
    BY <2>1, <2>2 DEF Tokens
  <2>4. PICK m \in 1 .. Tokens(lines') : remaining' = m
    BY <1>2 DEF ReadMaps, Refill
  <2> QED
    BY <2>3, <2>4 DEF RemainingIsInLines
<1>3. CASE ParseDash
  <2>1. /\ lines' = lines /\ remaining' = remaining - 1
        /\ State = "ParseBegin" /\ State' = "ParseEnd" /\ digits = 2 /\ digits' = 0
    BY <1>3 DEF ParseDash, Parse
  <2> QED
    BY <1>0, <1>1, <2>1 DEF Tokens, TokensConsumed, RemainingIsInLines
<1>4. CASE ParseSpace
  <2>1. /\ lines' = lines /\ remaining' = remaining - 1
        /\ State = "ParseEnd" /\ State' = "ScanEnd" /\ digits = 2 /\ digits' = 0
    BY <1>4 DEF ParseSpace, Parse
  <2> QED
    BY <1>0, <1>1, <2>1 DEF Tokens, TokensConsumed, RemainingIsInLines
<1>8. CASE ParseBeginDigit
  <2>1. /\ lines' = lines /\ remaining' = remaining - 1
        /\ State = "ParseBegin" /\ State' = "ParseBegin" /\ digits' = digits + 1
    BY <1>8 DEF ParseBeginDigit, Parse
  <2> QED
    BY <1>0, <1>1, <2>1 DEF Tokens, TokensConsumed, RemainingIsInLines
<1>9. CASE ParseEndDigit
  <2>1. /\ lines' = lines /\ remaining' = remaining - 1
        /\ State = "ParseEnd" /\ State' = "ParseEnd" /\ digits' = digits + 1
    BY <1>9 DEF ParseEndDigit, Parse
  <2> QED
    BY <1>0, <1>1, <2>1 DEF Tokens, TokensConsumed, RemainingIsInLines
<1>5. CASE ScanNewline
  <2>1. PICK v \in lines : lines' = lines \ {v}
    BY <1>5 DEF ScanNewline
  <2>2. Cardinality(lines') = Cardinality(lines) - 1
    BY <1>1, <2>1, FS_RemoveElement
  <2>3. /\ remaining' = remaining - 1 /\ State = "ScanEnd" /\ State' = "ParseBegin"
        /\ digits' = 0
    BY <1>5 DEF ScanNewline, Parse, IInv, CurrentLine
  <2> QED
    BY <1>1, <2>2, <2>3 DEF Tokens, TokensConsumed, RemainingIsInLines
<1>6. CASE EndOfFile
  <2>1. /\ lines' = lines /\ remaining' = remaining /\ State = "ParseBegin" /\ State' = "Grabbed"
        /\ digits = 0
    BY <1>6 DEF EndOfFile, IInv, CurrentLine
  <2> QED
    BY <1>1, <2>1 DEF Tokens, TokensConsumed, RemainingIsInLines
<1>7. CASE UNCHANGED vars
  BY <1>7 DEF vars, parserVars, Tokens, TokensConsumed, RemainingIsInLines
<1> QED
  BY <1>2, <1>3, <1>4, <1>5, <1>6, <1>7, <1>8, <1>9 DEF Next

\* However the reads are cut, the parser is never left without a next step before it has
\* handed its bucket over, unless stores past the array have made it lose its way: a
\* buffer that is not empty holds the line it is at, an empty one can be filled, and the
\* file ends at the start of a line only (the loop of StealMemoryRegion in alloc.cpp,
\* whose read of nothing in a line would spin).
THEOREM ParserNeverStuck == Spec => []ParserGoes
<1>1. IInv /\ RemainingIsCount /\ RemainingIsInLines => ParserGoes
  <2> SUFFICES ASSUME IInv, remaining \in Nat, RemainingIsInLines, State # "Grabbed"
               PROVE  MayRead \/ MayParse \/ MayFinish
    BY Zenon DEF ParserGoes, RemainingIsCount
  <2>1. IsFiniteSet(lines) /\ Cardinality(lines) \in Nat /\ lines \subseteq Intervals
    BY LinesAreFinite
  <2>2. CASE remaining > 0
    <3>1. lines # {}
      <4>1. SUFFICES ASSUME lines = {} PROVE FALSE
        OBVIOUS
      <4>2. Cardinality(lines) = 0
        BY <4>1, FS_EmptySet
      <4>3. TokensConsumed \in 0 .. 6
        BY DEF TokensConsumed, IInv, ParserTypes
      <4> QED
        BY <2>2, <4>2, <4>3 DEF RemainingIsInLines, Tokens
    <3>2. \E v \in lines : IsCurrent(v)
      BY <2>1, <3>1, FirstMapping, Zenon DEF IsCurrent
    <3> QED
      BY <2>2, <3>2, Zenon DEF MayParse
  <2>3. CASE remaining = 0 /\ Upcoming # {}
    <3>1. Upcoming \subseteq vmas
      BY UpcomingAreVmas
    <3>2. /\ \A u \in vmas : u \in Intervals /\ u.begin < u.end
          /\ \A u, v \in vmas : u = v \/ u.end <= v.begin \/ v.end <= u.begin
      BY VmasApart DEF IInv, ParserTypes
    <3>3. PICK v \in Upcoming : \A u \in Upcoming : v.begin <= u.begin
      <4>1. Upcoming \subseteq Intervals
        BY <3>1, <3>2
      <4> QED
        BY <2>3, <4>1, FirstMapping, Zenon
    <3>4. \A u \in Upcoming \ {v} : v.begin < u.begin
      BY <3>1, <3>2, <3>3 DEF Intervals
    <3>5. Tokens(lines \cup {v}) >= 1
      <4>1. IsFiniteSet(lines \cup {v})
        BY <2>1, FS_AddElement
      <4>2. lines \cup {v} # {}
        OBVIOUS
      <4> QED
        BY <4>1, <4>2, SomeTokens, Zenon
    <3>6. \A u \in {v} : u.end <= v.end
      BY <3>1, <3>2 DEF Intervals
    <3>7. \E new \in SUBSET Upcoming :
            /\ \A u \in new : \A w \in Upcoming \ new : u.begin < w.begin
            /\ Tokens(lines \cup new) >= 1
            /\ new # {} => \E last \in new : \A u \in new : u.end <= last.end
      <4> WITNESS {v} \in SUBSET Upcoming
      <4> QED
        BY <3>4, <3>5, <3>6, Zenon
    <3> QED
      BY <2>3, <3>7, Zenon DEF MayRead
  <2>4. CASE remaining = 0 /\ Upcoming = {} /\ lines # {}
    <3>1. Tokens(lines \cup {}) >= 1
      <4>1. lines \cup {} = lines
        OBVIOUS
      <4> QED
        BY <2>1, <2>4, <4>1, SomeTokens, Zenon
    <3>2. {} \in SUBSET Upcoming
      OBVIOUS
    <3> QED
      BY <2>4, <3>1, <3>2, Zenon DEF MayRead
  <2>5. CASE remaining = 0 /\ Upcoming = {} /\ lines = {}
    <3>1. State = "ParseBegin"
      BY <2>5 DEF IInv, CurrentLine, ParserTypes
    <3> QED
      BY <2>5, <3>1, Zenon DEF MayFinish
  <2> QED
    BY <2>2, <2>3, <2>4, <2>5
<1>2. Init => RemainingIsInLines
  BY FS_EmptySet DEF Init, RemainingIsInLines, Tokens, TokensConsumed
<1> QED
  BY <1>1, <1>2, RemainingStays, RemainingCounts, Inductive, PTL DEF Spec
-----------------------------------------------------------------------------
\* Every length below the current one that the loop no longer tries fits
\* nowhere; a loop that is through with all lengths has left nothing free.
NothingLeft == /\ alloc_len = 0 => Free = {}
               /\ status = "done" => alloc_len = 0

HalvingInv == HalvingTypeOK /\ HalvingLosesNothing /\ NothingLeft

\* Halving a size gives another size, or 0 after the last one.
LEMMA HalfOfSize ==
  ASSUME NEW n \in Sizes
  PROVE  n \div 2 \in Sizes \cup {0} /\ n \in Nat \ {0} /\ (n # 1 => 2 * (n \div 2) = n)
  BY SizesAssumption

\* The variables keep their types: the loop only claims pages that exist and
\* only halves a length it was given.
THEOREM TypeCorrect == HalvingSpec => []HalvingTypeOK
<1>1. HalvingInit => HalvingTypeOK
  BY SizesAssumption DEF HalvingInit, HalvingTypeOK
<1>2. HalvingTypeOK /\ [HalvingNext]_halvingVars => HalvingTypeOK'
  <2> SUFFICES ASSUME HalvingTypeOK, [HalvingNext]_halvingVars PROVE HalvingTypeOK'
    OBVIOUS
  <2>1. CASE MmapSucceeds
    <3>1. PICK a \in Gaps(alloc_len) : reserved' = reserved \cup (a .. a + alloc_len - 1)
      BY <2>1 DEF MmapSucceeds
    <3>2. a .. a + alloc_len - 1 \subseteq Pages
      BY <3>1 DEF Gaps, Free
    <3>3. alloc_len \in Nat
      BY HalfOfSize DEF HalvingTypeOK
    <3>4. QED
      BY <2>1, <3>1, <3>2, <3>3 DEF MmapSucceeds, HalvingTypeOK
  <2>2. CASE MmapNoGap
    <3>1. alloc_len \in Sizes
      BY <2>2 DEF MmapNoGap, InLoop, AtLeastAPage, HalvingTypeOK
    <3>2. QED
      BY <2>2, <3>1, HalfOfSize DEF MmapNoGap, HalvingTypeOK
  <2>3. CASE MmapError
    BY <2>3 DEF MmapError, HalvingTypeOK
  <2>4. CASE Return
    BY <2>4 DEF Return, AtLeastAPage, HalvingTypeOK
  <2>5. CASE UNCHANGED halvingVars
    BY <2>5 DEF halvingVars, HalvingTypeOK
  <2>6. QED
    BY <2>1, <2>2, <2>3, <2>4, <2>5 DEF HalvingNext
<1>3. QED
  BY <1>1, <1>2, PTL DEF HalvingSpec

\* The inductive invariant behind Complete.
LEMMA HalvingInductive == HalvingSpec => []HalvingInv
<1>1. HalvingInit => HalvingInv
  <2> SUFFICES ASSUME HalvingInit PROVE HalvingInv
    OBVIOUS
  <2>1. HalvingTypeOK
    BY SizesAssumption DEF HalvingInit, HalvingTypeOK
  <2>2. InitialLen # 0
    BY SizesAssumption
  <2>3. Gaps(2 * alloc_len) = {}
    BY PagesAssumption, InitialLenAssumption DEF HalvingInit, Gaps, Free
  <2>4. QED
    BY <2>1, <2>2, <2>3 DEF HalvingInit, HalvingInv, HalvingLosesNothing, NothingLeft
<1>2. HalvingInv /\ HalvingTypeOK' /\ [HalvingNext]_halvingVars => HalvingInv'
  <2> SUFFICES ASSUME HalvingInv, HalvingTypeOK', [HalvingNext]_halvingVars PROVE HalvingInv'
    OBVIOUS
  <2>0. alloc_len \in Nat /\ Pages \subseteq Nat
    BY HalfOfSize, PagesAssumption DEF HalvingInv, HalvingTypeOK
  <2>1. CASE MmapSucceeds
    <3>1. Free' \subseteq Free /\ UNCHANGED <<alloc_len, status>>
      BY <2>1 DEF MmapSucceeds, Free
    <3>2. Gaps(2 * alloc_len)' \subseteq Gaps(2 * alloc_len)
      BY <2>0, <3>1 DEF Gaps
    <3>3. QED
      BY <3>1, <3>2 DEF HalvingInv, HalvingLosesNothing, NothingLeft
  <2>2. CASE MmapNoGap
    <3>1. alloc_len \in Sizes /\ UNCHANGED <<Free, status>> /\ status = "loop"
      BY <2>2
      DEF MmapNoGap, InLoop, AtLeastAPage, HalvingInv, HalvingTypeOK,
          Free
    <3>2. CASE alloc_len = 1
      <4>1. Free = {}
        <5>1. \A a \in Free : a .. a + 1 - 1 = {a}
          BY <2>0 DEF Free
        <5>2. Gaps(1) = {}
          BY <2>2, <3>2 DEF MmapNoGap
        <5>3. QED
          BY <5>1, <5>2 DEF Gaps
      <4>2. alloc_len' = 0
        BY <2>2, <3>2 DEF MmapNoGap
      <4>3. QED
        BY <3>1, <4>1, <4>2 DEF HalvingInv, HalvingLosesNothing, NothingLeft
    <3>3. CASE alloc_len # 1
      <4>1. 2 * alloc_len' = alloc_len /\ alloc_len' # 0
        BY <2>2, <3>1, <3>3, HalfOfSize DEF MmapNoGap
      <4>2. Gaps(2 * alloc_len)' = {}
        BY <2>2, <3>1, <4>1 DEF MmapNoGap, Gaps
      <4>3. QED
        BY <3>1, <4>1, <4>2 DEF HalvingInv, HalvingLosesNothing, NothingLeft
    <3>4. QED
      BY <3>2, <3>3
  <2>3. CASE MmapError
    BY <2>3
    DEF MmapError, HalvingInv, HalvingLosesNothing, NothingLeft, Gaps,
        Free
  <2>4. CASE Return
    <3>1. alloc_len = 0
      BY <2>4, <2>0 DEF Return, AtLeastAPage
    <3>2. QED
      BY <2>4, <3>1
      DEF Return, AtLeastAPage, HalvingInv, HalvingLosesNothing,
          NothingLeft, Gaps, Free
  <2>5. CASE UNCHANGED halvingVars
    BY <2>5
    DEF halvingVars, HalvingInv, HalvingLosesNothing, NothingLeft, Gaps,
        Free
  <2>6. QED
    BY <2>1, <2>2, <2>3, <2>4, <2>5 DEF HalvingNext
<1>3. QED
  BY <1>1, <1>2, TypeCorrect, PTL DEF HalvingSpec

\* When main() returns 0 no page is free, whatever was mapped before and
\* whichever gaps the kernel chose.
THEOREM ReservesEverything == HalvingSpec => []Complete
<1>1. HalvingInv => Complete
  BY DEF HalvingInv, NothingLeft, Complete
<1>2. QED
  BY <1>1, HalvingInductive, PTL

\* The size that just failed stays without a gap while the smaller ones run.
THEOREM NoLargerGap == HalvingSpec => []HalvingLosesNothing
<1>1. HalvingInv => HalvingLosesNothing
  BY DEF HalvingInv
<1>2. QED
  BY <1>1, HalvingInductive, PTL

\* The printed total counts every reserved page exactly once.
THEOREM TotalCorrect == HalvingSpec => []TotalIsReserved
<1>1. HalvingInit => TotalIsReserved
  BY FS_EmptySet DEF HalvingInit, TotalIsReserved
<1>2. TotalIsReserved /\ HalvingTypeOK /\ [HalvingNext]_halvingVars => TotalIsReserved'
  <2> SUFFICES ASSUME TotalIsReserved, HalvingTypeOK,
                      [HalvingNext]_halvingVars
               PROVE  TotalIsReserved'
    OBVIOUS
  <2>1. CASE MmapSucceeds
    <3>1. PICK a \in Gaps(alloc_len) : reserved' = reserved \cup (a .. a + alloc_len - 1)
      BY <2>1 DEF MmapSucceeds
    <3> DEFINE gap == a .. a + alloc_len - 1
    <3>2. a \in Nat /\ alloc_len \in Nat \ {0} /\ gap \subseteq Free
      BY <2>1, <3>1, HalfOfSize, PagesAssumption
      DEF MmapSucceeds, InLoop, AtLeastAPage,
          Gaps, Free, HalvingTypeOK
    <3>3. IsFiniteSet(gap) /\ Cardinality(gap) = alloc_len
      BY <3>2, FS_Interval
    <3>4. IsFiniteSet(reserved) /\ Cardinality(reserved) \in Nat
      <4>1. IsFiniteSet(Pages)
        BY PagesAssumption
      <4>2. QED
        BY <4>1, FS_Subset, FS_CardinalityType DEF HalvingTypeOK
    <3>5. reserved \cap gap = {} /\ used \cap gap = {}
      BY <3>2 DEF Free
    <3>6. Cardinality(reserved') = Cardinality(reserved) + alloc_len
      <4>1. Cardinality(reserved \cup gap)
              = Cardinality(reserved) + Cardinality(gap) - Cardinality(reserved \cap gap)
        BY <3>3, <3>4, FS_Union
      <4>2. Cardinality(reserved \cap gap) = 0
        BY <3>5, FS_EmptySet
      <4>3. reserved' = reserved \cup gap
        BY <3>1
      <4>4. QED
        BY <3>2, <3>3, <3>4, <4>1, <4>2, <4>3
    <3>7. QED
      BY <2>1, <3>1, <3>5, <3>6 DEF MmapSucceeds, TotalIsReserved
  <2>2. CASE MmapNoGap \/ MmapError \/ Return \/ UNCHANGED halvingVars
    BY <2>2
    DEF MmapNoGap, MmapError, Return, halvingVars,
        TotalIsReserved
  <2>3. QED
    BY <2>1, <2>2 DEF HalvingNext
<1>3. QED
  BY <1>1, <1>2, TypeCorrect, PTL DEF HalvingSpec

\* Every step of the halving loop is a step of the abstract reservation: it
\* claims only free pages, gives none back and finishes with none left.
THEOREM HalvingRefines == HalvingSpec => HalvingImplementsReservation
<1>1. HalvingInit => HalvingPromise!AbsInit
  BY DEF HalvingInit, HalvingPromise!AbsInit
<1>2. HalvingInv /\ [HalvingNext]_halvingVars => [HalvingPromise!AbsNext]_(HalvingPromise!absVars)
  <2> SUFFICES ASSUME HalvingInv, [HalvingNext]_halvingVars
               PROVE  HalvingPromise!AbsNext \/ UNCHANGED HalvingPromise!absVars
    OBVIOUS
  <2>1. CASE MmapSucceeds
    <3>1. PICK a \in Gaps(alloc_len) : reserved' = reserved \cup (a .. a + alloc_len - 1)
      BY <2>1 DEF MmapSucceeds
    <3>2. reserved' \ reserved \subseteq Free /\ reserved \subseteq reserved'
      BY <3>1 DEF Gaps
    <3>3. QED
      BY <2>1, <3>2
      DEF MmapSucceeds, InLoop, AtLeastAPage, Free,
          HalvingPromise!AbsNext, HalvingPromise!Reserve, HalvingPromise!Claim,
          HalvingPromise!Unclaimed
  <2>2. CASE MmapNoGap \/ MmapError
    BY <2>2
    DEF MmapNoGap, MmapError, InLoop, AtLeastAPage,
        HalvingPromise!absVars
  <2>3. CASE Return
    <3>1. Free = {}
      BY <2>3, HalfOfSize
      DEF Return, AtLeastAPage, HalvingInv, NothingLeft, HalvingTypeOK
    <3>2. QED
      BY <2>3, <3>1
      DEF Return, AtLeastAPage, Free, HalvingInv, HalvingTypeOK,
          HalvingPromise!AbsNext, HalvingPromise!Finish, HalvingPromise!Claim,
          HalvingPromise!Unclaimed
  <2>4. CASE UNCHANGED halvingVars
    BY <2>4 DEF halvingVars, HalvingPromise!absVars
  <2>5. QED
    BY <2>1, <2>2, <2>3, <2>4 DEF HalvingNext
<1>3. QED
  BY <1>1, <1>2, HalvingInductive, PTL
  DEF HalvingSpec, HalvingImplementsReservation, HalvingPromise!AbsSpec

\* What is left of the loop: lengths below the current one, free pages, and the
\* return.
LoopLeft == alloc_len + Cardinality(Free) + Bit(status = "loop")

LoopLeftIsNat == LoopLeft \in Nat
LoopShrinks == LoopLeft' < LoopLeft

LEMMA FreeIsFinite == IsFiniteSet(Free) /\ Cardinality(Free) \in Nat
<1>1. IsFiniteSet(Pages)
  BY PagesAssumption
<1>2. QED
  BY <1>1, FS_Subset, FS_CardinalityType DEF Free

LEMMA SumGrows ==
  ASSUME NEW a \in Nat, NEW b \in Nat, NEW c \in Nat, NEW d \in Nat, a < b
  PROVE  a + c + d < b + c + d
OBVIOUS

LEMMA LoopGetsShorter ==
  ASSUME HalvingTypeOK, HalvingTypeOK', HalvingNext
  PROVE  LoopShrinks
<1> DEFINE free == Cardinality(Free)     free2 == Cardinality(Free')
           bit == Bit(status = "loop")  bit2 == Bit(status' = "loop")
<1>1. IsFiniteSet(Free) /\ free \in Nat
  BY FreeIsFinite
<1>2. alloc_len \in Nat /\ Pages \subseteq Nat
  BY HalfOfSize, PagesAssumption DEF HalvingTypeOK
<1>3. bit \in {0, 1} /\ bit2 \in {0, 1}
  BY DEF Bit
<1>4. LoopLeft = alloc_len + free + bit /\ LoopLeft' = alloc_len' + free2 + bit2
  BY Zenon DEF LoopLeft
<1>5. CASE MmapSucceeds
  <2>1. PICK a \in Free :
          /\ reserved' = reserved \cup (a .. a + alloc_len - 1)
          /\ UNCHANGED <<used, alloc_len, status>> /\ alloc_len >= 1
    BY <1>5 DEF MmapSucceeds, Gaps, InLoop, AtLeastAPage
  <2>2. a \in Nat /\ a \in a .. a + alloc_len - 1
    BY <1>2, <2>1 DEF Free
  <2>3. Free' \subseteq Free \ {a}
    BY <2>1, <2>2 DEF Free
  <2>4. IsFiniteSet(Free \ {a}) /\ Cardinality(Free \ {a}) = free - 1
    BY <1>1, <2>1, FS_RemoveElement
  <2>5. free2 <= free - 1 /\ free2 \in Nat
    BY <2>3, <2>4, FS_Subset, FS_CardinalityType
  <2>6. bit2 = bit /\ alloc_len' = alloc_len
    BY <2>1
  <2> HIDE DEF free, free2, bit, bit2
  <2>7. QED
    BY <1>1, <1>2, <1>3, <1>4, <2>5, <2>6 DEF LoopShrinks
<1>6. CASE MmapNoGap
  <2>1. free2 = free /\ bit2 = bit
    BY <1>6 DEF MmapNoGap, Free
  <2>2. alloc_len' \in Nat /\ alloc_len' < alloc_len
    BY <1>2, <1>6 DEF MmapNoGap, InLoop, AtLeastAPage
  <2>3. LoopLeft' = alloc_len' + free + bit
    BY <1>4, <2>1, Zenon
  <2>4. bit \in Nat
    BY <1>3
  <2>5. LoopLeft = alloc_len + free + bit /\ free \in Nat
    BY <1>1, <1>4, Zenon
  <2> HIDE DEF free, free2, bit, bit2
  <2>6. LoopLeft' < LoopLeft
    BY <1>2, <2>2, <2>3, <2>4, <2>5, SumGrows, Zenon
  <2>7. QED
    BY <2>6 DEF LoopShrinks
<1>7. CASE MmapError \/ Return
  <2>1. /\ free2 = free /\ alloc_len' = alloc_len /\ status = "loop" /\ status' # "loop"
    BY <1>7 DEF MmapError, Return, InLoop, Free
  <2>2. bit = 1 /\ bit2 = 0
    BY <2>1 DEF Bit
  <2> HIDE DEF free, free2, bit, bit2
  <2>3. QED
    BY <1>1, <1>2, <1>4, <2>1, <2>2 DEF LoopShrinks
<1>8. QED
  BY <1>5, <1>6, <1>7 DEF HalvingNext

\* Each mmap of the loop, whether it finds a gap or not, brings main() nearer to
\* its end.
THEOREM LoopStops ==
  HalvingSpec => [](LoopLeft \in Nat) /\ [][LoopLeft' < LoopLeft]_halvingVars
<1>1. HalvingTypeOK => LoopLeftIsNat
  <2> SUFFICES ASSUME HalvingTypeOK PROVE LoopLeft \in Nat
    BY DEF LoopLeftIsNat
  <2>1. alloc_len \in Nat
    BY HalfOfSize DEF HalvingTypeOK
  <2>2. Bit(status = "loop") \in {0, 1}
    BY DEF Bit
  <2>3. QED
    BY <2>1, <2>2, FreeIsFinite DEF LoopLeft
<1>2. HalvingTypeOK /\ HalvingTypeOK' /\ [HalvingNext]_halvingVars => [LoopShrinks]_halvingVars
  BY LoopGetsShorter
<1>3. HalvingSpec => []LoopLeftIsNat /\ [][LoopShrinks]_halvingVars
  BY <1>1, <1>2, TypeCorrect, PTL DEF HalvingSpec
<1>4. QED
  BY <1>3 DEF LoopLeftIsNat, LoopShrinks
=============================================================================
