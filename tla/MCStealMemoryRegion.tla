------------------------ MODULE MCStealMemoryRegion -------------------------
\* StealMemoryRegion on every address space of MCPages pages from MCFirst on, whose
\* numbers have one or two digits.
EXTENDS StealMemoryRegion
CONSTANTS MCFirst, MCPages

MCPastLast == MCFirst + MCPages

\* What a page can be: free, the first of a mapping, or a further one of the
\* mapping before it.
Cells == [MCFirst .. MCPastLast - 1 -> {"free", "first", "more"}]
WellFormed(c) == \A p \in DOMAIN c : c[p] = "more" => p > MCFirst /\ c[p - 1] # "free"
EndOf(c, p) == CHOOSE q \in p + 1 .. MCPastLast :
                 /\ \A m \in p + 1 .. q - 1 : c[m] = "more"
                 /\ q = MCPastLast \/ c[q] # "more"
LayoutOf(c) == {Interval(p, EndOf(c, p)) : p \in {q \in DOMAIN c : c[q] = "first"}}
MCLayouts == {LayoutOf(c) : c \in {d \in Cells : WellFormed(d)}}

\* 17 one-page mappings with a free page in front of each.
MCSeventeenHoles == {{Interval(2 * k, 2 * k + 1) : k \in 1 .. 17}}
=============================================================================
