----------------------------- MODULE AddressSpace -----------------------------
(***************************************************************************)
(* The kernel's mappings, as the test programs use them.  Memory is        *)
(* counted in pages.  An address space maps a page to a page of an object  *)
(* (anonymous memory, a System V segment or a file): two addresses that    *)
(* map the same page of the same object are aliases.                       *)
(*                                                                         *)
(* A VMA is not stored: neighbouring pages are in one VMA exactly when     *)
(* they map consecutive pages of one object in the same way, since the     *)
(* kernel splits a VMA when they begin to differ and merges two again.     *)
(***************************************************************************)
EXTENDS Naturals, Functions, TLC

\* size: the pages the object has; a mapping may reach beyond.
Mapping(obj, size, prot, grows) ==
  [obj |-> obj, size |-> size, idx |-> 0, prot |-> prot, grows |-> grows]

Span(p, n) == p .. p + n - 1

\* mmap of n pages at p, over what was mapped there.
Map(space, p, n, m) == [q \in Span(p, n) |-> [m EXCEPT !.idx = @ + (q - p)]] @@ space

Unmap(space, p, n) == Restrict(space, DOMAIN space \ Span(p, n))

Protect(space, pages, prot) ==
  [q \in DOMAIN space |-> IF q \in pages THEN [space[q] EXCEPT !.prot = prot] ELSE space[q]]

SameVma(space, p, q) ==
  /\ Span(p, q - p + 1) \subseteq DOMAIN space
  /\ \A r \in p .. q - 1 : space[r + 1] = [space[r] EXCEPT !.idx = @ + 1]

\* PROT_GROWSDOWN: from the start of the VMA that p is in, if that grows down.
Grown(space, p, n) ==
  IF space[p].grows THEN {q \in DOMAIN space : q <= p /\ SameVma(space, q, p)} \cup Span(p, n)
  ELSE {}

\* mremap may move n pages only out of one VMA; with n = 0 it mirrors p.
CanMremap(space, p, n) == p \in DOMAIN space /\ (n > 0 => SameVma(space, p, p + n - 1))

Mremapped(space, p, n, newn, to) == Map(Unmap(space, p, n), to, newn, space[p])

\* shmdt at p: what is still mapped of the segment that was attached there.
Detach(space, p) ==
  Restrict(space, {q \in DOMAIN space : ~ /\ q >= p /\ space[q].obj = space[p].obj
                                          /\ space[q].idx = q - p})

\* How an access to a page ends.
Access(space, p, need) ==
  CASE p \notin DOMAIN space -> "SIGSEGV"
    [] p \in DOMAIN space /\ need \notin space[p].prot -> "SIGSEGV"
    [] p \in DOMAIN space /\ need \in space[p].prot ->
         IF space[p].idx >= space[p].size THEN "SIGBUS" ELSE "ok"
=============================================================================
