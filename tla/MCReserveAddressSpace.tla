------------------------ MODULE MCReserveAddressSpace ------------------------
\* ReserveAddressSpace on 7 pages, with every set of pages in use at the start.
EXTENDS ReserveAddressSpace
MCPages == 0 .. 6
MCSizes == {1, 2, 4}
=============================================================================
