------------------------------- MODULE Paging -------------------------------
(***************************************************************************)
(* Page directories: kernel/arch/i386/paging/paging.cpp as operators.      *)
(* Addresses are bytes.  The address in an entry is a page number, because *)
(* every address the code puts there is a multiple of the page size.       *)
(***************************************************************************)
EXTENDS Integers, SequencesExt

CONSTANTS
  PAGING_PAGE_SIZE,
  PAGING_TOTAL_ENTRIES_PER_TABLE,
  EntrySize,   \* sizeof(PAGING_ENTRY)
  EINVAL

(* A directory and a table fill one page.                                  *)
ASSUME PagingAssumption ==
  /\ EntrySize \in Nat \ {0}
  /\ PAGING_TOTAL_ENTRIES_PER_TABLE \in Nat \ {0}
  /\ PAGING_PAGE_SIZE = EntrySize * PAGING_TOTAL_ENTRIES_PER_TABLE

PAGING_IS_PRESENT      == "P"
PAGING_IS_WRITABLE     == "W"
PAGING_ACCESS_FROM_ALL == "U"

Idx       == 0 .. (PAGING_TOTAL_ENTRIES_PER_TABLE - 1)
TableSpan == PAGING_TOTAL_ENTRIES_PER_TABLE * PAGING_PAGE_SIZE
AddrSpace == PAGING_TOTAL_ENTRIES_PER_TABLE * TableSpan

----------------------------------------------------------------------------
paging_is_aligned(address) == address % PAGING_PAGE_SIZE = 0

paging_get_idxs(virtual_address) ==
  [dir   |-> virtual_address \div TableSpan,
   table |-> (virtual_address % TableSpan) \div PAGING_PAGE_SIZE]

\* The identity mapping that paging_new fills the tables with.
identity(flags) ==
  [d \in Idx |-> [t \in Idx |->
     [page  |-> d * PAGING_TOTAL_ENTRIES_PER_TABLE + t,
      flags |-> flags]]]

\* For an address at a page boundary: paging_get_idxs cannot fail.
paging_set(entries, virtual_address, value) ==
  LET idxs == paging_get_idxs(virtual_address)
  IN  [entries EXCEPT ![idxs.dir][idxs.table] = value]

\* The overload of paging_map that counts pages: mapped[i] is what i turns of
\* its loop leave.
paging_map_pages(entries, virtual_address, physical_address, total_pages, flags) ==
  LET mapped[i \in 0 .. total_pages] ==
        IF i = 0 THEN entries
        ELSE paging_set(mapped[i - 1], virtual_address + (i - 1) * PAGING_PAGE_SIZE,
                        [page  |-> (physical_address \div PAGING_PAGE_SIZE) + (i - 1),
                         flags |-> flags])
  IN  mapped[total_pages]

\* A mutant counts bytes, and one page too many.
pages_between_up(start, end) == (end - start) \div PAGING_PAGE_SIZE + 1

\* The difference of two pointers to entries, in pages.
pages_between(start, end) == ((end - start) \div EntrySize) \div PAGING_PAGE_SIZE

paging_map(entries, virtual_address, physical_address, physical_address_end, flags) ==
  IF /\ paging_is_aligned(virtual_address)
     /\ paging_is_aligned(physical_address)
     /\ paging_is_aligned(physical_address_end)
     /\ physical_address_end >= physical_address
  THEN [result  |-> 0,
        entries |-> paging_map_pages(entries, virtual_address, physical_address,
                      pages_between(physical_address, physical_address_end), flags)]
  ELSE [result |-> -EINVAL, entries |-> entries]

\* The rounded address is added to the address itself.
paging_align(address) ==
  IF paging_is_aligned(address) THEN address
  ELSE (address + (address - (address % PAGING_PAGE_SIZE) + PAGING_PAGE_SIZE)) % AddrSpace

============================================================================
