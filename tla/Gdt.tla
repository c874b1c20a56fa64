-------------------------------- MODULE Gdt --------------------------------
(***************************************************************************)
(* Segment descriptors: kernel/arch/i386/gdt/gdt.cpp as operators, and how *)
(* the processor reads a descriptor back.  Numbers are written in digits   *)
(* of base Nibble (16 in the code): a byte is two digits, UINT16_MAX has   *)
(* four, a limit of 4 KB granularity ends in three, an address has eight.  *)
(***************************************************************************)
EXTENDS Integers

CONSTANT Nibble

ASSUME NibbleAssumption == Nibble \in Nat /\ Nibble > 1

Byte == Nibble * Nibble

UINT16_MAX == Byte * Byte - 1
UINT32_MAX == Byte * Byte * Byte * Byte - 1

\* The three low digits of a limit, 0xfff in the code.
LowMask == Nibble * Byte - 1

invalid_limit(source) ==
  source.limit > UINT16_MAX /\ source.limit % (LowMask + 1) # LowMask

\* A mutant: both upper parts of the base come from the third byte.
encode_gdt_entry_basehigh(source) ==
  LET large == source.limit > UINT16_MAX
      limit == IF large THEN source.limit \div (LowMask + 1) ELSE source.limit
  IN  [segment0    |-> limit % Byte,
       segment1    |-> (limit \div Byte) % Byte,
       high_flags  |-> [granularity |-> large, limit |-> (limit \div (UINT16_MAX + 1)) % Nibble],
       base_low0   |-> source.base % Byte,
       base_low1   |-> (source.base \div Byte) % Byte,
       base_middle |-> (source.base \div (Byte * Byte)) % Byte,
       base_high   |-> (source.base \div (Byte * Byte)) % Byte,
       access      |-> source.access]

encode_gdt_entry(source) ==
  LET large == source.limit > UINT16_MAX
      limit == IF large THEN source.limit \div (LowMask + 1) ELSE source.limit
  IN  [segment0    |-> limit % Byte,
       segment1    |-> (limit \div Byte) % Byte,
       high_flags  |-> [granularity |-> large, limit |-> (limit \div (UINT16_MAX + 1)) % Nibble],
       base_low0   |-> source.base % Byte,
       base_low1   |-> (source.base \div Byte) % Byte,
       base_middle |-> (source.base \div (Byte * Byte)) % Byte,
       base_high   |-> (source.base \div (Byte * Byte * Byte)) % Byte,
       access      |-> source.access]

structured_gdt_to_gdt(structured_gdt) ==
  [entry \in DOMAIN structured_gdt |-> encode_gdt_entry(structured_gdt[entry])]

----------------------------------------------------------------------------
\* The processor puts the parts together and extends a limit in pages.
DecodeEntry(e) ==
  LET limit == e.segment0 + e.segment1 * Byte + e.high_flags.limit * (Byte * Byte)
  IN  [base   |-> e.base_low0 + e.base_low1 * Byte + e.base_middle * (Byte * Byte)
                    + e.base_high * (Byte * Byte * Byte),
       limit  |-> IF e.high_flags.granularity THEN limit * (LowMask + 1) + LowMask ELSE limit,
       access |-> e.access]

\* A selector is eight times an index, with a privilege level below it.
Segment(gdt, selector) == DecodeEntry(gdt[selector \div 8])

============================================================================
