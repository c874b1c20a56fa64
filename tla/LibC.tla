-------------------------------- MODULE LibC --------------------------------
(***************************************************************************)
(* Numbers as text: itoa and atoi of kernel/libc/stdlib.cpp and strlen, as *)
(* operators on a piece of memory, a function from 0 on to characters.     *)
(***************************************************************************)
EXTENDS Integers, Sequences, FiniteSetsExt

NUL  == 0
Zero == 48   \* '0'
Dash == 45   \* '-'

strlen(mem) == Min({i \in DOMAIN mem : mem[i] = NUL})

\* The characters that a function taking a string finds at mem.
StringAt(mem) == [i \in 1 .. strlen(mem) |-> mem[i - 1]]

\* What is left of the value after i digits; an int has at most ten.
left(value, i) ==
  LET rest[k \in 0 .. 10] == IF k = 0 THEN value ELSE rest[k - 1] \div 10
  IN  rest[i]

Digits(value) == Min({n \in 1 .. 10 : left(value, n) = 0})

\* The digits from start_idx on, the lowest first.
populate(mem, start_idx, value) ==
  [i \in DOMAIN mem |->
     IF i \in start_idx .. (start_idx + Digits(value) - 1)
     THEN Zero + (left(value, i - start_idx) % 10)
     ELSE mem[i]]

\* A mutant leaves the digits as they were populated.
reverse_not(mem, start_idx, populate_idx) == mem

reverse(mem, start_idx, populate_idx) ==
  LET Swap(m, r) == [m EXCEPT ![r] = m[populate_idx - r - 1],
                              ![populate_idx - r - 1] = m[r]]
      swapped[k \in 0 .. (populate_idx \div 2)] ==
        IF k = 0 THEN mem ELSE Swap(swapped[k - 1], start_idx + k - 1)
  IN  swapped[populate_idx \div 2]

\* Base 10.  A zero is not terminated.
itoa(value, mem) ==
  IF value = 0 THEN [mem EXCEPT ![0] = Zero]
  ELSE LET start_idx    == IF value < 0 THEN 1 ELSE 0
           magnitude    == IF value < 0 THEN -value ELSE value
           signed       == IF value < 0 THEN [mem EXCEPT ![0] = Dash] ELSE mem
           populate_idx == start_idx + Digits(magnitude)
       IN  [reverse(populate(signed, start_idx, magnitude), start_idx, populate_idx)
              EXCEPT ![populate_idx] = NUL]

atoi(mem) ==
  LET len == strlen(mem)
      base_10_multiplier[idx \in 0 .. len] ==
        IF idx = 0 THEN 1 ELSE base_10_multiplier[idx - 1] * 10
      result[idx \in 0 .. len] ==
        IF idx = 0 THEN 0
        ELSE result[idx - 1] + base_10_multiplier[idx - 1] * (mem[len - idx] - Zero)
  IN  result[len]

============================================================================
