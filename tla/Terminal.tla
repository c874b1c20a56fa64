------------------------------ MODULE Terminal ------------------------------
(***************************************************************************)
(* The text console: kernel/arch/i386/tty.cpp and vga.h as operators on a  *)
(* terminal value.  text is a history field: the characters that show and  *)
(* were written since the screen was last cleared.                         *)
(***************************************************************************)
EXTENDS Integers, SequencesExt

CONSTANTS
  VGA_WIDTH,
  VGA_HEIGHT

ASSUME TerminalAssumption ==
  VGA_WIDTH \in Nat \ {0} /\ VGA_HEIGHT \in Nat \ {0}

NewLine == 10
Space   == 32

VGA_COLOUR_LIGHT_GREY  == 7
VGA_COLOUR_RED         == 4
VGA_COLOUR_LIGHT_GREEN == 10

Cells == 0 .. (VGA_WIDTH * VGA_HEIGHT - 1)

vga_entry(character, colour) == [char |-> character, colour |-> colour]

terminal_initialise ==
  [row    |-> 0,
   column |-> 0,
   colour |-> VGA_COLOUR_LIGHT_GREY,
   buffer |-> [i \in Cells |-> vga_entry(Space, VGA_COLOUR_LIGHT_GREY)],
   text   |-> << >>]

terminal_set_colour(term, colour) == [term EXCEPT !.colour = colour]

\* No more space: start again.
ClearIfFull(term) == IF term.row >= VGA_HEIGHT THEN terminal_initialise ELSE term

terminal_write_char_at(term, character) ==
  [term EXCEPT !.buffer[term.row * VGA_WIDTH + term.column] = vga_entry(character, term.colour),
               !.text = IF character = Space THEN @ ELSE Append(@, character)]

\* A mutant: a full line starts again on the same row.
terminal_write_char_stay(term, character) ==
  IF character = NewLine
  THEN ClearIfFull([term EXCEPT !.column = 0, !.row = @ + 1])
  ELSE [terminal_write_char_at(term, character) EXCEPT !.column = (@ + 1) % VGA_WIDTH]

terminal_write_char(term, character) ==
  LET put  == terminal_write_char_at(term, character)
      full == term.column + 1 >= VGA_WIDTH
  IN  ClearIfFull(
        IF character = NewLine
        THEN [term EXCEPT !.column = 0, !.row = @ + 1]
        ELSE [put EXCEPT !.column = IF full THEN 0 ELSE @ + 1,
                         !.row    = IF full THEN @ + 1 ELSE @])

\* The terminal before a character is a bound variable so that TLC evaluates
\* it once.
terminal_write(term, string) ==
  LET written[idx \in 0 .. Len(string)] ==
        IF idx = 0 THEN term
        ELSE CHOOSE after \in {terminal_write_char(before, string[idx]) :
                                 before \in {written[idx - 1]}} : TRUE
  IN  written[Len(string)]

----------------------------------------------------------------------------
\* The characters that show on the screen, in reading order.
OnScreen(term) ==
  LET shown[i \in 0 .. (VGA_WIDTH * VGA_HEIGHT)] ==
        IF i = 0 THEN << >>
        ELSE IF term.buffer[i - 1].char = Space THEN shown[i - 1]
             ELSE Append(shown[i - 1], term.buffer[i - 1].char)
  IN  shown[VGA_WIDTH * VGA_HEIGHT]

============================================================================
