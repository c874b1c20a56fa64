---------------------------- MODULE MCPathParser ----------------------------
(***************************************************************************)
(* Every short string over a few characters.                               *)
(***************************************************************************)
EXTENDS PathParser

CONSTANT MaxLen

MCChars == {"0", "a", ":", "/"}

MCAllPaths == UNION {[1 .. n -> MCChars] : n \in 0 .. MaxLen}

\* No empty component behind the drive; a final slash is allowed.
NoEmptyComponent(p) == \A i \in 3 .. (Len(p) - 1) : ~(p[i] = "/" /\ p[i + 1] = "/")

MCPaths == {p \in MCAllPaths : NoEmptyComponent(p)}

\* A path with the drive in front, up to two characters longer.
MCDrivePaths ==
  MCPaths \cup {p \in {<<"0", ":", "/">> \o q : q \in UNION {[1 .. n -> {"a", "/"}] : n \in 0 .. MaxLen}} :
                  NoEmptyComponent(p)}

============================================================================
