----------------------------- MODULE AgPassword -----------------------------
(***************************************************************************)
(* The password field of src/agui/src/agui.c: the gadget shows asterisks,  *)
(* the text typed is kept beside it, and a string edit hook keeps the two  *)
(* in step by what each keystroke changed.  A module of operators.         *)
(*                                                                         *)
(*   real   pw_real()                                                      *)
(*   mask   the number of asterisks in pw_Mask                             *)
(*   view   what the gadget shows                                          *)
(*   meant  ghost: what somebody who edits by the view has typed           *)
(*   mixed  ghost: the view was drawn anew with another length than real   *)
(***************************************************************************)
EXTENDS Integers, Sequences

CONSTANT MaxChars  \* ag_MaxChars

Star == "*"
Letter == STRING \cup {Star}
Stars(n) == [i \in 1..n |-> Star]

\* AGUI_SetString(), and pw_new() with AGE_OPEN after it.
SetPassword(text) ==
  [real |-> text, mask |-> Len(text), view |-> Stars(Len(text)),
   meant |-> text, mixed |-> FALSE]

\* What Intuition does to its work buffer before the hook is called: a
\* character before position at, one position deleted, everything cleared.
InsertedAt(s, at, c) == SubSeq(s, 1, at - 1) \o <<c>> \o SubSeq(s, at, Len(s))
DeletedAt(s, at) == SubSeq(s, 1, at - 1) \o SubSeq(s, at + 1, Len(s))

Inserting(p, work) == Len(work) > Len(p.real)

\* pw_edit(): the lengths tell what was inserted or removed, the cursor where.
Kept(p, work, at) ==
  LET old == Len(p.real)
      new == Len(work)
  IN IF Inserting(p, work)
     THEN SubSeq(p.real, 1, at) \o SubSeq(work, at + 1, at + new - old)
            \o SubSeq(p.real, at + 1, old)
     ELSE SubSeq(p.real, 1, at) \o SubSeq(p.real, at + 1 + old - new, old)

\* A single character inserted is left legible.
Shown(p, work, at, real) ==
  [i \in 1..Len(work) |->
    IF Len(work) = Len(p.real) + 1 /\ i = at + 1 THEN real[i] ELSE Star]

EditedBeforeCursor(p, work, cursor) ==  \* Mutant: removed before the cursor
  LET n == Len(work) - Len(p.real)
      at == IF Inserting(p, work) THEN (IF cursor > n THEN cursor - n ELSE 0)
            ELSE IF cursor > 0 THEN cursor - 1 ELSE 0
      real == Kept(p, work, at)
  IN [p EXCEPT !.real = real, !.view = Shown(p, work, at, real)]

Edited(p, work, cursor) ==
  LET n == Len(work) - Len(p.real)
      at == IF ~Inserting(p, work) THEN cursor ELSE IF cursor > n THEN cursor - n ELSE 0
      real == Kept(p, work, at)
  IN [p EXCEPT !.real = real, !.view = Shown(p, work, at, real)]

\* Nobody knows what is meant by a view that has another length.
Typed(p, at, c) ==
  [Edited(p, InsertedAt(p.view, at, c), at) EXCEPT
     !.meant = IF p.mixed THEN @ ELSE InsertedAt(@, at, c)]
Deleted(p, at) ==
  [Edited(p, DeletedAt(p.view, at), at - 1) EXCEPT
     !.meant = IF p.mixed THEN @ ELSE DeletedAt(@, at)]
Cleared(p) == [Edited(p, <<>>, 0) EXCEPT !.meant = <<>>]

\* Everything one key can do.
Keyed(p, chars) ==
  (IF Len(p.view) < MaxChars
   THEN {Typed(p, at, c) : at \in 1..(Len(p.view) + 1), c \in chars} ELSE {})
    \cup {Deleted(p, at) : at \in 1..Len(p.view)} \cup {Cleared(p)}

\* pw_hide(), when the field is left with Return or Tab.
Hidden(p) == [p EXCEPT !.mask = Len(p.real), !.view = Stars(Len(p.real))]

\* relayout(): the gadget is made again and shows pw_Mask as it is.
Redrawn(p) ==
  [p EXCEPT !.view = Stars(p.mask), !.mixed = @ \/ p.mask # Len(p.real)]

\* The text kept is the one typed, and the view has its length and shows at
\* most one character of it.
InStep(p) ==
  /\ p.real = p.meant /\ Len(p.view) = Len(p.real)
  /\ \A i \in 1..Len(p.view) : p.view[i] \in {Star, p.real[i]}
  /\ \A i, j \in 1..Len(p.view) : p.view[i] # Star /\ p.view[j] # Star => i = j
=============================================================================
