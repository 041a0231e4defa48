------------------------------- MODULE Editor -------------------------------
(* What the shell's line editor promises: a line with a cursor in it, over a *)
(* list of earlier lines, each of which can be changed in place.  A line is  *)
(* what stands before the cursor and what stands after it.                   *)
EXTENDS Integers, SequencesExt

CONSTANTS Char,    \* the characters that can be typed
          BLANK,   \* the one that ends a word
          CAP,     \* a line of this length is too long
          HISTORY  \* so many earlier lines are kept

VARIABLES before, after,  \* the line, before and after the cursor
          past,           \* the earlier lines, the oldest first
          at,             \* the line being edited: past[at], or the new one after them
          draft           \* the new line as it was left

vars == <<before, after, past, at, draft>>
held == <<past, at, draft>>

Line      == before \o after
IsNew     == at = Len(past) + 1
Blank(l)  == ToSet(l) \subseteq {BLANK}
Show(l)   == before' = l /\ after' = <<>>

\* A line without its last word and the blanks after that.
WithoutWord(l) ==
    LET word  == {k \in DOMAIN l : l[k] # BLANK}
        last  == CHOOSE k \in word : \A j \in word : j <= k
        first == CHOOSE k \in 1..last : /\ \A j \in k..last : l[j] # BLANK
                                        /\ k = 1 \/ l[k - 1] = BLANK
    IN  IF word = {} THEN <<>> ELSE SubSeq(l, 1, first - 1)

Init == /\ before = <<>> /\ after = <<>> /\ draft = <<>>
        /\ past = <<>> /\ at = 1

\* A line that gets too long is thrown away.
Type == /\ \E c \in Char : before' = IF Len(Line) + 1 = CAP THEN <<>> ELSE Append(before, c)
        /\ after' = IF Len(Line) + 1 = CAP THEN <<>> ELSE after
        /\ UNCHANGED held

Rubout == before # <<>> /\ before' = Front(before) /\ UNCHANGED <<after, held>>

\* The cursor goes anywhere in the line.
Move == before' \o after' = Line /\ UNCHANGED held

KillRight == after' = <<>> /\ UNCHANGED <<before, held>>

KillLeft == before' = <<>> /\ UNCHANGED <<after, held>>

KillWord == before' = WithoutWord(before) /\ UNCHANGED <<after, held>>

\* The line is put back where it came from.
PutBack == IF IsNew THEN draft' = Line /\ UNCHANGED past
           ELSE past' = [past EXCEPT ![at] = Line] /\ UNCHANGED draft

Up   == at > 1 /\ PutBack /\ at' = at - 1 /\ Show(past[at - 1])

Down == /\ ~IsNew /\ PutBack /\ at' = at + 1
        /\ Show(IF at = Len(past) THEN draft ELSE past[at + 1])

\* A new line is the last of those kept, and the next one is begun below it.
Record == /\ past' = IF Len(past) < HISTORY THEN Append(past, Line)
                     ELSE Append(Tail(past), Line)
          /\ at' = Len(past') + 1

\* A blank line is not recorded, and one like the last need not be; what is typed next
\* is a new line in any case.
Enter == /\ Show(<<>>) /\ UNCHANGED draft
         /\ \/ ~Blank(Line) /\ Record
            \/ /\ Blank(Line) \/ (past # <<>> /\ Line = Last(past))
               /\ at' = Len(past) + 1 /\ UNCHANGED past

Next == Type \/ Rubout \/ Move \/ KillRight \/ KillLeft \/ KillWord \/ Up \/ Down \/ Enter

Spec == Init /\ [][Next]_vars
=============================================================================
