------------------------------ MODULE LineEdit ------------------------------
(* readline (user/sh.c) and the history of the shell (user/lib/history.c):   *)
(* the buffer as bytes with a length and a cursor, and the ring of the last  *)
(* HISTORY_SIZE lines.  One action is one key, up to the next read.  What is *)
(* drawn on the console is left out.                                         *)
EXTENDS Integers, SequencesExt, FiniteSetsExt

CONSTANTS Char, BLANK,
          NUL,           \* the byte 0
          CAP,           \* the size of buf, 1024
          HISTORY_SIZE,  \* 20
          MaxKeys        \* bound: so many keys are pressed

ASSUME CapAssumption  == CAP \in Nat \ {0, 1} /\ NUL \notin Char /\ BLANK \in Char
ASSUME RingAssumption == HISTORY_SIZE \in Nat \ {0} /\ MaxKeys \in Nat

VARIABLES buf,    \* buf[0 .. CAP-1], and buf[CAP], the byte after it
          i, len, \* the cursor and the length
          hisBuffer, hisBuffer_ptr, now_ptr, cursor_ptr, newBuffer,
          file,   \* the lines of /.mos_history
          keys    \* history: the keys pressed

line    == <<buf, i, len>>
history == <<hisBuffer, hisBuffer_ptr, now_ptr, cursor_ptr, newBuffer, file>>
vars    == <<line, history, keys>>

Byte  == Char \cup {NUL}
Index == 0..CAP
-----------------------------------------------------------------------------
(* Bytes. *)

\* The string at b: up to the first NUL.
Str(b) == [k \in 1..Min({j \in Index : b[j] = NUL} \cup {CAP + 1}) |-> b[k - 1]]

\* strcpy(b, s)
Copy(b, s) == [k \in Index |-> IF k < Len(s) THEN s[k + 1] ELSE IF k = Len(s) THEN NUL ELSE b[k]]

\* memmove(b + to, b + from, n); what it reads after the last byte is not looked at.
memmove(b, to, from, n) ==
    [k \in Index |-> IF k \in to..(to + n - 1)
                     THEN IF k - to + from \in Index THEN b[k - to + from] ELSE NUL
                     ELSE b[k]]

Terminate(b, k) == [b EXCEPT ![k] = NUL]

\* The first instructions of readline: the bytes of the last line stay.
Begin(b) == buf' = Terminate(b, 0) /\ i' = 0 /\ len' = 0
-----------------------------------------------------------------------------
(* The keys. *)

(* A line of CAP bytes leaves the loop: the rest of it is read, up to the    *)
(* newline, and it counts as empty.                                          *)
Insert ==
    /\ \E c \in Char :
         LET b == [memmove(Terminate(buf, len + 1), i + 1, i, len - i) EXCEPT ![i] = c]
         IN  IF len + 1 < CAP THEN buf' = b /\ i' = i + 1 /\ len' = len + 1 ELSE Begin(b)
    /\ UNCHANGED history

Backspace ==
    /\ i > 0
    /\ buf' = Terminate(memmove(buf, i - 1, i, len - i + 1), len - 1)
    /\ i' = i - 1 /\ len' = len - 1
    /\ UNCHANGED history

CtrlA == i' = 0 /\ UNCHANGED <<buf, len, history>>
CtrlE == i' = len /\ UNCHANGED <<buf, len, history>>
Left  == i > 0 /\ i' = i - 1 /\ UNCHANGED <<buf, len, history>>
Right == i < len /\ i' = i + 1 /\ UNCHANGED <<buf, len, history>>

CtrlK ==
    /\ buf' = Terminate(buf, i) /\ len' = i
    /\ UNCHANGED <<i, history>>

\* It moves as many bytes as it removes, not as many as are left.
CtrlU ==
    /\ buf' = Terminate(memmove(buf, 0, i, i), len - i)
    /\ len' = len - i /\ i' = 0
    /\ UNCHANGED history

\* Back over blanks, then over the word.
WordStart ==
    LET wordEnd == Max({0} \cup {j \in 1..i : buf[j - 1] # BLANK})
    IN  Max({0} \cup {j \in 1..wordEnd : buf[j - 1] = BLANK})

CtrlW ==
    LET j == WordStart
    IN  /\ buf' = Terminate(memmove(buf, j, i, len - i), len - (i - j))
        /\ len' = len - (i - j) /\ i' = j
        /\ UNCHANGED history
-----------------------------------------------------------------------------
(* The history. *)

prehisid(id)  == (id - 1 + HISTORY_SIZE) % HISTORY_SIZE
nexthisid(id) == (id + 1) % HISTORY_SIZE
modid(id)     == (id + HISTORY_SIZE) % HISTORY_SIZE

\* Mutant: up goes back without end.
is_up_ableAlways == cursor_ptr # 0

is_up_able == cursor_ptr # 0 /\ cursor_ptr + HISTORY_SIZE # now_ptr
is_down_able == now_ptr # cursor_ptr
is_newline == now_ptr = cursor_ptr

\* print_hisline, print_curline
Shown(s) == buf' = Copy(buf, s) /\ i' = Len(s) /\ len' = Len(s)

pressUP ==
    /\ is_up_able
    /\ IF is_newline THEN newBuffer' = Str(buf) /\ UNCHANGED hisBuffer
       ELSE hisBuffer' = [hisBuffer EXCEPT ![modid(cursor_ptr)] = Str(buf)] /\ UNCHANGED newBuffer
    /\ cursor_ptr' = cursor_ptr - 1
    /\ Shown(hisBuffer'[modid(cursor_ptr - 1)])
    /\ UNCHANGED <<hisBuffer_ptr, now_ptr, file>>

\* Mutant: what was changed in the line that is left is dropped.
pressDOWNDrops ==
    /\ is_down_able
    /\ cursor_ptr' = cursor_ptr + 1
    /\ Shown(IF now_ptr = cursor_ptr + 1 THEN newBuffer ELSE hisBuffer[modid(cursor_ptr + 1)])
    /\ UNCHANGED <<hisBuffer, hisBuffer_ptr, now_ptr, newBuffer, file>>

pressDOWN ==
    /\ is_down_able
    /\ hisBuffer' = [hisBuffer EXCEPT ![modid(cursor_ptr)] = Str(buf)]
    /\ cursor_ptr' = cursor_ptr + 1
    /\ Shown(IF now_ptr = cursor_ptr + 1 THEN newBuffer ELSE hisBuffer'[modid(cursor_ptr + 1)])
    /\ UNCHANGED <<hisBuffer_ptr, now_ptr, newBuffer, file>>

\* The lines of a list in their order, without the empty ones.
Written(s) ==
    LET upto[n \in 0..Len(s)] == IF n = 0 THEN <<>>
                                 ELSE IF s[n] = <<>> THEN upto[n - 1]
                                 ELSE Append(upto[n - 1], s[n])
    IN  upto[Len(s)]

\* Mutant: the ring is written from its first slot.
save2fileFlat(ring, ptr) == Written([k \in 1..HISTORY_SIZE |-> ring[k - 1]])

\* The slots from ring[ptr], the oldest.
save2file(ring, ptr) == Written([k \in 1..HISTORY_SIZE |-> ring[modid(ptr + k - 1)]])

\* A line like the last one is not stored, nor does the cursor leave its place.
store_cmd(cmd) ==
    IF cursor_ptr # 0 /\ cmd = hisBuffer[prehisid(hisBuffer_ptr)] THEN UNCHANGED history
    ELSE /\ hisBuffer' = [hisBuffer EXCEPT ![hisBuffer_ptr] = cmd]
         /\ hisBuffer_ptr' = nexthisid(hisBuffer_ptr)
         /\ now_ptr' = now_ptr + 1 /\ cursor_ptr' = now_ptr + 1
         /\ file' = save2file(hisBuffer', hisBuffer_ptr')
         /\ UNCHANGED newBuffer

(* The newline, and the main loop up to the next readline.                   *)
Return ==
    LET cmd == Str(Terminate(buf, len))
    IN  /\ IF ToSet(cmd) \subseteq {BLANK} THEN UNCHANGED history ELSE store_cmd(cmd)
        /\ Begin(Terminate(buf, len))
-----------------------------------------------------------------------------
Init ==
    /\ buf = [k \in Index |-> NUL] /\ i = 0 /\ len = 0
    /\ hisBuffer = [k \in 0..(HISTORY_SIZE - 1) |-> <<>>] /\ newBuffer = <<>>
    /\ hisBuffer_ptr = 0 /\ now_ptr = 0 /\ cursor_ptr = 0 /\ file = <<>> /\ keys = 0

Next ==
    /\ keys < MaxKeys /\ keys' = keys + 1
    /\ \/ Insert \/ Backspace \/ CtrlA \/ CtrlE \/ Left \/ Right \/ CtrlK \/ CtrlU \/ CtrlW
       \/ pressUP \/ pressDOWN \/ Return

Spec == Init /\ [][Next]_vars
-----------------------------------------------------------------------------
(* Type invariant of the editor and the history.                             *)
Text == BoundedSeq(Char, CAP - 1)

TypeOK ==
    /\ buf \in [Index -> Byte] /\ len \in 0..(CAP - 1) /\ i \in 0..len
    /\ hisBuffer \in [0..(HISTORY_SIZE - 1) -> Text] /\ newBuffer \in Text
    /\ hisBuffer_ptr \in 0..(HISTORY_SIZE - 1)
    /\ keys \in 0..MaxKeys /\ now_ptr \in 0..MaxKeys /\ cursor_ptr \in 0..now_ptr
    /\ Len(file) <= HISTORY_SIZE /\ \A k \in DOMAIN file : file[k] \in Text \ {<<>>}

(* Before every key the buffer is a string of exactly len bytes: what        *)
(* strcpy, strlen and printf take for the line is the line, wherever the     *)
(* cursor was and whatever longer line the buffer held before (user/sh.c     *)
(* 336-504, user/lib/history.c 152-203).                                     *)
Terminated == buf[len] = NUL /\ \A k \in 0..(len - 1) : buf[k] # NUL

\* The lines kept, and the place of the one being edited among them.
Kept == Min({now_ptr, HISTORY_SIZE})
Past == [k \in 1..Kept |-> hisBuffer[modid(now_ptr - Kept + k - 1)]]

(* The two counters of the history fit the ring: the slot written next is    *)
(* that of now_ptr, and the cursor is on a line that is still kept           *)
(* (user/lib/history.c 33-79, 124-130, 171-203).                             *)
RingSound == hisBuffer_ptr = now_ptr % HISTORY_SIZE /\ cursor_ptr >= now_ptr - Kept

(* The buffer and the ring hold what their counters say.                     *)
Sound == TypeOK /\ Terminated /\ RingSound

(* When the history file is written it holds the lines kept, the oldest      *)
(* first, however often the ring has wrapped (user/lib/history.c 83-99).     *)
FileInOrder == [][file' # file => file' = Written(Past')]_vars

Before == [k \in 1..i |-> buf[k - 1]]
After  == [k \in 1..(len - i) |-> buf[i + k - 1]]
At     == cursor_ptr - (now_ptr - Kept) + 1

E == INSTANCE Editor WITH HISTORY <- HISTORY_SIZE, before <- Before, after <- After,
                          past <- Past, at <- At, draft <- newBuffer

(* Where the code departs from that editor.  ^U moves as many bytes as it    *)
(* removes (user/sh.c 405): of a longer rest the first of them come twice,   *)
(* and as many at its end are lost.                                          *)
KillLeftRepeats ==
    /\ Len(After) > i /\ Before' = <<>>
    /\ After' = [k \in DOMAIN After |-> After[IF k <= i THEN k ELSE k - i]]
    /\ UNCHANGED E!held

(* A line that is not recorded leaves the place among the earlier lines      *)
(* where it was (user/lib/history.c 66-70): what is typed next counts as a   *)
(* change of that earlier line.                                              *)
EnterKeepsPlace ==
    /\ ~E!IsNew /\ E!Show(<<>>) /\ UNCHANGED E!held
    /\ E!Blank(E!Line) \/ (Past # <<>> /\ E!Line = Last(Past))

(* The bytes, the cursor and the ring do what the line editor of module      *)
(* Editor does, and depart from it in those two ways only (user/sh.c         *)
(* 336-504, user/lib/history.c 63-203).                                      *)
EditorSpec == E!Init /\ [][E!Next \/ KillLeftRepeats \/ EnterKeepsPlace]_(E!vars)

(* What the comments say of ^U: it removes what stands before the cursor     *)
(* (user/sh.c 390, 404).  Violated by KillLeftRepeats.                       *)
KillLeftAsMeant == [][CtrlU => E!KillLeft]_vars

(* What the comments say of the line being typed: it is the newest one, and  *)
(* goes to newBuffer on Up (user/lib/history.c 138-139).                     *)
(* Violated by EnterKeepsPlace.                                              *)
EnterAsMeant == [][Return => E!Enter]_vars
=============================================================================
