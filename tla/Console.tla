------------------------------- MODULE Console -------------------------------
(***************************************************************************)
(* The text console of ester: vga.c, and what printk, itoa and the DEBUG   *)
(* functions send to it.                                                   *)
(*                                                                         *)
(* The main flow prints statement by statement, because the keyboard       *)
(* interrupt prints through the same txt_addr.  The handler itself runs    *)
(* with interrupts off, in one step.  An interrupt falls between two       *)
(* statements: inside one, it also destroys the registers, which nobody    *)
(* saves, and no claim is made.                                            *)
(***************************************************************************)
EXTENDS Integers, Sequences, SequencesExt

CONSTANTS
  Width, Height,    \* VGA_TXT_WIDTH and VGA_TXT_HEIGHT, 80 and 25 in the code
  DebugMsgSize,     \* DEBUG_MSG_SIZE, 256 in the code
  Formats,          \* calls of printk: [fmt, args]
  Messages,         \* calls of DEBUG_*: [tag, msg]
  Keys,             \* characters the keyboard handler prints
  KeysDuringPrints, \* may a key be pressed while the main flow prints?
  MaxChars          \* bound: characters printed in a behaviour

ASSUME ConsoleAssumption ==
  /\ Height \in Nat \ {0} /\ Width \in Nat \ {0} /\ Height <= Width
  /\ DebugMsgSize \in Nat /\ MaxChars \in Nat
  /\ KeysDuringPrints \in BOOLEAN

NL    == "\n"
Blank == " "
Old   == "old"        \* what the boot loader left on the screen
Cells == Width * Height
Cell  == 0 .. Cells - 1
LastLine == Width * (Height - 1)

VARIABLES
  screen,   \* the visible part of the text memory
  cell,     \* txt_addr, in cells from the base address
  cursor,   \* position of the hardware cursor
  queue,    \* main flow: the characters still to print; the head is being printed
  each,     \* main flow: vga_print_char updates the cursor, vga_print at the end only
  pc,       \* main flow: the next statement of vga_print_char
  c_line,   \* main flow: local variable
  c_column, \* main flow: local variable
  i,        \* main flow: loop counter of scroll and clear_line
  old_addr, \* main flow: txt_addr saved by clear_line
  rows,     \* history: the characters printed so far, by either flow, in rows
  printed   \* history: how many characters those were

locals == <<c_line, c_column, i, old_addr>>
history == <<rows, printed>>
vars == <<screen, cell, cursor, queue, each, pc, locals, history>>

Init ==
  /\ screen = [k \in Cell |-> Old]
  /\ cell = 0 /\ cursor = 0
  /\ queue = <<>> /\ each = TRUE /\ pc = "idle"
  /\ c_line = 0 /\ c_column = 0 /\ i = 0 /\ old_addr = 0
  /\ rows = << <<>> >> /\ printed = 0

-----------------------------------------------------------------------------
(***************************************************************************)
(* What a call sends to the console.                                       *)
(***************************************************************************)
\* The glyph at code '0' + d; a negative remainder falls below the digits.
Glyph(d) == <<"'", "(", ")", "*", "+", ",", "-", ".", "/",
              "0", "1", "2", "3", "4", "5", "6", "7", "8", "9">>[d + 10]

Remainder(n) == IF n < 0 THEN -((-n) % 10) ELSE n % 10
Quotient(n)  == IF n < 0 THEN -((-n) \div 10) ELSE n \div 10

\* The digits are produced from the right while the rest is positive, and reversed.
itoa(value) ==
  LET digits[n \in Int] ==
        <<Glyph(Remainder(n))>> \o
        (IF Quotient(n) > 0 THEN digits[Quotient(n)] ELSE <<>>)
  IN  Reverse(digits[value])

Convert(token, arg) ==
  CASE token = "d" -> itoa(arg)
    [] token = "c" -> <<arg>>
    [] token = "s" -> arg

\* printk: a percent sign with no known token behind it is an ordinary character.
Expand(fmt, args) ==
  LET IsToken(n) == /\ fmt[n] = "%" /\ n < Len(fmt)
                    /\ fmt[n + 1] \in {"d", "s", "c"}
      from[n \in 1 .. Len(fmt) + 1, a \in 1 .. Len(args) + 1] ==
        IF n > Len(fmt) THEN <<>>
        ELSE IF IsToken(n) THEN Convert(fmt[n + 1], args[a]) \o from[n + 2, a + 1]
        ELSE <<fmt[n]>> \o from[n + 1, a]
  IN  from[1, 1]

\* DEBUG_ERROR, DEBUG_WARNING and DEBUG_INFO, the prefix and the text of the
\* replacement message as one character each.
DebugText(tag, msg) ==
  IF Len(msg) > DebugMsgSize THEN <<"E", "T", NL>> ELSE <<tag>> \o msg \o <<NL>>

-----------------------------------------------------------------------------
(***************************************************************************)
(* The history: the rows a teletype of this width types.  A line feed at   *)
(* the start of a row is lost unless it is the first row: the code cannot  *)
(* tell the end of a full row from the start of the next one.              *)
(***************************************************************************)
Typed(paper, c) ==
  LET n == Len(paper)
  IN  IF c = NL
      THEN IF paper[n] = <<>> /\ n > 1 THEN paper ELSE Append(paper, <<>>)
      ELSE IF Len(paper[n]) = Width THEN Append(paper, <<c>>)
      ELSE [paper EXCEPT ![n] = Append(@, c)]

\* A character counts as printed when it is stored, a line feed when it moves txt_addr.
Type(c) == rows' = Typed(rows, c) /\ printed' = printed + 1

-----------------------------------------------------------------------------
(***************************************************************************)
(* vga_print_char in one step, as the keyboard handler runs it.            *)
(***************************************************************************)
\* A store behind the screen changes nothing that can be seen.
Put(scr, k, c) == IF k \in Cell THEN [scr EXCEPT ![k] = c] ELSE scr

LineOfCell(k) == k \div Width                 \* mutant: a full line counts as the next
LineOf(k) == IF k = 0 THEN 0 ELSE (k - 1) \div Width

ColumnOf(k) == k \div Height                  \* the code divides by the height

MustScroll(line, column) == line >= Height - 1 /\ column = Width

Scrolled(scr) == [k \in Cell |-> IF k < LastLine THEN scr[k + Width] ELSE Blank]

vga_print_char(c) ==
  LET full == MustScroll(LineOf(cell), ColumnOf(cell))
      at   == IF full THEN LastLine ELSE cell
      scr  == IF full THEN Scrolled(screen) ELSE screen
  IN  IF c = NL
      THEN /\ cell' = (LineOf(cell) + 1) * Width
           /\ cursor' = cell'
           /\ UNCHANGED screen
      ELSE /\ screen' = Put(scr, at, c)
           /\ cell' = at + 1
           /\ cursor' = cell'

\* ps2_keyboard_interrupt_handler, as far as the console sees it.  The generic handler
\* prints its line the same way.
Key(c) ==
  /\ pc = "idle" \/ KeysDuringPrints
  /\ printed < MaxChars
  /\ vga_print_char(c) /\ Type(c)
  /\ UNCHANGED <<queue, each, pc, locals>>

-----------------------------------------------------------------------------
(***************************************************************************)
(* vga_print_char and vga_print, statement by statement.                   *)
(***************************************************************************)
Goto(label) == pc' = label
Local == UNCHANGED <<screen, cell, cursor, queue, each, history>>

Send(chars, e) ==
  /\ pc = "idle" /\ chars # <<>>
  /\ printed + Len(chars) <= MaxChars
  /\ queue' = chars /\ each' = e
  /\ Goto("line")
  /\ UNCHANGED <<screen, cell, cursor, locals, history>>

printk(f) == Send(Expand(f.fmt, f.args), TRUE)
DEBUG(m)  == Send(DebugText(m.tag, m.msg), FALSE)

ReadLine ==
  /\ pc = "line"
  /\ c_line' = LineOf(cell)
  /\ Goto(IF Head(queue) = NL THEN "newline" ELSE "column")
  /\ Local /\ UNCHANGED <<c_column, i, old_addr>>

Newline ==
  /\ pc = "newline"
  /\ cell' = (c_line + 1) * Width /\ Type(NL)
  /\ Goto("next")
  /\ UNCHANGED <<screen, cursor, queue, each, locals>>

ReadColumn ==
  /\ pc = "column"
  /\ c_column' = ColumnOf(cell)
  /\ Goto(IF MustScroll(c_line, c_column') THEN "scroll" ELSE "store")
  /\ Local /\ UNCHANGED <<c_line, i, old_addr>>

\* __vga_scroll: copy the lines up, then clear the last one.
Scroll ==
  /\ pc = "scroll"
  /\ cell' = 0 /\ i' = 0
  /\ Goto("copy")
  /\ UNCHANGED <<screen, cursor, queue, each, c_line, c_column, old_addr, history>>

Copy ==
  /\ pc = "copy" /\ i < LastLine
  /\ screen' = Put(screen, cell, screen[Width + i])
  /\ Goto("copied")
  /\ UNCHANGED <<cell, cursor, queue, each, locals, history>>

Copied ==
  /\ pc = "copied"
  /\ cell' = cell + 1 /\ i' = i + 1
  /\ Goto("copy")
  /\ UNCHANGED <<screen, cursor, queue, each, c_line, c_column, old_addr, history>>

ClearLine ==
  /\ pc = "copy" /\ i = LastLine
  /\ old_addr' = cell /\ i' = 0
  /\ cell' = LastLine
  /\ Goto("clear")
  /\ UNCHANGED <<screen, cursor, queue, each, c_line, c_column, history>>

Clear ==
  /\ pc = "clear" /\ i < Width
  /\ screen' = Put(screen, cell, Blank)
  /\ Goto("cleared")
  /\ UNCHANGED <<cell, cursor, queue, each, locals, history>>

Cleared ==
  /\ pc = "cleared"
  /\ cell' = cell + 1 /\ i' = i + 1
  /\ Goto("clear")
  /\ UNCHANGED <<screen, cursor, queue, each, c_line, c_column, old_addr, history>>

RestoreNothing ==                              \* mutant: old_addr not restored
  /\ pc = "clear" /\ i = Width
  /\ Goto("store")
  /\ Local /\ UNCHANGED locals

Restore ==
  /\ pc = "clear" /\ i = Width
  /\ cell' = old_addr
  /\ Goto("store")
  /\ UNCHANGED <<screen, cursor, queue, each, locals, history>>

Store ==
  /\ pc = "store"
  /\ screen' = Put(screen, cell, Head(queue)) /\ Type(Head(queue))
  /\ Goto("advance")
  /\ UNCHANGED <<cell, cursor, queue, each, locals>>

Advance ==
  /\ pc = "advance"
  /\ cell' = cell + 1
  /\ Goto("next")
  /\ UNCHANGED <<screen, cursor, queue, each, locals, history>>

\* The next character of the call, after the cursor of this one.  The local
\* variables start at 0 again.
NextChar ==
  /\ pc = "next"
  /\ queue' = Tail(queue)
  /\ cursor' = IF each \/ queue' = <<>> THEN cell ELSE cursor
  /\ each' = (each \/ queue' = <<>>)
  /\ Goto(IF queue' = <<>> THEN "idle" ELSE "line")
  /\ c_line' = 0 /\ c_column' = 0 /\ i' = 0 /\ old_addr' = 0
  /\ UNCHANGED <<screen, cell, history>>

PrintStep ==
  \/ ReadLine \/ Newline \/ ReadColumn \/ Store \/ Advance \/ NextChar
  \/ Scroll \/ Copy \/ Copied \/ ClearLine \/ Clear \/ Cleared \/ Restore

Next ==
  \/ \E f \in Formats : printk(f)
  \/ \E m \in Messages : DEBUG(m)
  \/ \E c \in Keys : Key(c)
  \/ PrintStep

Spec == Init /\ [][Next]_vars

-----------------------------------------------------------------------------
\* What a screen of this height shows of the rows typed: the last ones, but not one
\* that has no character yet unless it is the first; what the boot loader left where
\* no row has been.
Used == IF rows[Len(rows)] = <<>> /\ Len(rows) > 1 THEN Len(rows) - 1 ELSE Len(rows)
Top  == IF Used > Height THEN Used - Height ELSE 0
Shown(r, x) == IF r <= Used /\ x <= Len(rows[r]) THEN rows[r][x]
               ELSE IF r <= Height THEN Old ELSE Blank
Picture == [k \in Cell |-> Shown(Top + (k \div Width) + 1, (k % Width) + 1)]

\* Whenever nothing is being printed, the screen shows the last rows of
\* everything printed by printk, DEBUG_* and the keyboard handler: wrapped at the
\* width, scrolled only when a character needs a new row, blank where a new row
\* has no character, what the boot loader left where no row has been yet
\* (vga_print_char, __vga_scroll, __vga_clear_line).  The cursor is where the
\* next character goes.
ScreenShowsTail == pc = "idle" => screen = Picture /\ cursor = cell

\* The console can always be brought back: the next printable character is either
\* on the screen or at a place from which vga_print_char scrolls.
NeverLost == pc = "idle" => cell < Cells \/ ColumnOf(cell) = Width

\* The statements that store into the text memory.
Storing ==
  \/ pc = "store"
  \/ pc = "copy" /\ i < LastLine
  \/ pc = "clear" /\ i < Width

\* No statement of the main flow stores behind the last cell of the text memory, and
\* the scroll reads no cell from behind it, although none of them compares an address
\* with the end of the screen (vga_print_char, __vga_scroll, __vga_clear_line).
StoresOnScreen ==
  /\ Storing => cell \in Cell
  /\ pc = "copy" /\ i < LastLine => Width + i \in Cell
=============================================================================
