---------------------------- MODULE ConsoleProofs ----------------------------
(***************************************************************************)
(* Proofs about module Console, for every width and height of the screen,  *)
(* every call of printk and DEBUG_* and every key, as long as no key is    *)
(* pressed while the main flow prints: where txt_addr may be, that nothing *)
(* is stored behind the screen, and that the screen shows the last rows    *)
(* typed.                                                                  *)
(*                                                                         *)
(* vga_print_char tells a full screen by two quotients of txt_addr: the    *)
(* line, which counts the end of a row to that row, and the column, which  *)
(* it divides by the height of the screen.  The two agree on the single    *)
(* address behind the last cell, and that is what the proofs rest on.      *)
(***************************************************************************)
EXTENDS Console, NumberFacts, SequenceTheorems

\* txt_addr at each statement of vga_print_char: on the screen or right behind it
\* between two characters, on the screen where the character is stored, and in step
\* with the counter of the loop while __vga_scroll borrows it.
Placed ==
  /\ pc \in {"idle", "line", "newline", "column", "next"} => cell \in 0 .. Cells
  /\ pc \in {"newline", "column"} => c_line = LineOf(cell)
  /\ pc \in {"store", "advance"} => cell \in Cell
  /\ pc \in {"copy", "copied"} => cell = i /\ i \in 0 .. LastLine
  /\ pc = "copied" => i < LastLine
  /\ pc \in {"clear", "cleared"} =>
       old_addr = LastLine /\ cell = LastLine + i /\ i \in 0 .. Width
  /\ pc = "cleared" => i < Width

-----------------------------------------------------------------------------
(***************************************************************************)
(* Lines and columns                                                       *)
(***************************************************************************)

\* The sizes.
LEMMA Sizes ==
  /\ Width \in Nat \ {0} /\ Height \in Nat \ {0}
  /\ Cells \in Nat /\ LastLine \in Nat /\ Cells = LastLine + Width
  /\ Cells = Width * Height /\ Cells = Height * Width
<1>1. Width \in Nat \ {0} /\ Height \in Nat \ {0}
  BY ConsoleAssumption
<1>2. Width * (Height - 1) \in Nat
  BY <1>1, Times
<1>3. Width * Height = Width * (Height - 1) + Width /\ Width * Height = Height * Width
  BY <1>1
<1> QED
  BY <1>1, <1>2, <1>3 DEF Cells, LastLine

\* A line feed leads to the start of a line, the last one being behind the screen.
LEMMA LineOnScreen ==
  ASSUME NEW k \in 0 .. Cells
  PROVE  LineOf(k) \in Nat /\ LineOf(k) < Height /\ (LineOf(k) + 1) * Width \in 0 .. Cells
<1> DEFINE l == LineOf(k)
<1>1. Width \in Nat \ {0} /\ Height \in Nat \ {0} /\ Cells \in Nat /\ Cells = Width * Height
  BY Sizes
<1>2. l \in Nat /\ l < Height
  <2>1. CASE k = 0
    BY <1>1, <2>1 DEF LineOf
  <2>2. CASE k # 0
    <3> DEFINE a == k - 1
    <3>1. l = a \div Width /\ a \in Nat /\ a < Width * Height
      BY <1>1, <2>2 DEF LineOf
    <3> HIDE DEF a, l
    <3>2. a \div Width < Height /\ a \div Width \in Nat
      BY <1>1, <3>1, QuotientBelow, DivMod
    <3> QED
      BY <3>1, <3>2
  <2> QED
    BY <2>1, <2>2
<1> HIDE DEF l
<1>3. Width * l + Width <= Width * Height /\ Width * l \in Nat
  BY <1>1, <1>2, OneMore, Times
<1>4. (l + 1) * Width = Width * l + Width
  BY <1>1, <1>2
<1>5. (l + 1) * Width \in 0 .. Cells
  BY <1>1, <1>3, <1>4
<1> QED
  BY <1>2, <1>5 DEF l

\* At the address behind the screen the next character makes it scroll, and nowhere
\* else on the way there.
LEMMA ScrollsAtEnd ==
  ASSUME NEW k \in 0 .. Cells
  PROVE  MustScroll(LineOf(k), ColumnOf(k)) <=> k = Cells
<1>1. /\ Width \in Nat \ {0} /\ Height \in Nat \ {0} /\ Cells \in Nat
      /\ Cells = Width * Height /\ Cells = Height * Width
  BY Sizes
<1>2. ASSUME k = Cells PROVE LineOf(k) = Height - 1 /\ ColumnOf(k) = Width
  <2>1. Cells # 0
    <3>1. Width * 0 + Width <= Width * Height
      BY <1>1, OneMore
    <3> QED
      BY <1>1, <3>1
  <2>2. (Height * Width + 0) \div Height = Width
    BY <1>1, QuotientOf
  <2>3. (Width * (Height - 1) + (Width - 1)) \div Width = Height - 1
    BY <1>1, QuotientOf
  <2>4. Width * (Height - 1) + (Width - 1) = Cells - 1 /\ Height * Width + 0 = Cells
    BY <1>1
  <2>5. LineOf(Cells) = (Cells - 1) \div Width
    BY <2>1 DEF LineOf
  <2> QED
    BY <1>2, <2>2, <2>3, <2>4, <2>5, Zenon DEF ColumnOf
<1>3. ASSUME k # Cells PROVE ColumnOf(k) # Width
  <2>1. k < Height * Width /\ k \in Nat
    BY <1>1, <1>3
  <2>2. k \div Height < Width /\ k \div Height \in Nat
    BY <1>1, <2>1, QuotientBelow, DivMod
  <2> QED
    BY <1>1, <2>2 DEF ColumnOf
<1> QED
  BY <1>1, <1>2, <1>3 DEF MustScroll

-----------------------------------------------------------------------------
(***************************************************************************)
(* The invariant                                                           *)
(***************************************************************************)

\* The keyboard handler prints in one step, between two calls of the main flow.
LEMMA KeyPlaced ==
  ASSUME Placed, NEW c, ~KeysDuringPrints, Key(c)
  PROVE  Placed'
<1>1. pc = "idle" /\ pc' = pc /\ cell \in 0 .. Cells /\ vga_print_char(c)
  BY DEF Key, Placed
<1>2. Cells \in Nat /\ LastLine \in Nat /\ Cells = LastLine + Width /\ Width \in Nat \ {0}
  BY Sizes
<1>3. cell' \in 0 .. Cells
  <2>1. CASE c = NL
    BY <1>1, <2>1, LineOnScreen DEF vga_print_char
  <2>2. CASE c # NL /\ cell = Cells
    <3>1. cell' = LastLine + 1
      BY <1>1, <2>2, ScrollsAtEnd DEF vga_print_char
    <3> QED
      BY <1>2, <3>1
  <2>3. CASE c # NL /\ cell # Cells
    <3>1. cell' = cell + 1
      BY <1>1, <2>3, ScrollsAtEnd DEF vga_print_char
    <3> QED
      BY <1>1, <1>2, <2>3, <3>1
  <2> QED
    BY <2>1, <2>2, <2>3
<1> QED
  BY <1>1, <1>3 DEF Placed

\* Every statement of the main flow.
LEMMA PrintPlaced ==
  ASSUME Placed, PrintStep
  PROVE  Placed'
<1>1. /\ Cells \in Nat /\ LastLine \in Nat /\ Cells = LastLine + Width /\ Width \in Nat \ {0}
  BY Sizes
<1>2. CASE ReadLine
  <2>1. /\ pc = "line" /\ pc' \in {"newline", "column"} /\ cell' = cell
        /\ c_line' = LineOf(cell)
    BY <1>2 DEF ReadLine, Goto, Local
  <2> QED
    BY <2>1 DEF Placed
<1>3. CASE Newline
  <2>1. pc = "newline" /\ pc' = "next" /\ cell' = (LineOf(cell) + 1) * Width
    BY <1>3 DEF Newline, Goto, Placed
  <2>2. cell' \in 0 .. Cells
    BY <2>1, LineOnScreen DEF Placed
  <2> QED
    BY <2>1, <2>2 DEF Placed
<1>4. CASE ReadColumn
  <2>1. /\ pc = "column" /\ cell' = cell /\ cell \in 0 .. Cells
        /\ pc' = IF MustScroll(LineOf(cell), ColumnOf(cell)) THEN "scroll" ELSE "store"
    BY <1>4 DEF ReadColumn, Goto, Local, Placed
  <2>2. pc' = "scroll" \/ (pc' = "store" /\ cell' \in Cell)
    BY <1>1, <2>1, ScrollsAtEnd DEF Cell
  <2> QED
    BY <2>2 DEF Placed
<1>5. CASE Scroll
  BY <1>1, <1>5 DEF Scroll, Goto, Placed
<1>6. CASE Copy
  BY <1>1, <1>6 DEF Copy, Goto, Placed, locals
<1>7. CASE Copied
  BY <1>1, <1>7 DEF Copied, Goto, Placed
<1>8. CASE ClearLine
  BY <1>1, <1>8 DEF ClearLine, Goto, Placed
<1>9. CASE Clear
  BY <1>1, <1>9 DEF Clear, Goto, Placed, locals
<1>10. CASE Cleared
  BY <1>1, <1>10 DEF Cleared, Goto, Placed
<1>11. CASE Restore
  BY <1>1, <1>11 DEF Restore, Goto, Placed, Cell
<1>12. CASE Store
  BY <1>12 DEF Store, Goto, Placed, Cell
<1>13. CASE Advance
  BY <1>1, <1>13 DEF Advance, Goto, Placed, Cell
<1>14. CASE NextChar
  <2>1. pc = "next" /\ pc' \in {"idle", "line"} /\ cell' = cell
    BY <1>14 DEF NextChar, Goto
  <2> QED
    BY <2>1 DEF Placed
<1> QED
  BY <1>2, <1>3, <1>4, <1>5, <1>6, <1>7, <1>8, <1>9, <1>10, <1>11, <1>12, <1>13, <1>14
     DEF PrintStep

\* Every step.
LEMMA NextPlaced ==
  ASSUME ~KeysDuringPrints
  PROVE  Placed /\ [Next]_vars => Placed'
<1> SUFFICES ASSUME Placed, [Next]_vars PROVE Placed'
  OBVIOUS
<1>1. ASSUME NEW chars, NEW e, Send(chars, e) PROVE Placed'
  <2>1. pc = "idle" /\ pc' = "line" /\ cell' = cell
    BY <1>1 DEF Send, Goto
  <2> QED
    BY <2>1 DEF Placed
<1>2. CASE UNCHANGED vars
  BY <1>2 DEF vars, locals, Placed
<1>3. CASE \E f \in Formats : printk(f)
  BY <1>1, <1>3 DEF printk
<1>4. CASE \E m \in Messages : DEBUG(m)
  BY <1>1, <1>4 DEF DEBUG
<1> QED
  BY <1>2, <1>3, <1>4, KeyPlaced, PrintPlaced DEF Next

\* Placed holds in every reachable state.
LEMMA PlacedHolds == ~KeysDuringPrints => (Spec => []Placed)
<1> SUFFICES ASSUME ~KeysDuringPrints PROVE Spec => []Placed
  OBVIOUS
<1>1. Init => Placed
  BY Sizes DEF Init, Placed
<1>2. Placed /\ [Next]_vars => Placed'
  BY NextPlaced
<1> QED
  BY <1>1, <1>2, PTL DEF Spec

-----------------------------------------------------------------------------
(***************************************************************************)
(* The rows of the teletype and what the screen shows of them              *)
(***************************************************************************)

\* There is a row, and no row is longer than the screen is wide.
PaperOf(S) ==
  /\ rows \in Seq(Seq(S)) /\ Len(rows) > 0
  /\ \A r \in 1 .. Len(rows) : Len(rows[r]) <= Width

\* A row has no character exactly when it is empty.
LEMMA RowsAre ==
  ASSUME NEW S, PaperOf(S)
  PROVE  /\ Len(rows) \in Nat \ {0}
         /\ \A r \in 1 .. Len(rows) : /\ rows[r] \in Seq(S) /\ Len(rows[r]) \in 0 .. Width
                                      /\ rows[r] = <<>> <=> Len(rows[r]) = 0
<1>1. Len(rows) \in Nat /\ \A r \in 1 .. Len(rows) : rows[r] \in Seq(S)
  BY ElementOfSeq, LenProperties DEF PaperOf
<1>2. ASSUME NEW s \in Seq(S) PROVE Len(s) \in Nat /\ (s = <<>> <=> Len(s) = 0)
  BY LenProperties, EmptySeq
<1> QED
  BY <1>1, <1>2, ConsoleAssumption DEF PaperOf

\* What a character does to the rows.
LEMMA TypedIs ==
  ASSUME NEW S, PaperOf(S), NEW c, rows' = Typed(rows, c)
  PROVE  LET n == Len(rows)
             len == Len(rows[n])
         IN  /\ PaperOf(S \cup {c})'
             /\ c = NL /\ len = 0 /\ n > 1 => rows' = rows
             /\ c = NL /\ ~(len = 0 /\ n > 1) =>
                  /\ Len(rows') = n + 1 /\ Len(rows'[n + 1]) = 0
                  /\ \A r \in 1 .. n : rows'[r] = rows[r]
             /\ c # NL /\ len = Width =>
                  /\ Len(rows') = n + 1 /\ Len(rows'[n + 1]) = 1 /\ rows'[n + 1][1] = c
                  /\ \A r \in 1 .. n : rows'[r] = rows[r]
             /\ c # NL /\ len # Width =>
                  /\ Len(rows') = n /\ Len(rows'[n]) = len + 1 /\ rows'[n][len + 1] = c
                  /\ \A x \in 1 .. len : rows'[n][x] = rows[n][x]
                  /\ \A r \in 1 .. n : r # n => rows'[r] = rows[r]
<1> DEFINE n == Len(rows)
           len == Len(rows[n])
           T == S \cup {c}
<1>1. /\ n \in Nat \ {0} /\ n \in 1 .. n /\ rows[n] \in Seq(S) /\ len \in 0 .. Width
      /\ rows[n] = <<>> <=> len = 0
      /\ \A r \in 1 .. n : rows[r] \in Seq(S) /\ Len(rows[r]) \in 0 .. Width
  BY RowsAre
<1>2. \A s \in Seq(S) : s \in Seq(T)
  OBVIOUS
<1>3. rows \in Seq(Seq(T))
  <2>1. rows = [r \in 1 .. n |-> rows[r]]
    BY DEF PaperOf
  <2> QED
    BY <1>1, <1>2, <2>1
<1>4. <<>> \in Seq(T) /\ <<c>> \in Seq(T) /\ Len(<<c>>) = 1 /\ <<c>>[1] = c /\ Width \in Nat \ {0}
  BY ConsoleAssumption
<1>5. CASE c = NL /\ len = 0 /\ n > 1
  <2>1. rows' = rows
    BY <1>1, <1>5 DEF Typed
  <2> QED
    BY <1>3, <1>5, <2>1 DEF PaperOf
<1>6. CASE c = NL /\ ~(len = 0 /\ n > 1)
  <2>1. rows' = Append(rows, <<>>)
    BY <1>1, <1>6 DEF Typed
  <2>2. /\ rows' \in Seq(Seq(T)) /\ Len(rows') = n + 1 /\ rows'[n + 1] = <<>>
        /\ \A r \in 1 .. n : rows'[r] = rows[r]
    BY <1>3, <1>4, <2>1
  <2>3. PaperOf(T)'
    <3>1. Len(rows') > 0 /\ \A r \in 1 .. Len(rows') : Len(rows'[r]) <= Width
      <4>1. \A r \in 1 .. n + 1 : r \in 1 .. n \/ r = n + 1
        BY <1>1
      <4>2. Len(rows'[n + 1]) <= Width
        BY <1>4, <2>2
      <4>3. ASSUME NEW r \in 1 .. n PROVE Len(rows'[r]) <= Width
        <5>1. Len(rows[r]) \in 0 .. Width /\ rows'[r] = rows[r]
          BY <1>1, <2>2
        <5> QED
          BY <1>4, <5>1
      <4> HIDE DEF n, len, T
      <4>4. Len(rows') = n + 1 /\ n \in Nat
        BY <1>1, <2>2
      <4> QED
        BY <4>1, <4>2, <4>3, <4>4
    <3> HIDE DEF T
    <3>2. (Len(rows) > 0)' /\ (\A r \in 1 .. Len(rows) : Len(rows[r]) <= Width)'
      BY <3>1
    <3> QED
      BY <2>2, <3>2 DEF PaperOf
  <2> QED
    BY <1>6, <2>2, <2>3
<1>7. CASE c # NL /\ len = Width
  <2>1. rows' = Append(rows, <<c>>)
    BY <1>1, <1>7 DEF Typed
  <2>2. /\ rows' \in Seq(Seq(T)) /\ Len(rows') = n + 1 /\ rows'[n + 1] = <<c>>
        /\ \A r \in 1 .. n : rows'[r] = rows[r]
    BY <1>3, <1>4, <2>1
  <2>3. PaperOf(T)'
    <3>1. Len(rows') > 0 /\ \A r \in 1 .. Len(rows') : Len(rows'[r]) <= Width
      <4>1. \A r \in 1 .. n + 1 : r \in 1 .. n \/ r = n + 1
        BY <1>1
      <4>2. Len(rows'[n + 1]) <= Width
        BY <1>4, <2>2
      <4>3. ASSUME NEW r \in 1 .. n PROVE Len(rows'[r]) <= Width
        <5>1. Len(rows[r]) \in 0 .. Width /\ rows'[r] = rows[r]
          BY <1>1, <2>2
        <5> QED
          BY <1>4, <5>1
      <4> HIDE DEF n, len, T
      <4>4. Len(rows') = n + 1 /\ n \in Nat
        BY <1>1, <2>2
      <4> QED
        BY <4>1, <4>2, <4>3, <4>4
    <3> HIDE DEF T
    <3>2. (Len(rows) > 0)' /\ (\A r \in 1 .. Len(rows) : Len(rows[r]) <= Width)'
      BY <3>1
    <3> QED
      BY <2>2, <3>2 DEF PaperOf
  <2> QED
    BY <1>4, <1>7, <2>2, <2>3
<1>8. CASE c # NL /\ len # Width
  <2> DEFINE s == Append(rows[n], c)
  <2>1. rows' = [rows EXCEPT ![n] = s]
    BY <1>1, <1>8 DEF Typed
  <2>2. /\ s \in Seq(T) /\ Len(s) = len + 1 /\ s[len + 1] = c
        /\ \A x \in 1 .. len : s[x] = rows[n][x]
    BY <1>1, <1>2
  <2> HIDE DEF s
  <2>3. /\ rows' \in Seq(Seq(T)) /\ Len(rows') = n /\ rows'[n] = s
        /\ \A r \in 1 .. n : r # n => rows'[r] = rows[r]
    BY <1>1, <1>3, <2>1, <2>2
  <2>4. PaperOf(T)'
    <3>1. Len(rows') > 0 /\ \A r \in 1 .. Len(rows') : Len(rows'[r]) <= Width
      <4>1. Len(rows'[n]) <= Width
        BY <1>1, <1>4, <1>8, <2>2, <2>3
      <4>2. ASSUME NEW r \in 1 .. n, r # n PROVE Len(rows'[r]) <= Width
        <5>1. Len(rows[r]) \in 0 .. Width /\ rows'[r] = rows[r]
          BY <1>1, <2>3, <4>2
        <5> QED
          BY <1>4, <5>1
      <4> QED
        BY <1>1, <2>3, <4>1, <4>2
    <3> HIDE DEF T
    <3>2. (Len(rows) > 0)' /\ (\A r \in 1 .. Len(rows) : Len(rows[r]) <= Width)'
      BY <3>1
    <3> QED
      BY <2>3, <3>2 DEF PaperOf
  <2> QED
    BY <1>8, <2>2, <2>3, <2>4
<1> QED
  BY <1>5, <1>6, <1>7, <1>8

\* The row of the screen on which the next character goes, and its cell.
Row   == Len(rows) - 1 - Top
Place == Width * Row + Len(rows[Len(rows)])

\* Which rows are on the screen.
LEMMA RowIs ==
  ASSUME NEW S, PaperOf(S)
  PROVE  LET n   == Len(rows)
             len == Len(rows[n])
         IN  /\ n \in Nat \ {0} /\ len \in 0 .. Width
             /\ Used = (IF len = 0 /\ n > 1 THEN n - 1 ELSE n)
             /\ Top = (IF Used > Height THEN Used - Height ELSE 0)
             /\ Used \in Nat /\ Top \in Nat /\ Row \in 0 .. Height
             /\ Row = Height => len = 0
             /\ len = 0 => (n = 1 /\ Row = 0) \/ (n > 1 /\ Row > 0)
<1> DEFINE n == Len(rows)
           len == Len(rows[n])
<1>1. n \in Nat \ {0} /\ len \in 0 .. Width /\ (rows[n] = <<>> <=> len = 0)
  BY RowsAre
<1>2. Used = (IF len = 0 /\ n > 1 THEN n - 1 ELSE n)
  BY <1>1 DEF Used
<1>3. Top = (IF Used > Height THEN Used - Height ELSE 0)
  BY DEF Top
<1>4. Row = n - 1 - Top
  BY DEF Row
<1> HIDE DEF n, len
<1>5. Height \in Nat \ {0}
  BY ConsoleAssumption
<1>6. /\ Used \in Nat /\ Top \in Nat /\ Row \in 0 .. Height
      /\ Row = Height => len = 0
      /\ len = 0 => (n = 1 /\ Row = 0) \/ (n > 1 /\ Row > 0)
  BY <1>1, <1>2, <1>3, <1>4, <1>5
<1> QED
  BY <1>1, <1>2, <1>3, <1>6 DEF n, len

\* A cell is a column of a row.
LEMMA CellIs ==
  ASSUME NEW k \in Cell
  PROVE  /\ k \div Width \in 0 .. Height - 1 /\ k % Width \in 0 .. Width - 1
         /\ k = Width * (k \div Width) + (k % Width) /\ k \in Nat
<1>1. Width \in Nat \ {0} /\ Height \in Nat \ {0} /\ Cells \in Nat /\ Cells = Width * Height
  BY Sizes
<1>2. k \in Nat /\ k < Width * Height
  BY <1>1 DEF Cell
<1>3. k \div Width < Height
  BY <1>1, <1>2, QuotientBelow
<1>4. /\ k \div Width \in Nat /\ k % Width \in 0 .. Width - 1
      /\ k = Width * (k \div Width) + (k % Width)
  BY <1>1, <1>2, DivMod
<1>5. \A q \in Nat : q < Height => q \in 0 .. Height - 1
  BY <1>1
<1> QED
  BY <1>2, <1>3, <1>4, <1>5, Zenon

\* The next character scrolls exactly from the place behind the screen.
LEMMA PlaceIs ==
  ASSUME NEW S, PaperOf(S)
  PROVE  LET len == Len(rows[Len(rows)])
         IN  /\ Place \in 0 .. Cells
             /\ Place = Cells <=> Row = Height \/ (Row = Height - 1 /\ len = Width)
<1> DEFINE len == Len(rows[Len(rows)])
<1>1. /\ Width \in Nat \ {0} /\ Height \in Nat \ {0} /\ Cells \in Nat
      /\ Cells = Width * Height
  BY Sizes
<1>2. /\ len \in 0 .. Width /\ Row \in 0 .. Height /\ (Row = Height => len = 0)
      /\ Place = Width * Row + len
  BY RowIs DEF Place
<1> SUFFICES Place \in 0 .. Cells /\ (Place = Cells <=> Row = Height \/ (Row = Height - 1 /\ len = Width))
  OBVIOUS
<1> HIDE DEF len
<1>3. CASE Row = Height
  <2>1. Place = Width * Height + 0
    BY <1>1, <1>2, <1>3
  <2> QED
    BY <1>1, <1>3, <2>1
<1>4. CASE Row = Height - 1
  <2> DEFINE a == Width * Row
  <2>1. a + Width = Width * Height /\ a \in Nat /\ Place = a + len
    BY <1>1, <1>2, <1>4, Times
  <2> HIDE DEF a
  <2>2. Cells = a + Width /\ a \in Nat /\ Place = a + len /\ Row # Height
    BY <1>1, <1>4, <2>1
  <2>3. Width \in Nat \ {0} /\ len \in 0 .. Width
    BY <1>1, <1>2
  <2> QED
    BY <1>4, <2>2, <2>3
<1>5. CASE Row < Height - 1
  <2>1. Width * (Row + 1) + Width <= Width * Height /\ Width * Row \in Nat
    BY <1>1, <1>2, <1>5, OneMore, Times
  <2>2. Width * (Row + 1) = Width * Row + Width
    BY <1>1, <1>2
  <2> DEFINE a == Width * Row
  <2>3. a + Width + Width <= Cells /\ a \in Nat /\ Place = a + len
    BY <1>1, <1>2, <2>1, <2>2
  <2> HIDE DEF a
  <2>4. Width \in Nat \ {0} /\ len \in 0 .. Width /\ Cells \in Nat
    BY <1>1, <1>2
  <2>5. Row # Height /\ Row # Height - 1
    BY <1>1, <1>2, <1>5
  <2> QED
    BY <2>3, <2>4, <2>5
<1>6. Row = Height \/ Row = Height - 1 \/ Row < Height - 1
  BY <1>1, <1>2
<1> QED
  BY <1>3, <1>4, <1>5, <1>6

\* What a line feed takes for the current line: the row before an empty one.
LEMMA LineIs ==
  ASSUME NEW S, PaperOf(S)
  PROVE  LET len == Len(rows[Len(rows)])
         IN  LineOf(Place) = IF len = 0 /\ Row > 0 THEN Row - 1 ELSE Row
<1> DEFINE len == Len(rows[Len(rows)])
<1>1. Width \in Nat \ {0}
  BY Sizes
<1>2. len \in 0 .. Width /\ Row \in Nat /\ Place = Width * Row + len /\ Width * Row \in Nat
  <2>1. len \in 0 .. Width /\ Row \in Nat /\ Place = Width * Row + len
    BY RowIs DEF Place
  <2> QED
    BY <1>1, <2>1, Times
<1> HIDE DEF len
<1>3. CASE len > 0
  <2>1. (Width * Row + (len - 1)) \div Width = Row
    BY <1>1, <1>2, <1>3, QuotientOf
  <2>2. Place # 0 /\ Place - 1 = Width * Row + (len - 1)
    BY <1>2, <1>3
  <2> QED
    BY <1>2, <1>3, <2>1, <2>2 DEF LineOf, len
<1>4. CASE len = 0 /\ Row > 0
  <2>1. (Width * (Row - 1) + (Width - 1)) \div Width = Row - 1
    BY <1>1, <1>2, <1>4, QuotientOf
  <2>2. Width * (Row - 1) + (Width - 1) = Width * Row - 1
    BY <1>1, <1>2
  <2>3. Width * 0 + Width <= Width * Row
    BY <1>1, <1>2, <1>4, OneMore
  <2>4. Place # 0 /\ Place - 1 = Width * (Row - 1) + (Width - 1)
    <3>1. Place = Width * Row + 0 /\ Width * 0 = 0
      BY <1>1, <1>2, <1>4
    <3> QED
      BY <1>1, <1>2, <2>2, <2>3, <3>1
  <2> QED
    BY <1>2, <1>4, <2>1, <2>4 DEF LineOf, len
<1>5. CASE len = 0 /\ Row = 0
  <2>1. Place = 0
    <3>1. Width * Row = 0
      BY <1>1, <1>5
    <3> QED
      BY <1>2, <1>5, <3>1
  <2> QED
    BY <1>5, <2>1 DEF LineOf, len
<1> QED
  BY <1>2, <1>3, <1>4, <1>5

\* A line feed changes nothing that can be seen.
LEMMA LineFeedIs ==
  ASSUME NEW S, PaperOf(S), rows' = Typed(rows, NL)
  PROVE  /\ \E T : PaperOf(T)'
         /\ Picture' = Picture /\ Place' = (LineOf(Place) + 1) * Width
<1> DEFINE n == Len(rows)
           len == Len(rows[n])
<1>1. /\ n \in Nat \ {0} /\ len \in 0 .. Width /\ Top \in Nat /\ Used \in Nat
      /\ Row \in 0 .. Height /\ Row = n - 1 - Top /\ Place = Width * Row + len
      /\ Used = (IF len = 0 /\ n > 1 THEN n - 1 ELSE n)
      /\ Top = (IF Used > Height THEN Used - Height ELSE 0)
      /\ len = 0 => (n = 1 /\ Row = 0) \/ (n > 1 /\ Row > 0)
  BY RowIs DEF Row, Place
<1>2. Width \in Nat \ {0} /\ Height \in Nat \ {0}
  BY Sizes
<1>3. LineOf(Place) = IF len = 0 /\ Row > 0 THEN Row - 1 ELSE Row
  BY LineIs
<1>4. \E T : PaperOf(T)'
  BY TypedIs
<1>5. CASE len = 0 /\ n > 1
  <2>1. rows' = rows
    BY <1>5, TypedIs
  <2>2. Picture' = Picture /\ Place' = Place
    BY <2>1 DEF Picture, Place, Row, Top, Used, Shown
  <2>3. Place = (LineOf(Place) + 1) * Width
    <3> HIDE DEF n, len
    <3>1. LineOf(Place) = Row - 1 /\ Place = Width * Row + 0 /\ Row \in Nat
      BY <1>1, <1>3, <1>5
    <3>2. (Row - 1 + 1) * Width = Width * Row + 0
      BY <1>2, <3>1
    <3> QED
      BY <3>1, <3>2
  <2> QED
    BY <1>4, <2>2, <2>3
<1>6. CASE ~(len = 0 /\ n > 1)
  <2>1. /\ Len(rows') = n + 1 /\ Len(rows'[n + 1]) = 0 /\ rows'[n + 1] = <<>>
        /\ \A r \in 1 .. n : rows'[r] = rows[r]
    <3>1. /\ Len(rows') = n + 1 /\ Len(rows'[n + 1]) = 0
          /\ \A r \in 1 .. n : rows'[r] = rows[r]
      BY <1>6, TypedIs
    <3>2. rows' = Append(rows, <<>>)
      BY <1>1, <1>6, RowsAre DEF Typed
    <3>3. rows'[n + 1] = <<>>
      BY <1>1, <3>2 DEF PaperOf
    <3> QED
      BY <3>1, <3>3
  <2> HIDE DEF n, len
  <2>2. Used' = n /\ Used = n
    BY <1>1, <1>6, <2>1 DEF Used
  <2>3. Top' = Top
    BY <1>1, <2>2 DEF Top
  <2>5. ASSUME NEW k \in Cell PROVE Picture'[k] = Picture[k]
    <3> DEFINE r == Top + (k \div Width) + 1
               x == (k % Width) + 1
    <3>1. r \in Nat /\ r > 0 /\ x \in 1 .. Width
      <4>1. k \div Width \in Nat /\ k % Width \in 0 .. Width - 1
        BY <1>2, CellIs
      <4> QED
        BY <1>1, <1>2, <4>1
    <3>2. Picture[k] = Shown(r, x)
      BY DEF Picture
    <3>3. Picture'[k] = IF r <= Used' /\ x <= Len(rows'[r]) THEN rows'[r][x]
                        ELSE IF r <= Height THEN Old ELSE Blank
      BY <2>3 DEF Picture, Shown
    <3> HIDE DEF r, x
    <3> QED
      BY <1>1, <1>2, <2>1, <2>2, <3>1, <3>2, <3>3 DEF Shown
  <2>6. Picture' = Picture
    BY <2>5 DEF Picture
  <2>7. Place' = Width * (Row + 1) + 0
    <3>1. Row' = Row + 1
      <4>1. Row = n - 1 - Top /\ n \in Nat /\ Top \in Nat
        BY <1>1
      <4>2. Row' = Len(rows') - 1 - Top'
        BY DEF Row
      <4>3. Len(rows') = n + 1 /\ Top' = Top
        BY <2>1, <2>3
      <4> QED
        BY <4>1, <4>2, <4>3
    <3> QED
      BY <2>1, <3>1 DEF Place
  <2>8. LineOf(Place) = Row
    BY <1>1, <1>3, <1>6
  <2> QED
    BY <1>1, <1>2, <1>4, <2>6, <2>7, <2>8
<1> QED
  BY <1>5, <1>6

\* A character that fits goes to the next cell, which was free.
LEMMA CharFits ==
  ASSUME NEW S, PaperOf(S), NEW c, c # NL, rows' = Typed(rows, c), Place # Cells
  PROVE  /\ \E T : PaperOf(T)'
         /\ Place \in Cell /\ Place' = Place + 1
         /\ Picture' = [Picture EXCEPT ![Place] = c]
<1> DEFINE n == Len(rows)
           len == Len(rows[n])
<1>1. /\ n \in Nat \ {0} /\ len \in 0 .. Width /\ Top \in Nat /\ Used \in Nat
      /\ Row \in 0 .. Height /\ Row = n - 1 - Top
      /\ Used = (IF len = 0 /\ n > 1 THEN n - 1 ELSE n)
      /\ Top = (IF Used > Height THEN Used - Height ELSE 0)
      /\ len = 0 => (n = 1 /\ Row = 0) \/ (n > 1 /\ Row > 0)
  BY RowIs DEF Row
<1>2. Place = Width * Row + len
  BY DEF Place
<1>3. Width \in Nat \ {0} /\ Height \in Nat \ {0} /\ Cells \in Nat
  BY Sizes
<1>4. /\ Place \in 0 .. Cells
      /\ Row < Height /\ (Row = Height - 1 => len < Width)
  <2>1. /\ Place \in 0 .. Cells
        /\ Place = Cells <=> Row = Height \/ (Row = Height - 1 /\ len = Width)
    BY PlaceIs
  <2> HIDE DEF n, len
  <2>2. Row # Height /\ ~(Row = Height - 1 /\ len = Width)
    BY <2>1
  <2>3. Width \in Nat /\ Height \in Nat /\ Row \in 0 .. Height /\ len \in 0 .. Width
    BY <1>1, <1>3
  <2> QED
    BY <2>1, <2>2, <2>3
<1>5. \E T : PaperOf(T)'
  BY TypedIs
<1>6. Place \in Cell
  BY <1>3, <1>4 DEF Cell
<1>7. ASSUME NEW R \in 0 .. Height - 1, NEW X \in 0 .. Width - 1, Place = Width * R + X,
             \A k \in Cell : Picture'[k] = IF k \div Width = R /\ k % Width = X
                                           THEN c ELSE Picture[k]
      PROVE  Picture' = [Picture EXCEPT ![Place] = c]
  <2>1. ASSUME NEW k \in Cell PROVE k = Place <=> k \div Width = R /\ k % Width = X
    <3>1. /\ k \div Width \in Nat /\ k % Width \in 0 .. Width - 1 /\ R \in Nat
          /\ k = Width * (k \div Width) + (k % Width)
      BY <1>3, CellIs
    <3> QED
      BY <1>3, <1>7, <3>1, DivUnique
  <2>2. \A k \in Cell : Picture'[k] = [Picture EXCEPT ![Place] = c][k]
    BY <1>7, <2>1 DEF Picture
  <2> QED
    BY <2>2 DEF Picture
<1>8. CASE len # Width
  <2>1. /\ Len(rows') = n /\ Len(rows'[n]) = len + 1 /\ rows'[n][len + 1] = c
        /\ \A x \in 1 .. len : rows'[n][x] = rows[n][x]
        /\ \A r \in 1 .. n : r # n => rows'[r] = rows[r]
    BY <1>8, TypedIs
  <2>2. Used' = n
    <3>1. rows'[n] # <<>>
      BY <1>1, <2>1
    <3> QED
      BY <2>1, <3>1 DEF Used
  <2> HIDE DEF n, len
  <2>3. Top' = Top /\ (Used # n => Used = n - 1 /\ n <= Height /\ len = 0)
    BY <1>1, <1>3, <1>4, <2>2 DEF Top
  <2>4. Row' = Row
    BY <1>1, <2>1, <2>3 DEF Row
  <2>5. Place' = Place + 1
    <3>1. Place' = Width * Row + (len + 1)
      BY <2>1, <2>4 DEF Place
    <3>2. Width * Row \in Nat
      BY <1>1, <1>3, Times
    <3> QED
      BY <1>1, <1>2, <3>1, <3>2
  <2>6. ASSUME NEW k \in Cell
        PROVE  Picture'[k] = IF k \div Width = Row /\ k % Width = len THEN c ELSE Picture[k]
    <3> DEFINE r == Top + (k \div Width) + 1
               x == (k % Width) + 1
    <3>1. /\ r \in Nat /\ r > 0 /\ x \in Nat /\ x > 0
          /\ (k \div Width = Row <=> r = n) /\ (k % Width = len <=> x = len + 1)
      <4>1. k \div Width \in Nat /\ k % Width \in Nat
        BY <1>3, CellIs
      <4> QED
        BY <1>1, <1>3, <4>1
    <3>2. Picture[k] = IF r <= Used /\ x <= Len(rows[r]) THEN rows[r][x]
                       ELSE IF r <= Height THEN Old ELSE Blank
      BY DEF Picture, Shown
    <3>3. Picture'[k] = IF r <= n /\ x <= Len(rows'[r]) THEN rows'[r][x]
                        ELSE IF r <= Height THEN Old ELSE Blank
      BY <2>2, <2>3 DEF Picture, Shown
    <3> HIDE DEF r, x
    <3>4. CASE r < n
      BY <1>1, <2>1, <2>3, <3>1, <3>2, <3>3, <3>4
    <3>5. CASE r > n
      BY <1>1, <2>3, <3>1, <3>2, <3>3, <3>5
    <3>6. CASE r = n /\ x = len + 1
      BY <1>1, <2>1, <3>1, <3>3, <3>6
    <3>7. CASE r = n /\ x # len + 1 /\ Used = n
      BY <1>1, <2>1, <3>1, <3>2, <3>3, <3>7 DEF len
    <3>8. CASE r = n /\ x # len + 1 /\ Used # n
      BY <1>1, <2>1, <2>3, <3>1, <3>2, <3>3, <3>8
    <3> QED
      BY <1>1, <3>1, <3>4, <3>5, <3>6, <3>7, <3>8
  <2>7. Row \in 0 .. Height - 1 /\ len \in 0 .. Width - 1
    BY <1>1, <1>3, <1>4, <1>8
  <2> QED
    BY <1>2, <1>5, <1>6, <1>7, <2>5, <2>6, <2>7
<1>9. CASE len = Width
  <2>1. /\ Len(rows') = n + 1 /\ Len(rows'[n + 1]) = 1 /\ rows'[n + 1][1] = c
        /\ \A r \in 1 .. n : rows'[r] = rows[r]
    BY <1>9, TypedIs
  <2>2. Used' = n + 1
    <3>1. rows'[n + 1] # <<>>
      BY <2>1
    <3> QED
      BY <2>1, <3>1 DEF Used
  <2> HIDE DEF n, len
  <2>3. Top' = Top /\ Top = 0 /\ n < Height /\ Used = n
    BY <1>1, <1>3, <1>4, <1>9, <2>2 DEF Top
  <2>4. Row' = Row + 1
    BY <1>1, <2>1, <2>3 DEF Row
  <2>5. Place' = Place + 1 /\ Place = Width * (Row + 1) + 0
    <3>1. Place = Width * (Row + 1)
      BY <1>1, <1>3, <1>9, <1>2
    <3>2. Place' = Width * (Row + 1) + 1
      BY <2>1, <2>4 DEF Place
    <3> QED
      BY <1>4, <3>1, <3>2
  <2>6. ASSUME NEW k \in Cell
        PROVE  Picture'[k] = IF k \div Width = Row + 1 /\ k % Width = 0 THEN c ELSE Picture[k]
    <3> DEFINE r == (k \div Width) + 1
               x == (k % Width) + 1
    <3>1. /\ r \in Nat /\ r > 0 /\ r <= Height /\ x \in Nat /\ x > 0
          /\ (k \div Width = Row + 1 <=> r = n + 1) /\ (k % Width = 0 <=> x = 1)
      <4>1. k \div Width \in 0 .. Height - 1 /\ k % Width \in 0 .. Width - 1
        BY CellIs
      <4> QED
        BY <1>1, <1>3, <2>3, <4>1
    <3>2. Picture[k] = IF r <= n /\ x <= Len(rows[r]) THEN rows[r][x]
                       ELSE IF r <= Height THEN Old ELSE Blank
      <4>1. Top + (k \div Width) + 1 = r
        BY <1>3, <2>3, CellIs
      <4> QED
        BY <2>3, <4>1 DEF Picture, Shown
    <3>3. Picture'[k] = IF r <= n + 1 /\ x <= Len(rows'[r]) THEN rows'[r][x]
                        ELSE IF r <= Height THEN Old ELSE Blank
      <4>1. Top' + (k \div Width) + 1 = r
        BY <1>3, <2>3, CellIs
      <4> QED
        BY <2>2, <4>1 DEF Picture, Shown
    <3> HIDE DEF r, x
    <3>4. CASE r <= n
      BY <1>1, <2>1, <3>1, <3>2, <3>3, <3>4
    <3>5. CASE r > n + 1
      BY <1>1, <3>1, <3>2, <3>3, <3>5
    <3>6. CASE r = n + 1
      BY <1>1, <2>1, <3>1, <3>2, <3>3, <3>6
    <3> QED
      BY <1>1, <3>1, <3>4, <3>5, <3>6
  <2>7. Row + 1 \in 0 .. Height - 1 /\ 0 \in 0 .. Width - 1
    BY <1>1, <1>3, <1>4, <1>9
  <2> QED
    BY <1>5, <1>6, <1>7, <2>5, <2>6, <2>7
<1> QED
  BY <1>8, <1>9

\* A character behind the screen scrolls it and starts the last row.
LEMMA CharScrolls ==
  ASSUME NEW S, PaperOf(S), NEW c, c # NL, rows' = Typed(rows, c), Place = Cells
  PROVE  /\ \E T : PaperOf(T)'
         /\ Place' = LastLine + 1
         /\ Picture' = [Scrolled(Picture) EXCEPT ![LastLine] = c]
<1> DEFINE n == Len(rows)
           len == Len(rows[n])
           last == Top + Height + 1
<1>1. /\ n \in Nat \ {0} /\ len \in 0 .. Width /\ Top \in Nat /\ Used \in Nat
      /\ Row \in 0 .. Height /\ Row = n - 1 - Top
      /\ Used = (IF len = 0 /\ n > 1 THEN n - 1 ELSE n)
      /\ Top = (IF Used > Height THEN Used - Height ELSE 0)
      /\ len = 0 => (n = 1 /\ Row = 0) \/ (n > 1 /\ Row > 0)
  BY RowIs DEF Row
<1>2. /\ Width \in Nat \ {0} /\ Height \in Nat \ {0} /\ Cells \in Nat /\ LastLine \in Nat
      /\ Cells = LastLine + Width
  BY Sizes
<1>3. \/ Row = Height /\ len = 0
      \/ Row = Height - 1 /\ len = Width
  BY PlaceIs, RowIs
<1>4. \E T : PaperOf(T)'
  BY TypedIs
<1>5. /\ Len(rows') = last /\ Len(rows'[last]) = 1 /\ rows'[last][1] = c
      /\ \A r \in Nat : 0 < r /\ r < last => rows'[r] = rows[r]
      /\ Used = last - 1
  <2>1. CASE Row = Height /\ len = 0
    <3>1. /\ Len(rows') = n /\ Len(rows'[n]) = len + 1 /\ rows'[n][len + 1] = c
          /\ \A r \in 1 .. n : r # n => rows'[r] = rows[r]
      <4>1. len # Width
        BY <1>2, <2>1
      <4>2. /\ Len(rows') = n /\ Len(rows'[n]) = len + 1 /\ rows'[n][len + 1] = c
            /\ \A x \in 1 .. len : rows'[n][x] = rows[n][x]
            /\ \A r \in 1 .. n : r # n => rows'[r] = rows[r]
        BY <4>1, TypedIs
      <4> QED
        BY <4>2, Zenon
    <3> HIDE DEF n, len
    <3>2. last = n /\ len + 1 = 1 /\ n > 1
      BY <1>1, <1>2, <2>1
    <3>3. \A r \in Nat : 0 < r /\ r < last => r \in 1 .. n /\ r # n
      BY <1>1, <3>2
    <3> HIDE DEF last
    <3>4. Used = last - 1
      BY <1>1, <2>1, <3>2
    <3> QED
      BY <2>1, <3>1, <3>2, <3>3, <3>4
  <2>2. CASE Row = Height - 1 /\ len = Width
    <3>1. /\ Len(rows') = n + 1 /\ Len(rows'[n + 1]) = 1 /\ rows'[n + 1][1] = c
          /\ \A r \in 1 .. n : rows'[r] = rows[r]
      BY <2>2, TypedIs
    <3> HIDE DEF n, len
    <3>2. last = n + 1 /\ len # 0
      BY <1>1, <1>2, <2>2
    <3> QED
      BY <1>1, <2>2, <3>1, <3>2
  <2> QED
    BY <1>3, <2>1, <2>2
<1> HIDE DEF n, len
<1>6. Used' = last /\ last \in Nat /\ last > 1
  <2>1. rows'[last] # <<>>
    BY <1>5
  <2>2. last \in Nat /\ last > 1
    BY <1>1, <1>2
  <2> HIDE DEF last
  <2> QED
    BY <1>5, <2>1, <2>2 DEF Used
<1>7. Top' = Top + 1
  BY <1>1, <1>2, <1>6 DEF Top
<1>8. Row' = Height - 1
  <2>1. Row' = Len(rows') - 1 - Top'
    BY DEF Row
  <2> QED
    BY <1>1, <1>2, <1>5, <1>7, <2>1
<1>9. Place' = LastLine + 1
  BY <1>5, <1>8 DEF Place, LastLine
<1>10. ASSUME NEW k \in Cell
       PROVE  Picture'[k] = [Scrolled(Picture) EXCEPT ![LastLine] = c][k]
  <2> DEFINE q == k \div Width
             m == k % Width
             r == Top + q + 2
  <2>1. /\ q \in 0 .. Height - 1 /\ m \in 0 .. Width - 1 /\ k = Width * q + m
        /\ k \in Nat
    BY CellIs
  <2>2. Picture'[k] = IF r <= last /\ m + 1 <= Len(rows'[r]) THEN rows'[r][m + 1]
                      ELSE IF r <= Height THEN Old ELSE Blank
    <3>1. Top' + q + 1 = r
      BY <1>1, <1>7, <2>1
    <3> QED
      BY <1>6, <3>1 DEF Picture, Shown
  <2>3. Scrolled(Picture)[k] = IF k < LastLine THEN Picture[k + Width] ELSE Blank
    BY DEF Scrolled
  <2>4. LastLine = Width * (Height - 1) + 0
    BY <1>2 DEF LastLine
  <2> HIDE DEF q, m
  <2>5. CASE q < Height - 1
    <3>1. k + Width = Width * (q + 1) + m
      BY <1>2, <2>1
    <3>2. (k + Width) \div Width = q + 1 /\ (k + Width) % Width = m
      <4>1. Width \in Nat \ {0} /\ q + 1 \in Nat /\ m \in 0 .. Width - 1
        BY <1>2, <2>1
      <4>2. (Width * (q + 1) + m) \div Width = q + 1 /\ (Width * (q + 1) + m) % Width = m
        BY <4>1, QuotientOf
      <4> QED
        BY <3>1, <4>2, Zenon
    <3>3. k < LastLine /\ k + Width \in Cell
      <4>1. Width * q + Width <= Width * (Height - 1)
        BY <1>2, <2>1, <2>5, OneMore
      <4> DEFINE a == Width * q
      <4>2. a + Width <= LastLine /\ k = a + m /\ a \in Nat
        BY <1>2, <2>1, <2>4, <4>1, Times
      <4> HIDE DEF a
      <4>3. m \in 0 .. Width - 1 /\ k \in Nat
        BY <2>1
      <4> QED
        BY <1>2, <4>2, <4>3 DEF Cell
    <3>4. Picture[k + Width] = IF r <= Used /\ m + 1 <= Len(rows[r]) THEN rows[r][m + 1]
                               ELSE IF r <= Height THEN Old ELSE Blank
      <4>1. Top + (q + 1) + 1 = r
        BY <1>1, <2>1
      <4> QED
        BY <3>2, <3>3, <4>1 DEF Picture, Shown
    <3>5. r \in Nat /\ 0 < r /\ r < last /\ r <= Used
      BY <1>1, <1>2, <1>5, <2>1, <2>5
    <3>6. Picture'[k] = Picture[k + Width]
      BY <1>5, <2>2, <3>4, <3>5
    <3> QED
      BY <1>2, <2>3, <3>3, <3>6 DEF Scrolled
  <2>6. CASE q = Height - 1
    <3>1. r = last /\ r > Height /\ r \in Nat
      BY <1>1, <1>2, <2>6
    <3>2. k = LastLine + m /\ ~(k < LastLine)
      BY <1>2, <2>1, <2>4, <2>6
    <3>3. CASE m = 0
      <4>1. Picture'[k] = c
        BY <1>5, <2>2, <3>1, <3>3
      <4>2. k = LastLine
        BY <1>2, <3>2, <3>3
      <4> QED
        BY <4>1, <4>2 DEF Scrolled
    <3>4. CASE m # 0
      <4>1. Picture'[k] = Blank
        BY <1>2, <1>5, <2>1, <2>2, <3>1, <3>4
      <4>2. k # LastLine
        BY <1>2, <2>1, <3>2, <3>4
      <4> QED
        BY <2>3, <3>2, <4>1, <4>2 DEF Scrolled
    <3> QED
      BY <3>3, <3>4
  <2> QED
    BY <1>2, <2>1, <2>5, <2>6
<1>11. Picture' = [Scrolled(Picture) EXCEPT ![LastLine] = c]
  BY <1>10 DEF Picture, Scrolled
<1> QED
  BY <1>4, <1>9, <1>11

-----------------------------------------------------------------------------
(***************************************************************************)
(* The screen follows the teletype                                         *)
(***************************************************************************)

\* The screen while __vga_scroll copies the lines up and while it clears the last one.
CopiedUpTo(m)  == [k \in Cell |-> IF k < m THEN Picture[k + Width] ELSE Picture[k]]
ClearedUpTo(m) == [k \in Cell |-> IF k < LastLine THEN Picture[k + Width]
                                 ELSE IF k < LastLine + m THEN Blank ELSE Picture[k]]

\* At each statement of vga_print_char, how far the screen and txt_addr are from what
\* the teletype has typed.
Drawn ==
  /\ \E S : PaperOf(S)
  /\ pc \in {"idle", "line", "newline", "column", "next"} => screen = Picture /\ cell = Place
  /\ pc = "idle" => cursor = cell
  /\ pc = "advance" => screen = Picture /\ cell + 1 = Place
  /\ pc \in {"column", "scroll", "copy", "copied", "clear", "cleared", "store"} =>
       Head(queue) # NL
  /\ pc \in {"scroll", "copy", "copied", "clear", "cleared"} => Place = Cells
  /\ pc = "scroll" => screen = Picture
  /\ pc = "copy" => screen = CopiedUpTo(i)
  /\ pc = "copied" => screen = CopiedUpTo(i + 1)
  /\ pc = "clear" => screen = ClearedUpTo(i)
  /\ pc = "cleared" => screen = ClearedUpTo(i + 1)
  /\ pc = "store" => \/ cell = Place /\ Place # Cells /\ screen = Picture
                     \/ cell = LastLine /\ Place = Cells /\ screen = Scrolled(Picture)

\* Nothing is typed: the picture is the same.
LEMMA SamePaper ==
  ASSUME UNCHANGED rows
  PROVE  /\ Picture' = Picture /\ Place' = Place
         /\ \A m : CopiedUpTo(m)' = CopiedUpTo(m) /\ ClearedUpTo(m)' = ClearedUpTo(m)
         /\ (\E S : PaperOf(S)) => (\E S : PaperOf(S)')
<1>1. Picture' = Picture /\ Place' = Place
  BY DEF Picture, Place, Row, Top, Used, Shown
<1>2. \A m : CopiedUpTo(m)' = CopiedUpTo(m) /\ ClearedUpTo(m)' = ClearedUpTo(m)
  BY <1>1 DEF CopiedUpTo, ClearedUpTo
<1>3. \A S : PaperOf(S) => PaperOf(S)'
  BY DEF PaperOf
<1> QED
  BY <1>1, <1>2, <1>3

\* The keyboard handler prints a character between two calls of the main flow.
LEMMA KeyDrawn ==
  ASSUME Placed, Drawn, NEW c, ~KeysDuringPrints, Key(c)
  PROVE  Drawn'
<1>1. /\ pc = "idle" /\ pc' = "idle" /\ vga_print_char(c) /\ rows' = Typed(rows, c)
      /\ screen = Picture /\ cell = Place
  BY DEF Key, Type, Drawn
<1>2. PICK S : PaperOf(S)
  BY DEF Drawn
<1>3. cell \in 0 .. Cells /\ (MustScroll(LineOf(cell), ColumnOf(cell)) <=> cell = Cells)
  BY <1>1, ScrollsAtEnd DEF Placed
<1>4. /\ \E T : PaperOf(T)'
      /\ screen' = Picture' /\ cell' = Place' /\ cursor' = cell'
  <2>1. CASE c = NL
    BY <1>1, <1>2, <2>1, LineFeedIs DEF vga_print_char
  <2>2. CASE c # NL /\ cell # Cells
    <3>1. /\ cell \in Cell /\ Place' = cell + 1
          /\ Picture' = [Picture EXCEPT ![cell] = c] /\ \E T : PaperOf(T)'
      BY <1>1, <1>2, <2>2, CharFits
    <3>2. screen' = Put(screen, cell, c) /\ cell' = cell + 1 /\ cursor' = cell'
      BY <1>1, <1>3, <2>2 DEF vga_print_char
    <3> QED
      BY <1>1, <3>1, <3>2 DEF Put
  <2>3. CASE c # NL /\ cell = Cells
    <3>1. /\ Place' = LastLine + 1 /\ \E T : PaperOf(T)'
          /\ Picture' = [Scrolled(Picture) EXCEPT ![LastLine] = c]
      BY <1>1, <1>2, <2>3, CharScrolls
    <3>2. /\ screen' = Put(Scrolled(screen), LastLine, c) /\ cell' = LastLine + 1
          /\ cursor' = cell'
      BY <1>1, <1>3, <2>3 DEF vga_print_char
    <3>3. LastLine \in Cell
      BY Sizes DEF Cell
    <3> QED
      BY <1>1, <3>1, <3>2, <3>3 DEF Put
  <2> QED
    BY <2>1, <2>2, <2>3
<1> QED
  BY <1>1, <1>4 DEF Drawn

\* The statements of the main flow that type a character.
LEMMA NewlineDrawn ==
  ASSUME Placed, Drawn, Newline
  PROVE  Drawn'
<1>1. /\ pc = "newline" /\ pc' = "next" /\ rows' = Typed(rows, NL) /\ screen' = screen
      /\ cell' = (LineOf(cell) + 1) * Width /\ screen = Picture /\ cell = Place
  BY DEF Newline, Type, Goto, Placed, Drawn
<1>2. PICK S : PaperOf(S)
  BY DEF Drawn
<1>3. (\E T : PaperOf(T)') /\ screen' = Picture' /\ cell' = Place'
  BY <1>1, <1>2, LineFeedIs
<1> QED
  BY <1>1, <1>3 DEF Drawn

LEMMA StoreDrawn ==
  ASSUME Placed, Drawn, Store
  PROVE  Drawn'
<1> DEFINE c == Head(queue)
<1>1. /\ pc = "store" /\ pc' = "advance" /\ rows' = Typed(rows, c) /\ cell' = cell
      /\ screen' = Put(screen, cell, c) /\ cell \in Cell /\ c # NL
  BY DEF Store, Type, Goto, Placed, Drawn
<1>2. PICK S : PaperOf(S)
  BY DEF Drawn
<1> HIDE DEF c
<1>3. /\ \E T : PaperOf(T)'
      /\ Picture' = screen' /\ Place' = cell + 1
  <2>1. CASE cell = Place /\ Place # Cells /\ screen = Picture
    <3>1. /\ \E T : PaperOf(T)'
          /\ Picture' = [Picture EXCEPT ![Place] = c] /\ Place' = Place + 1
      BY <1>1, <1>2, <2>1, CharFits
    <3> QED
      BY <1>1, <2>1, <3>1 DEF Put
  <2>2. CASE cell = LastLine /\ Place = Cells /\ screen = Scrolled(Picture)
    <3>1. /\ \E T : PaperOf(T)'
          /\ Picture' = [Scrolled(Picture) EXCEPT ![LastLine] = c] /\ Place' = LastLine + 1
      BY <1>1, <1>2, <2>2, CharScrolls
    <3> QED
      BY <1>1, <2>2, <3>1 DEF Put
  <2> QED
    BY <1>1, <2>1, <2>2 DEF Drawn
<1> QED
  BY <1>1, <1>3 DEF Drawn

\* The other statements of the main flow.
LEMMA PrintDrawn ==
  ASSUME Placed, Drawn, PrintStep
  PROVE  Drawn'
<1>1. /\ Cells \in Nat /\ LastLine \in Nat /\ Cells = LastLine + Width
      /\ Width \in Nat \ {0}
  BY Sizes
<1>2. ASSUME rows' = rows
      PROVE  /\ Picture' = Picture /\ Place' = Place /\ \E S : PaperOf(S)'
             /\ \A m : CopiedUpTo(m)' = CopiedUpTo(m) /\ ClearedUpTo(m)' = ClearedUpTo(m)
  BY <1>2, SamePaper DEF Drawn
<1>3. CASE ReadLine
  <2>1. /\ pc = "line" /\ rows' = rows /\ screen' = screen /\ cell' = cell /\ queue' = queue
        /\ pc' = IF Head(queue) = NL THEN "newline" ELSE "column"
    BY <1>3 DEF ReadLine, Goto, Local, history
  <2> QED
    BY <1>2, <2>1 DEF Drawn
<1>4. CASE ReadColumn
  <2>1. /\ pc = "column" /\ rows' = rows /\ screen' = screen /\ cell' = cell /\ queue' = queue
        /\ pc' = IF MustScroll(LineOf(cell), ColumnOf(cell)) THEN "scroll" ELSE "store"
        /\ cell \in 0 .. Cells
    BY <1>4 DEF ReadColumn, Goto, Local, history, Placed
  <2>2. pc' = IF cell = Cells THEN "scroll" ELSE "store"
    BY <2>1, ScrollsAtEnd
  <2> QED
    BY <1>2, <2>1, <2>2 DEF Drawn
<1>5. CASE Scroll
  <2>1. /\ pc = "scroll" /\ pc' = "copy" /\ rows' = rows /\ screen' = screen /\ i' = 0
        /\ queue' = queue
    BY <1>5 DEF Scroll, Goto, history
  <2>2. Picture = CopiedUpTo(0)
    BY DEF Picture, CopiedUpTo, Cell
  <2> QED
    BY <1>2, <2>1, <2>2 DEF Drawn
<1>6. CASE Copy
  <2>1. /\ pc = "copy" /\ pc' = "copied" /\ rows' = rows /\ i' = i /\ queue' = queue
        /\ screen' = Put(screen, i, screen[Width + i]) /\ i \in Nat /\ i < LastLine
        /\ screen = CopiedUpTo(i)
    BY <1>6 DEF Copy, Goto, history, locals, Placed, Drawn
  <2>2. i \in Cell /\ Width + i \in Cell /\ ~(Width + i < i)
    BY <1>1, <2>1 DEF Cell
  <2>3. screen' = [screen EXCEPT ![i] = Picture[i + Width]]
    <3>1. screen[Width + i] = Picture[Width + i] /\ Width + i = i + Width
      BY <1>1, <2>1, <2>2 DEF CopiedUpTo
    <3> QED
      BY <2>1, <2>2, <3>1 DEF Put
  <2>4. screen' = CopiedUpTo(i + 1)
    <3>1. ASSUME NEW k \in Cell PROVE screen'[k] = CopiedUpTo(i + 1)[k]
      <4>1. k \in Nat /\ (k = i => k < i + 1) /\ (k # i => (k < i <=> k < i + 1))
        BY <1>1, <2>1 DEF Cell
      <4>2. screen[k] = CopiedUpTo(i)[k] /\ screen'[k] = IF k = i THEN Picture[k + Width] ELSE screen[k]
        BY <2>1, <2>3 DEF CopiedUpTo
      <4> QED
        BY <4>1, <4>2 DEF CopiedUpTo
    <3> QED
      BY <2>1, <2>3, <3>1 DEF CopiedUpTo
  <2> QED
    BY <1>2, <2>1, <2>4 DEF Drawn
<1>7. CASE Copied
  <2>1. /\ pc = "copied" /\ pc' = "copy" /\ rows' = rows /\ i' = i + 1 /\ queue' = queue
        /\ screen' = screen
    BY <1>7 DEF Copied, Goto, history
  <2> QED
    BY <1>2, <2>1 DEF Drawn
<1>8. CASE ClearLine
  <2>1. /\ pc = "copy" /\ pc' = "clear" /\ rows' = rows /\ i' = 0 /\ i = LastLine
        /\ screen' = screen /\ queue' = queue
    BY <1>8 DEF ClearLine, Goto, history
  <2>2. CopiedUpTo(LastLine) = ClearedUpTo(0)
    BY <1>1 DEF CopiedUpTo, ClearedUpTo, Cell
  <2> QED
    BY <1>2, <2>1, <2>2 DEF Drawn
<1>9. CASE Clear
  <2>1. /\ pc = "clear" /\ pc' = "cleared" /\ rows' = rows /\ i' = i /\ queue' = queue
        /\ screen' = Put(screen, LastLine + i, Blank) /\ i \in Nat /\ i < Width
        /\ screen = ClearedUpTo(i)
    BY <1>9 DEF Clear, Goto, history, locals, Placed, Drawn
  <2>2. LastLine + i \in Cell
    BY <1>1, <2>1 DEF Cell
  <2>3. screen' = [screen EXCEPT ![LastLine + i] = Blank]
    BY <2>1, <2>2 DEF Put
  <2>4. screen' = ClearedUpTo(i + 1)
    <3>1. ASSUME NEW k \in Cell PROVE screen'[k] = ClearedUpTo(i + 1)[k]
      <4>1. k \in Nat /\ (k = LastLine + i => ~(k < LastLine) /\ k < LastLine + (i + 1))
            /\ (k # LastLine + i => (k < LastLine + i <=> k < LastLine + (i + 1)))
        BY <1>1, <2>1 DEF Cell
      <4>2. screen[k] = ClearedUpTo(i)[k] /\ screen'[k] = IF k = LastLine + i THEN Blank ELSE screen[k]
        BY <2>1, <2>3 DEF ClearedUpTo
      <4> QED
        BY <4>1, <4>2 DEF ClearedUpTo
    <3> QED
      BY <2>1, <2>3, <3>1 DEF ClearedUpTo
  <2> QED
    BY <1>2, <2>1, <2>4 DEF Drawn
<1>10. CASE Cleared
  <2>1. /\ pc = "cleared" /\ pc' = "clear" /\ rows' = rows /\ i' = i + 1 /\ queue' = queue
        /\ screen' = screen
    BY <1>10 DEF Cleared, Goto, history
  <2> QED
    BY <1>2, <2>1 DEF Drawn
<1>11. CASE Restore
  <2>1. /\ pc = "clear" /\ pc' = "store" /\ rows' = rows /\ i = Width /\ queue' = queue
        /\ screen' = screen /\ cell' = LastLine
    BY <1>11 DEF Restore, Goto, history, Placed
  <2>2. ClearedUpTo(Width) = Scrolled(Picture)
    BY <1>1 DEF ClearedUpTo, Scrolled, Cell
  <2> QED
    BY <1>2, <2>1, <2>2 DEF Drawn
<1>12. CASE Advance
  <2>1. /\ pc = "advance" /\ pc' = "next" /\ rows' = rows /\ screen' = screen
        /\ cell' = cell + 1
    BY <1>12 DEF Advance, Goto, history
  <2> QED
    BY <1>2, <2>1 DEF Drawn
<1>13. CASE NextChar
  <2>1. /\ pc = "next" /\ rows' = rows /\ screen' = screen /\ cell' = cell
        /\ pc' \in {"idle", "line"} /\ (pc' = "idle" => cursor' = cell')
    BY <1>13 DEF NextChar, Goto, history
  <2> QED
    BY <1>2, <2>1 DEF Drawn
<1> QED
  BY <1>3, <1>4, <1>5, <1>6, <1>7, <1>8, <1>9, <1>10, <1>11, <1>12, <1>13,
     NewlineDrawn, StoreDrawn DEF PrintStep

\* Every step.
LEMMA NextDrawn ==
  ASSUME ~KeysDuringPrints
  PROVE  Placed /\ Drawn /\ [Next]_vars => Drawn'
<1> SUFFICES ASSUME Placed, Drawn, [Next]_vars PROVE Drawn'
  OBVIOUS
<1>1. ASSUME NEW chars, NEW e, Send(chars, e) PROVE Drawn'
  <2>1. /\ pc = "idle" /\ pc' = "line" /\ rows' = rows /\ screen' = screen /\ cell' = cell
    BY <1>1 DEF Send, Goto, history
  <2> QED
    BY <2>1, SamePaper DEF Drawn
<1>2. CASE UNCHANGED vars
  <2>1. /\ pc' = pc /\ rows' = rows /\ screen' = screen /\ cell' = cell /\ cursor' = cursor
        /\ queue' = queue /\ i' = i
    BY <1>2 DEF vars, locals, history
  <2> QED
    BY <2>1, SamePaper DEF Drawn
<1>3. CASE \E f \in Formats : printk(f)
  BY <1>1, <1>3 DEF printk
<1>4. CASE \E m \in Messages : DEBUG(m)
  BY <1>1, <1>4 DEF DEBUG
<1> QED
  BY <1>2, <1>3, <1>4, KeyDrawn, PrintDrawn DEF Next

\* The boot loader's screen.
LEMMA InitDrawn == Init => Drawn
<1> SUFFICES ASSUME Init PROVE Drawn
  OBVIOUS
<1>1. /\ Width \in Nat \ {0} /\ Height \in Nat \ {0}
  BY Sizes
<1>2. /\ rows = << <<>> >> /\ pc = "idle" /\ cell = 0 /\ cursor = 0
      /\ screen = [k \in Cell |-> Old]
  BY DEF Init
<1>3. PaperOf({})
  <2>1. /\ rows \in Seq(Seq({})) /\ Len(rows) = 1 /\ rows[1] = <<>> /\ Len(rows[1]) = 0
    BY <1>2
  <2> QED
    BY <1>1, <2>1 DEF PaperOf
<1>4. /\ Len(rows) = 1 /\ rows[1] = <<>> /\ Len(rows[1]) = 0
  BY <1>2
<1>5. Used = 1 /\ Top = 0 /\ Row = 0
  BY <1>1, <1>4 DEF Used, Top, Row
<1>6. Place = 0
  <2>1. Place = Width * 0 + 0
    BY <1>4, <1>5 DEF Place
  <2> QED
    BY <1>1, <2>1
<1>7. ASSUME NEW k \in Cell PROVE Picture[k] = Old
  <2> DEFINE r == (k \div Width) + 1
             x == (k % Width) + 1
  <2>1. r \in Nat /\ 0 < r /\ r <= Height /\ x \in Nat /\ x > 0
    BY <1>1, CellIs
  <2>2. Top + (k \div Width) + 1 = r
    BY <1>1, <1>5, CellIs
  <2>3. Picture[k] = IF r <= 1 /\ x <= Len(rows[r]) THEN rows[r][x]
                     ELSE IF r <= Height THEN Old ELSE Blank
    BY <1>5, <2>2 DEF Picture, Shown
  <2> HIDE DEF r, x
  <2> QED
    BY <1>4, <2>1, <2>3
<1>8. screen = Picture
  BY <1>2, <1>7 DEF Picture
<1> QED
  BY <1>2, <1>3, <1>6, <1>8 DEF Drawn

\* Drawn holds in every reachable state.
LEMMA DrawnHolds == ~KeysDuringPrints => (Spec => []Drawn)
<1> SUFFICES ASSUME ~KeysDuringPrints PROVE Spec => []Drawn
  OBVIOUS
<1>1. Placed /\ Drawn /\ [Next]_vars => Drawn'
  BY NextDrawn
<1> QED
  BY <1>1, InitDrawn, PlacedHolds, PTL DEF Spec

-----------------------------------------------------------------------------
(***************************************************************************)
(* The properties                                                          *)
(***************************************************************************)

\* Between two calls the screen shows the last rows of everything printed by printk,
\* DEBUG_* and the keyboard handler, and the cursor is where the next character goes,
\* for every size of the screen and everything printed: scrolling drops exactly the
\* first row and the address computed from lines and columns is never off by a row.
THEOREM ScreenShowsTailHolds == ~KeysDuringPrints => (Spec => []ScreenShowsTail)
<1> SUFFICES ASSUME ~KeysDuringPrints PROVE Spec => []ScreenShowsTail
  OBVIOUS
<1>1. Drawn => ScreenShowsTail
  BY DEF Drawn, ScreenShowsTail, Place
<1> QED
  BY <1>1, DrawnHolds, PTL

\* Between two calls txt_addr is on the screen or at the one place from which the next
\* character scrolls, for every size of the screen and everything printed: the line
\* and the column of vga_print_char cannot miss the end together.
THEOREM NeverLostHolds == ~KeysDuringPrints => (Spec => []NeverLost)
<1> SUFFICES ASSUME ~KeysDuringPrints PROVE Spec => []NeverLost
  OBVIOUS
<1>1. Placed => NeverLost
  <2> SUFFICES ASSUME Placed, pc = "idle" PROVE cell < Cells \/ ColumnOf(cell) = Width
    BY DEF NeverLost
  <2>1. cell \in 0 .. Cells /\ Cells \in Nat
    BY Sizes DEF Placed
  <2> QED
    BY <2>1, ScrollsAtEnd DEF MustScroll
<1> QED
  BY <1>1, PlacedHolds, PTL

\* The main flow never stores behind the last cell of the text memory, and the scroll
\* never reads there, for every size of the screen.
THEOREM StoresOnScreenHolds == ~KeysDuringPrints => (Spec => []StoresOnScreen)
<1> SUFFICES ASSUME ~KeysDuringPrints PROVE Spec => []StoresOnScreen
  OBVIOUS
<1>1. Placed => StoresOnScreen
  BY Sizes DEF Placed, StoresOnScreen, Storing, Cell
<1> QED
  BY <1>1, PlacedHolds, PTL
=============================================================================
