------------------------------- MODULE Screen -------------------------------
(* The screens of the terminals (vt.c, terminal.c): the emulator takes the   *)
(* bytes that programs write, one by one and over write boundaries, and      *)
(* changes a grid of cells; a kernel thread paints the changed rows of the   *)
(* active terminal, row by row, while others write, switch and resize.  The  *)
(* terminal lock makes every action here one step.                           *)
EXTENDS Integers, Sequences, FiniteSets, SequencesExt

CONSTANTS
  VTerms,        \* terminals
  VT_MAX_PARAMS,
  VtTab,         \* distance of tab stops, 8 in the code
  VtParamLimit,  \* a parameter below this takes one more digit, 10000 in the code
  ScreenCases    \* sizes, buffers that are written and numbers of operations

VARIABLES
  vts,     \* terminal -> emulator
  active,
  painted, \* what the display shows: rows, cursor
  refresh, \* the refresher: where it is, refresh_pending
  typed,   \* ghost: the text written to terminal 1 while it is only text
  scrCase
scrVars == <<vts, active, painted, refresh, typed, scrCase>>

(* A cell is its character: colours and attributes are left out. *)
vt_blank == " "
Smaller(a, b) == IF a < b THEN a ELSE b

(* Blanks in the cells from..to-1; a range that leaves the grid would grow it. *)
vt_fill(v, from, to) ==
  [v EXCEPT !.cells = [i \in DOMAIN @ \cup from..(to - 1) |-> IF from <= i /\ i < to THEN vt_blank ELSE @[i]],
            !.dirty = IF from < to THEN @ \cup (from \div v.cols)..((to - 1) \div v.cols) ELSE @]
Rows(v, top, bottom) == {i \in DOMAIN v.cells : top <= i \div v.cols /\ i \div v.cols < bottom}
vt_scroll_up(v, top, bottom, many) ==
  LET n == Smaller(many, bottom - top)
      moved == [v EXCEPT !.cells = [i \in DOMAIN @ |-> IF i \in Rows(v, top, bottom - n) THEN @[i + n * v.cols] ELSE @[i]]]
  IN [vt_fill(moved, (bottom - n) * v.cols, bottom * v.cols) EXCEPT !.dirty = @ \cup top..(bottom - 1)]
vt_scroll_down(v, top, bottom, many) ==
  LET n == Smaller(many, bottom - top)
      moved == [v EXCEPT !.cells = [i \in DOMAIN @ |-> IF i \in Rows(v, top + n, bottom) THEN @[i - n * v.cols] ELSE @[i]]]
  IN [vt_fill(moved, top * v.cols, (top + n) * v.cols) EXCEPT !.dirty = @ \cup top..(bottom - 1)]
vt_linefeed(v) == IF v.y + 1 >= v.rows THEN vt_scroll_up(v, 0, v.rows, 1) ELSE [v EXCEPT !.y = @ + 1]
vt_reverse_index(v) == IF v.y = 0 THEN vt_scroll_down(v, 0, v.rows, 1) ELSE [v EXCEPT !.y = @ - 1]

Home == [x |-> 0, y |-> 0]
vt_reset(v) ==
  vt_fill([v EXCEPT !.x = 0, !.y = 0, !.saved = Home, !.wrap = FALSE, !.visible = TRUE, !.state = "normal"],
          0, v.cols * v.rows)
vt_init(cols, rows) ==
  vt_reset([cells |-> [i \in 0..(cols * rows - 1) |-> vt_blank], dirty |-> {}, cols |-> cols, rows |-> rows, x |-> 0, y |-> 0,
            saved |-> Home, wrap |-> FALSE, visible |-> TRUE, state |-> "normal",
            private |-> FALSE, params |-> <<>>, response |-> <<>>])
vt_mark_dirty(v) == [v EXCEPT !.dirty = 0..(v.rows - 1)]
(* The cursor's row stays: what is above it moves out when rows are taken away. *)
SavedInside(saved, cols, rows) == [saved EXCEPT !.x = Smaller(@, cols - 1), !.y = Smaller(@, rows - 1)]
vt_resize(v, cols, rows) ==
  LET shift == IF v.y >= rows THEN v.y - rows + 1 ELSE 0
      old(i) == (i \div cols + shift) * v.cols + (i % cols)
      kept(i) == i \div cols + shift < v.rows /\ i % cols < v.cols
  IN IF cols = v.cols /\ rows = v.rows THEN v
     ELSE vt_mark_dirty([v EXCEPT !.cells = [i \in 0..(cols * rows - 1) |-> IF kept(i) THEN v.cells[old(i)] ELSE vt_blank],
                                  !.cols = cols, !.rows = rows, !.y = @ - shift, !.x = Smaller(@, cols - 1),
                                  !.saved = SavedInside(@, cols, rows)])

vt_respond(v, s) == [v EXCEPT !.response = Append(@, s)]
vt_save_cursor(v) == [v EXCEPT !.saved = [x |-> v.x, y |-> v.y]]
vt_restore_cursor(v) == [v EXCEPT !.x = v.saved.x, !.y = v.saved.y, !.wrap = FALSE]
Unwrapped(v) == [v EXCEPT !.wrap = FALSE]
vt_control(v, c) ==
  CASE c = "nl" -> vt_linefeed(Unwrapped(v))
    [] c = "cr" -> [Unwrapped(v) EXCEPT !.x = 0]
    [] c = "bs" -> [Unwrapped(v) EXCEPT !.x = IF @ > 0 THEN @ - 1 ELSE 0]
    [] c = "tab" -> [Unwrapped(v) EXCEPT !.x = Smaller((@ \div VtTab + 1) * VtTab, v.cols - 1)]
    [] c = "esc" -> [v EXCEPT !.state = "esc"]
    [] OTHER -> v
(* The wrap is left to the next character: a full line and a newline are one row. *)
Advanced(v) == IF v.x + 1 >= v.cols THEN [v EXCEPT !.wrap = TRUE] ELSE [v EXCEPT !.x = @ + 1]
vt_put_char(v, c) ==
  LET w == IF v.wrap THEN vt_linefeed([v EXCEPT !.wrap = FALSE, !.x = 0]) ELSE v
  IN Advanced([w EXCEPT !.cells[w.y * w.cols + w.x] = c, !.dirty = @ \cup {w.y}])

vt_param(v, i, def) == IF i <= Len(v.params) /\ v.params[i] # 0 THEN v.params[i] ELSE def
vt_clamp(n, max) == IF n < 0 THEN 0 ELSE Smaller(n, max - 1)
vt_shift_line(v, n, insert) ==
  LET line == v.y * v.cols
      count == Smaller(n, v.cols - v.x)
      mine == {i \in DOMAIN v.cells : i \div v.cols = v.y}
      moved == [v EXCEPT !.cells = [i \in DOMAIN @ |->
                  IF insert /\ i \in mine /\ i >= line + v.x + count THEN @[i - count]
                  ELSE IF ~insert /\ i \in mine /\ i >= line + v.x /\ i < line + v.cols - count THEN @[i + count]
                  ELSE @[i]]]
      from == IF insert THEN line + v.x ELSE line + v.cols - count
  IN [vt_fill(moved, from, from + count) EXCEPT !.dirty = @ \cup {v.y}]

(* The final byte of a control sequence; "m" changes only the style. *)
EchEnd(pos, n, lineEnd) == Smaller(pos + n, lineEnd)
Placed(v, x, y) == [v EXCEPT !.x = vt_clamp(x, v.cols), !.y = vt_clamp(y, v.rows)]
Erasing(v, c) ==
  LET pos == v.y * v.cols + v.x
      first == IF c = "J" THEN 0 ELSE v.y * v.cols
      end == IF c = "J" THEN v.cols * v.rows ELSE (v.y + 1) * v.cols
      kind == vt_param(v, 1, 0)
  IN CASE kind = 0 -> vt_fill(v, pos, end)
       [] kind = 1 -> vt_fill(v, first, pos + 1)
       [] kind = 2 \/ (kind = 3 /\ c = "J") -> vt_fill(v, first, end)
       [] OTHER -> v
vt_csi(v0, c) ==
  LET n == vt_param(v0, 1, 1)
      v == IF c \in {"m", "n", "c"} THEN v0 ELSE Unwrapped(v0)
      pos == v.y * v.cols + v.x
  IN CASE c = "A" -> Placed(v, v.x, v.y - n)
       [] c = "B" -> Placed(v, v.x, v.y + n)
       [] c = "C" -> Placed(v, v.x + n, v.y)
       [] c = "D" -> Placed(v, v.x - n, v.y)
       [] c = "E" -> Placed(v, 0, v.y + n)
       [] c = "F" -> Placed(v, 0, v.y - n)
       [] c = "G" -> Placed(v, n - 1, v.y)
       [] c = "d" -> Placed(v, v.x, n - 1)
       [] c = "H" -> Placed(v, vt_param(v, 2, 1) - 1, n - 1)
       [] c \in {"J", "K"} -> Erasing(v, c)
       [] c = "X" -> vt_fill(v, pos, EchEnd(pos, n, (v.y + 1) * v.cols))
       [] c = "@" -> vt_shift_line(v, n, TRUE)
       [] c = "P" -> vt_shift_line(v, n, FALSE)
       [] c = "L" -> [vt_scroll_down(v, v.y, v.rows, n) EXCEPT !.x = 0]
       [] c = "M" -> [vt_scroll_up(v, v.y, v.rows, n) EXCEPT !.x = 0]
       [] c = "S" -> vt_scroll_up(v, 0, v.rows, n)
       [] c = "T" -> vt_scroll_down(v, 0, v.rows, n)
       [] c = "s" -> vt_save_cursor(v)
       [] c = "u" -> vt_restore_cursor(v)
       [] c \in {"h", "l"} /\ v.private /\ 25 \in Range(v.params) -> [v EXCEPT !.visible = c = "h"]
       [] c = "n" /\ vt_param(v, 1, 0) = 5 -> vt_respond(v, <<"ok">>)
       [] c = "n" /\ vt_param(v, 1, 0) = 6 -> vt_respond(v, <<"at", v.y + 1, v.x + 1>>)
       [] c = "c" /\ ~v.private -> vt_respond(v, <<"kind">>)
       [] OTHER -> v

vt_esc(v0, c) ==
  LET v == [v0 EXCEPT !.state = "normal"]
  IN CASE c = "[" -> [v EXCEPT !.state = "csi", !.private = FALSE, !.params = <<>>]
       [] c = "]" -> [v EXCEPT !.state = "osc"]
       [] c = "(" -> [v EXCEPT !.state = "charset"]
       [] c = "7" -> vt_save_cursor(v)
       [] c = "8" -> vt_restore_cursor(v)
       [] c = "D" -> vt_linefeed(Unwrapped(v))
       [] c = "E" -> vt_linefeed([Unwrapped(v) EXCEPT !.x = 0])
       [] c = "M" -> vt_reverse_index(Unwrapped(v))
       [] c = "c" -> vt_reset(v)
       [] OTHER -> v
Digits == <<"0", "1", "2", "3", "4", "5", "6", "7", "8", "9">>
Controls == {"nl", "cr", "bs", "tab", "esc", "bel"}
FirstParam(ps) == IF ps = <<>> THEN <<0>> ELSE ps
TakesDigit(p) == p < VtParamLimit
vt_csi_byte(v, c) ==
  LET ps == FirstParam(v.params)
      digit == (CHOOSE i \in 1..10 : Digits[i] = c) - 1
  IN CASE c \in Range(Digits) ->
            [v EXCEPT !.params = IF TakesDigit(Last(ps)) THEN Append(Front(ps), Last(ps) * 10 + digit) ELSE ps]
       [] c = ";" -> [v EXCEPT !.params = IF Len(ps) < VT_MAX_PARAMS THEN Append(ps, 0) ELSE ps]
       [] c = "?" -> [v EXCEPT !.private = TRUE]
       [] c \in Controls -> vt_control(v, c)
       [] c \in {" ", "utf8"} -> v  \* neither a parameter nor a final byte
       [] OTHER -> vt_csi([v EXCEPT !.state = "normal"], c)
vt_putc(v, c) ==
  CASE v.state = "esc" -> vt_esc(v, c)
    [] v.state = "csi" -> IF c = "esc" THEN [v EXCEPT !.state = "esc"] ELSE vt_csi_byte(v, c)
    [] v.state = "osc" -> [v EXCEPT !.state = IF c = "bel" THEN "normal" ELSE IF c = "esc" THEN "osc_esc" ELSE @]
    [] v.state \in {"osc_esc", "charset"} -> [v EXCEPT !.state = "normal"]
    [] v.state = "normal" /\ c \in Controls -> vt_control(v, c)
    [] v.state = "normal" /\ c = "utf8" -> vt_put_char(v, "?")  \* the first byte of a character; the others print nothing
    [] OTHER -> vt_put_char(v, c)

-----------------------------------------------------------------------------
(* The terminals and the display *)

RowOf(v, y) == [x \in 0..(v.cols - 1) |-> v.cells[y * v.cols + x]]
terminal_flush_row(v, y) == [v EXCEPT !.dirty = @ \ {y}]
CursorOf(v) == <<v.x, v.y, v.visible>>
(* The display after a flush of v, which leaves no row dirty. *)
terminal_flush(v) ==
  [rows |-> [y \in 0..(v.rows - 1) |-> IF y \in v.dirty THEN RowOf(v, y) ELSE painted.rows[y]], cursor |-> CursorOf(v)]
Clean(v) == [v EXCEPT !.dirty = {}]

ScreenInit(cases) ==
  /\ scrCase \in cases
  /\ \E v \in {vt_init(scrCase.cols, scrCase.rows)} :
       /\ vts = [i \in VTerms |-> IF i = 1 THEN Clean(v) ELSE v]
       /\ painted = [rows |-> [y \in 0..(v.rows - 1) |-> RowOf(v, y)], cursor |-> CursorOf(v)]
  /\ active = 1
  /\ refresh = [at |-> "off", row |-> 0, pending |-> FALSE]
  /\ typed = [ok |-> scrCase.text, text |-> <<>>]
ScreenStep(op) == op \in DOMAIN scrCase.left /\ scrCase.left[op] > 0 /\ scrCase' = [scrCase EXCEPT !.left[op] = @ - 1]

Putting(v, buf) == FoldLeft(LAMBDA w, c : IF c = "nl" THEN vt_putc(vt_putc(w, "cr"), "nl") ELSE vt_putc(w, c), v, buf)
terminal_output(i, buf, sync) ==
  /\ \E v \in {[Putting(vts[i], buf) EXCEPT !.response = <<>>]} :
       IF i = active /\ (sync \/ refresh.at = "off")
       THEN vts' = [vts EXCEPT ![i] = Clean(v)] /\ painted' = terminal_flush(v) /\ UNCHANGED refresh
       ELSE vts' = [vts EXCEPT ![i] = v] /\ refresh' = [refresh EXCEPT !.pending = @ \/ i = active] /\ UNCHANGED painted
  /\ typed' = IF i = 1 /\ typed.ok THEN [typed EXCEPT !.text = @ \o buf] ELSE typed
  /\ UNCHANGED active
terminal_write(i, buf) == ScreenStep("write") /\ terminal_output(i, buf, FALSE)
terminal_printf(buf) == ScreenStep("printf") /\ terminal_output(1, buf, TRUE)
terminal_start_refresh ==
  /\ refresh.at = "off" /\ ScreenStep("start") /\ refresh' = [refresh EXCEPT !.at = "idle"]
  /\ UNCHANGED <<vts, active, painted, typed>>
(* The refresher takes the request, then paints row by row, each under the lock. *)
PendingKept(p) == p
terminal_refresh ==
  /\ \/ /\ refresh.at = "idle" /\ refresh.pending
        /\ refresh' = [at |-> "rows", row |-> 0, pending |-> FALSE] /\ UNCHANGED <<vts, painted>>
     \/ /\ refresh.at = "rows" /\ refresh.row < vts[active].rows
        /\ vts' = [vts EXCEPT ![active] = terminal_flush_row(@, refresh.row)]
        /\ painted' = IF refresh.row \in vts[active].dirty THEN [painted EXCEPT !.rows[refresh.row] = RowOf(vts[active], refresh.row)] ELSE painted
        /\ refresh' = [refresh EXCEPT !.row = @ + 1]
     \/ /\ refresh.at = "rows" /\ refresh.row >= vts[active].rows
        /\ painted' = [painted EXCEPT !.cursor = CursorOf(vts[active])]
        /\ refresh' = [at |-> "idle", row |-> 0, pending |-> PendingKept(refresh.pending)] /\ UNCHANGED vts
  /\ UNCHANGED <<active, typed, scrCase>>
Repaint(all, i) == vts' = [all EXCEPT ![i] = Clean(@)] /\ painted' = terminal_flush(vt_mark_dirty(all[i]))
terminal_switch(i) ==
  /\ ScreenStep("switch") /\ UNCHANGED <<refresh, typed>> /\ active' = i
  /\ IF i = active THEN UNCHANGED <<vts, painted>> ELSE Repaint(vts, i)
terminal_update == ScreenStep("update") /\ Repaint(vts, active) /\ UNCHANGED <<active, refresh, typed>>
terminal_attach(cols, rows) ==
  \E all \in {[i \in VTerms |-> vt_resize(vts[i], cols, rows)]} : Repaint(all, active)
terminal_switch_mode(size) ==
  /\ ScreenStep("mode") /\ terminal_attach(size[1], size[2]) /\ UNCHANGED <<active, refresh>>
  /\ typed' = [ok |-> FALSE, text |-> <<>>]

ScreenNext ==
  \/ \E i \in VTerms, buf \in scrCase.bufs : terminal_write(i, buf)
  \/ \E buf \in scrCase.bufs : terminal_printf(buf)
  \/ \E i \in VTerms : terminal_switch(i)
  \/ \E size \in scrCase.sizes : terminal_switch_mode(size)
  \/ terminal_start_refresh \/ terminal_refresh \/ terminal_update

-----------------------------------------------------------------------------
(* Whatever is written and however it is cut into writes, the cursor and the *)
(* saved cursor stay on the grid, no cell outside the grid is written, and   *)
(* parameters stay far from overflow.                                        *)
GridKept ==
  \A i \in VTerms :
    LET v == vts[i]
    IN /\ v.x \in 0..(v.cols - 1) /\ v.y \in 0..(v.rows - 1) /\ v.saved.x \in 0..(v.cols - 1) /\ v.saved.y \in 0..(v.rows - 1)
       /\ DOMAIN v.cells = 0..(v.cols * v.rows - 1) /\ v.dirty \subseteq 0..(v.rows - 1)
       /\ Len(v.params) <= VT_MAX_PARAMS /\ \A p \in Range(v.params) : p < 10 * VtParamLimit

(* The display shows the active terminal but for rows and a cursor that the  *)
(* refresher will still paint, in this pass or in one that is asked for.     *)
DisplayFresh ==
  LET v == vts[active]
      comes(y) == refresh.pending \/ (refresh.at = "rows" /\ refresh.row <= y)
  IN /\ DOMAIN painted.rows = 0..(v.rows - 1)
     /\ \A y \in 0..(v.rows - 1) : (y \in v.dirty \/ painted.rows[y] # RowOf(v, y)) => (y \in v.dirty /\ comes(y))
     /\ painted.cursor # CursorOf(v) => comes(v.rows)

(* The rows that plain text takes on an endless sheet of the terminal's width. *)
Sheet(text, cols) ==
  FoldLeft(LAMBDA rows, c :
             IF c = "nl" THEN Append(rows, <<>>)
             ELSE IF Len(Last(rows)) = cols THEN Append(rows, <<c>>) ELSE Append(Front(rows), Append(Last(rows), c)),
           << <<>> >>, text)
(* Plain text shows as the end of that sheet: a line that fills the width    *)
(* takes one row, and lines scroll out at the top only.                      *)
TextShown ==
  typed.ok =>
    LET v == vts[1]
        sheet == Sheet(typed.text, v.cols)
        gone == IF Len(sheet) > v.rows THEN Len(sheet) - v.rows ELSE 0
        at(x, y) == IF y + gone < Len(sheet) /\ x < Len(sheet[y + gone + 1]) THEN sheet[y + gone + 1][x + 1] ELSE " "
    IN \A x \in 0..(v.cols - 1), y \in 0..(v.rows - 1) : v.cells[y * v.cols + x] = at(x, y)
=============================================================================
