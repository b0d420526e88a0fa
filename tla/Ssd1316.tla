-------------------------------- MODULE Ssd1316 --------------------------------
(***************************************************************************)
(* The SSD1316 display driver on I2C and the panel behind it.  The panel is *)
(* external: it executes commands, and puts data bytes into its memory one  *)
(* after the other, left to right and page by page, in the window set last, *)
(* starting again at the top left corner when the window is full.  A byte   *)
(* is eight rows of one column; a page is a row of bytes.                   *)
(***************************************************************************)
EXTENDS Integers, FiniteSetsExt

CONSTANTS
  Cols, Pages,   \* the panel: width in columns, height in pages of 8 rows
  MaxWidth,      \* widest buffer a caller asks to be written
  MaxOps,        \* bound on the calls that reach the bus
  I2cFaults      \* TRUE: a transfer may fail, before or after it took effect

ASSUME PanelAssumption ==
  /\ {Cols, Pages, MaxWidth} \subseteq Nat \ {0} /\ MaxOps \in Nat
  /\ I2cFaults \in BOOLEAN

VARIABLES
  inversion,   \* devicetree inversion-on
  display,     \* "boot", "ready" (initialised) or "failed"
  pf,          \* data->pf, the pixel format the driver reports
  reversed,    \* the panel shows black on white
  lit,         \* the panel is on
  ram,         \* the panel's memory: for each cell the byte written last
  blit,        \* the last write: what was asked for and what it returned
  ops,         \* calls so far; they number the bytes
  unsure       \* the last change of the format reported an error (history)

panelVars == <<inversion, display, pf, reversed, lit, ram, blit, ops, unsure>>

Formats == {"MONO01", "MONO10"}
Cells == (0 .. Cols - 1) \X (0 .. Pages - 1)

PanelInit ==
  /\ inversion \in BOOLEAN
  /\ display = "boot" /\ pf = "MONO01" /\ reversed = FALSE /\ lit = FALSE
  /\ ram = [c \in Cells |-> 0]
  /\ blit = [x |-> 0, y |-> 0, w |-> 0, h |-> 0, ret |-> "none"]
  /\ ops = 0 /\ unsure = FALSE

Call == ops < MaxOps /\ ops' = ops + 1

(* What a transfer that would change v to new does, and what it returns.     *)
Transfer(v, new) ==
  {<<new, "ok">>} \cup (IF I2cFaults THEN {<<v, "eio">>, <<new, "eio">>} ELSE {})

-----------------------------------------------------------------------------

(* ssd1316_init_device: all settings in one transfer, then the panel is lit. *)
InitDevice ==
  /\ display = "boot"
  /\ pf' = IF inversion THEN "MONO10" ELSE "MONO01"
  /\ \E t \in Transfer(reversed, inversion), u \in Transfer(lit, TRUE) :
       /\ reversed' = t[1]
       /\ lit' = IF t[2] = "ok" THEN u[1] ELSE lit
       /\ display' = IF t[2] = "ok" /\ u[2] = "ok" THEN "ready" ELSE "failed"
  /\ UNCHANGED <<inversion, ram, blit, ops, unsure>>

(* blanking_on and blanking_off: ssd1316_suspend and ssd1316_resume.         *)
Blank(on) ==
  /\ display = "ready" /\ Call
  /\ \E t \in Transfer(lit, ~on) : lit' = t[1]
  /\ UNCHANGED <<inversion, display, pf, reversed, ram, blit, unsure>>

(* Mutated form: the commands for the two formats are swapped.               *)
ReverseSwapped(format) == format = "MONO01"

(* MONO10 is shown by reversing the display.                                 *)
Reverse(format) == format = "MONO10"

(* A format that is reported already is not sent again, another one is       *)
(* recorded once the panel took the command.                                 *)
SetPixelFormat(format) ==
  /\ display = "ready" /\ format # pf /\ Call
  /\ \E t \in Transfer(reversed, Reverse(format)) :
       /\ reversed' = t[1]
       /\ pf' = IF t[2] = "ok" THEN format ELSE pf
       /\ unsure' = (t[2] # "ok")
  /\ UNCHANGED <<inversion, display, lit, ram, blit>>

-----------------------------------------------------------------------------
(* ssd1316_write                                                             *)

(* Mutated form: the end column is one past the last.                        *)
WindowWide(x, y, w, h) ==
  [left |-> x, right |-> Min({x + w, Cols - 1}),
   top |-> y \div 8, bottom |-> Min({(y + h - 1) \div 8, Pages - 1})]

(* The window asked for, cut at the edges of the panel.  segment_offset is   *)
(* never set from devicetree and is 0.                                       *)
Window(x, y, w, h) ==
  [left |-> x, right |-> Min({x + w - 1, Cols - 1}),
   top |-> y \div 8, bottom |-> Min({(y + h - 1) \div 8, Pages - 1})]

InWindow(win, c) == c[1] \in win.left .. win.right /\ c[2] \in win.top .. win.bottom

(* The place of a cell in the window, in the order it is filled.             *)
Place(win, c) == (c[2] - win.top) * (win.right - win.left + 1) + (c[1] - win.left)

(* The panel's memory after n bytes; a byte is named by its number in the    *)
(* buffer and the call.  What exceeds the window lands in it again.          *)
Filled(win, n) ==
  LET area == (win.right - win.left + 1) * (win.bottom - win.top + 1)
      Byte(p) == CHOOSE k \in p .. n - 1 : k % area = p /\ k + area >= n
  IN [c \in Cells |-> IF InWindow(win, c) /\ Place(win, c) < n
                        THEN 1000 * ops' + Byte(Place(win, c)) ELSE ram[c]]

(* The commands that set the window, then the whole buffer, however much of  *)
(* it the window takes.  A transfer that fails may have got part of the way. *)
DisplayWrite(x, y, w, h) ==
  LET size == w * (h \div 8) IN
  /\ display = "ready" /\ Call
  /\ \/ /\ ram' = Filled(Window(x, y, w, h), size)
        /\ blit' = [x |-> x, y |-> y, w |-> w, h |-> h, ret |-> "ok"]
     \/ /\ I2cFaults
        /\ \E n \in 0 .. size : ram' = Filled(Window(x, y, w, h), n)
        /\ blit' = [x |-> x, y |-> y, w |-> w, h |-> h, ret |-> "eio"]
  /\ UNCHANGED <<inversion, display, pf, reversed, lit, unsure>>

(* Callers give rows in multiples of eight and start inside the panel.       *)
PanelNext ==
  \/ InitDevice
  \/ \E on \in BOOLEAN : Blank(on)
  \/ \E format \in Formats : SetPixelFormat(format)
  \/ \E x \in 0 .. Cols - 1, p \in 0 .. Pages - 1, w \in 1 .. MaxWidth, q \in 1 .. Pages :
       DisplayWrite(x, 8 * p, w, 8 * q)

PanelSpec == PanelInit /\ [][PanelNext]_panelVars

-----------------------------------------------------------------------------
(* Properties                                                                *)

PanelTypeOK ==
  /\ inversion \in BOOLEAN /\ display \in {"boot", "ready", "failed"}
  /\ pf \in Formats /\ reversed \in BOOLEAN /\ lit \in BOOLEAN
  /\ ram \in [Cells -> Nat] /\ ops \in 0 .. MaxOps /\ unsure \in BOOLEAN

(* get_capabilities reports the format the panel shows, and a request for it *)
(* may be answered without a transfer (ssd1316.c:149), except after a change *)
(* that reported an error: the panel may have executed it.                   *)
FormatShown == display = "ready" /\ ~unsure => (reversed <=> pf = "MONO10")

Asked(b, c) == /\ c[1] \in b.x .. b.x + b.w - 1
               /\ c[2] \in b.y \div 8 .. (b.y + b.h) \div 8 - 1
Fits(b) == b.x + b.w <= Cols /\ b.y + b.h <= 8 * Pages

(* A write changes nothing outside the rectangle asked for, even when it is  *)
(* cut at the edge and its surplus bytes start the window again; and when it *)
(* returned 0 and lay on the panel, each byte of the buffer is in its place. *)
WriteLands ==
  [][blit' # blit =>
       /\ \A c \in Cells : ~Asked(blit', c) => ram'[c] = ram[c]
       /\ blit'.ret = "ok" /\ Fits(blit') =>
            \A c \in Cells : Asked(blit', c) =>
              ram'[c] = 1000 * ops' + (c[2] - blit'.y \div 8) * blit'.w + c[1] - blit'.x
    ]_panelVars
=============================================================================
