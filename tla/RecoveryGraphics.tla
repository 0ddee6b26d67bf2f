-------------------------- MODULE RecoveryGraphics --------------------------
(***************************************************************************)
(* recovery/graphics.c: the double buffered display of the recovery, from  *)
(* gr_init over drawing and gr_flip to gr_exit, with every system call     *)
(* that may fail.  The recovery draws and flips only between a gr_init     *)
(* that succeeds and gr_exit, one call at a time.                          *)
(*                                                                         *)
(* The picture in memory is the number of drawing calls it shows.  A frame *)
(* buffer has an upper and a lower half, so that a copy into a buffer that *)
(* is displayed shows as a torn picture.                                   *)
(***************************************************************************)
EXTENDS Integers, Sequences

CONSTANTS SwapFails,  \* FBIOPUT_VSCREENINFO may fail
          Texts,      \* strings to draw, as sequences of signed characters
          Width,      \* pixels of the screen: x coordinates are in 0..Width
          CharWidth,  \* font->cwidth
          MaxDraw     \* bound: drawing calls of one behaviour

GraphicsAssumption ==
    /\ SwapFails \in BOOLEAN
    /\ Texts \subseteq Seq(-128..127)
    /\ {Width, CharWidth} \subseteq Nat \ {0} /\ MaxDraw \in Nat

VARIABLES
    pc,            \* where gr_init or gr_flip is; "closed" or "open" between calls,
                   \* "aborted" when the program has ended
    gr_vt_fd,      \* /dev/tty0 is open
    gr_fb_fd,      \* the frame buffer is open
    vt,            \* mode of the console
    gr_active_fb,
    displayed,     \* buffer the display driver shows
    gr_framebuffer, \* the two buffers, each with its two halves
    drawn,         \* the picture in gr_mem_surface
    mem,           \* gr_mem_surface.data: "null", "live" or "dangling"
    texture,       \* texturing of gr_context: "off" or the texture in use
    rects          \* the rectangles of the last drawing call

files == <<gr_vt_fd, gr_fb_fd, vt>>
buffers == <<gr_active_fb, displayed, gr_framebuffer>>
surface == <<drawn, mem, texture, rects>>
vars == <<pc, files, buffers, surface>>

Init ==
    /\ pc = "closed"
    /\ gr_vt_fd = FALSE /\ gr_fb_fd = FALSE /\ vt = "text"
    /\ gr_active_fb = 0 /\ displayed = 0
    /\ gr_framebuffer = [b \in {0, 1} |-> <<0, 0>>]
    /\ drawn = 0 /\ mem = "null" /\ texture = "off" /\ rects = {}

-----------------------------------------------------------------------------
(* gr_init and gr_exit.                                                    *)

(* The surface is freed and its address kept, so that a gr_init that fails *)
(* after an earlier gr_exit frees it again.  That is undefined: either the *)
(* allocator ends the program there, before the console is given back, or  *)
(* gr_exit goes on.                                                        *)
Freed == mem' = IF mem = "live" THEN "dangling" ELSE mem
FreedTwice ==
    /\ mem = "dangling"
    /\ gr_fb_fd' = FALSE
    /\ pc' = "aborted"
    /\ UNCHANGED <<gr_vt_fd, vt, mem>>

(* Mutant: gr_exit leaves the console to close.                            *)
gr_exit_silent ==
    \/ /\ gr_fb_fd' = FALSE
       /\ Freed
       /\ vt' = vt
       /\ gr_vt_fd' = FALSE
       /\ pc' = "closed"
    \/ FreedTwice

(* The descriptors are reset, the surface is not.  Without tty0 the ioctl  *)
(* has no effect.                                                          *)
gr_exit ==
    \/ /\ gr_fb_fd' = FALSE
       /\ Freed
       /\ vt' = IF gr_vt_fd THEN "text" ELSE vt
       /\ gr_vt_fd' = FALSE
       /\ pc' = "closed"
    \/ FreedTwice

(* /dev/tty0 may be absent; if it is there KDSETMODE is expected to work.  *)
OpenConsole ==
    /\ pc = "closed"
    /\ \/ pc' = "framebuffer" /\ UNCHANGED files
       \/ /\ gr_vt_fd' = TRUE /\ vt' = "graphics"
          /\ pc' = "framebuffer" /\ UNCHANGED gr_fb_fd
       \/ /\ gr_vt_fd' = TRUE
          /\ pc' = "failed" /\ UNCHANGED <<gr_fb_fd, vt>>
    /\ UNCHANGED <<buffers, surface>>

(* get_framebuffer: open, two ioctls and mmap may fail; the buffers are    *)
(* cleared.                                                                *)
get_framebuffer ==
    /\ pc = "framebuffer"
    /\ \/ /\ gr_fb_fd' = TRUE
          /\ gr_framebuffer' = [b \in {0, 1} |-> <<0, 0>>]
          /\ pc' = "surface"
       \/ pc' = "failed" /\ UNCHANGED <<gr_fb_fd, gr_framebuffer>>
    /\ UNCHANGED <<gr_vt_fd, vt, gr_active_fb, displayed, surface>>

(* set_active_framebuffer(n): a failure is only printed.                   *)
set_active_framebuffer(n) ==
    displayed' \in {n} \cup (IF SwapFails THEN {displayed} ELSE {})

InitSurface ==
    /\ pc = "surface"
    /\ mem' = "live"
    /\ gr_active_fb' = 0
    /\ set_active_framebuffer(0)
    /\ pc' = "open"
    /\ drawn' = 0 /\ texture' = "off" /\ rects' = {}
    /\ UNCHANGED <<files, gr_framebuffer>>

InitFails ==
    /\ pc = "failed"
    /\ gr_exit
    /\ UNCHANGED <<buffers, drawn, texture, rects>>

Exit ==
    /\ pc = "open"
    /\ gr_exit
    /\ UNCHANGED <<buffers, drawn, texture, rects>>

-----------------------------------------------------------------------------
(* Drawing, into the surface in memory.                                    *)

Glyphs == 96
Wrap == 1073741824  \* 2 ^ 32 in the code, more than TLC's integers hold

(* Mutant: the subtraction does not wrap.                                  *)
GlyphSigned(c) == c - 32

(* off = *s++; off -= 32: a signed character in an unsigned variable.      *)
Glyph(c) == (c - 32) % Wrap

(* A rectangle at x and the column of its texture shown at pixel 0.        *)
Rect(x, w, s) == [x |-> x, w |-> w, s |-> s]

Draw(tex, rs) ==
    /\ pc = "open" /\ drawn < MaxDraw
    /\ texture' = tex /\ rects' = rs
    /\ drawn' = drawn + 1
    /\ UNCHANGED <<pc, files, buffers, mem>>

(* gr_text: bold is ignored; a character without a glyph leaves a gap.     *)
gr_text(x, text) ==
    LET At(i) == x + (i - 1) * CharWidth
    IN Draw("font",
            {Rect(At(i), CharWidth, Glyph(text[i]) * CharWidth - At(i)) :
               i \in {j \in 1..Len(text) : Glyph(text[j]) < Glyphs}})

gr_fill(x, w) == Draw("off", {Rect(x, w, 0)})

(* gr_blit of w columns of a picture from column sx to dx.                 *)
gr_blit(sx, w, dx) == Draw("picture", {Rect(dx, w, sx - dx)})

-----------------------------------------------------------------------------
(* gr_flip.                                                                *)

(* Mutant: the picture goes to the buffer in front.                        *)
SwappedLate == gr_active_fb

Swapped == 1 - gr_active_fb

FlipStart ==
    /\ pc = "open"
    /\ gr_active_fb' = Swapped
    /\ pc' = "copy"
    /\ UNCHANGED <<files, displayed, gr_framebuffer, surface>>

(* Mutant: the copy goes to the other buffer.                              *)
CopyOther(half) ==
    gr_framebuffer' = [gr_framebuffer EXCEPT ![displayed][half] = drawn]

(* memcpy of one half.                                                     *)
Copy(half) ==
    gr_framebuffer' = [gr_framebuffer EXCEPT ![gr_active_fb][half] = drawn]

CopyUpper ==
    /\ pc = "copy" /\ Copy(1) /\ pc' = "copied"
    /\ UNCHANGED <<files, gr_active_fb, displayed, surface>>

CopyLower ==
    /\ pc = "copied" /\ Copy(2) /\ pc' = "show"
    /\ UNCHANGED <<files, gr_active_fb, displayed, surface>>

FlipEnd ==
    /\ pc = "show"
    /\ set_active_framebuffer(gr_active_fb)
    /\ pc' = "open"
    /\ UNCHANGED <<files, gr_active_fb, gr_framebuffer, surface>>

-----------------------------------------------------------------------------
Next ==
    \/ OpenConsole \/ get_framebuffer \/ InitSurface \/ InitFails \/ Exit
    \/ \E x \in 0..Width, t \in Texts : gr_text(x, t)
    \/ \E x \in 0..Width, w \in 1..Width : gr_fill(x, w)
    \/ \E sx, dx \in 0..Width, w \in 1..Width : gr_blit(sx, w, dx)
    \/ FlipStart \/ CopyUpper \/ CopyLower \/ FlipEnd

Spec == Init /\ [][Next]_vars

-----------------------------------------------------------------------------
(* Properties.                                                             *)

TypeOK ==
    /\ pc \in {"closed", "framebuffer", "surface", "failed", "open", "copy", "copied",
               "show", "aborted"}
    /\ {gr_vt_fd, gr_fb_fd} \subseteq BOOLEAN
    /\ vt \in {"text", "graphics"}
    /\ {gr_active_fb, displayed} \subseteq {0, 1}
    /\ gr_framebuffer \in [{0, 1} -> Nat \X Nat]
    /\ drawn \in Nat
    /\ mem \in {"null", "live", "dangling"}
    /\ texture \in {"off", "font", "picture"}

(* "start with 0 as front (displayed) and 1 as back (drawing)" (gr_init),  *)
(* "swap front and back buffers" (gr_flip): no torn picture is shown.      *)
(* While the driver carries out every flip, the copy of a picture never    *)
(* goes to the buffer on display.  When flips fail, gr_active_fb may name  *)
(* the wrong buffer: then the picture on display is torn in the middle of  *)
(* a copy, and whole before and after it.                                  *)
NoTearing ==
    \/ pc \in {"open", "copy", "show"}
    \/ ~SwapFails /\ pc = "copied"
    => gr_framebuffer[displayed][1] = gr_framebuffer[displayed][2]

(* However gr_init fails, and after gr_exit, the console is back in text   *)
(* mode and both descriptors are closed, ready for the next gr_init,       *)
(* whenever gr_exit returns.  Nothing is claimed of a program that ends at *)
(* the second free of the surface, in a gr_init that fails after an        *)
(* earlier gr_exit.                                                        *)
ClosedClean == pc = "closed" => ~gr_vt_fd /\ ~gr_fb_fd /\ vt = "text"

(* Each character of a text shows the columns of one glyph of the font     *)
(* texture, for any character of a C string, negative ones included.       *)
TextShowsGlyphs ==
    texture = "font" =>
      \A r \in rects : \E g \in 0..(Glyphs - 1) : r.s + r.x = g * CharWidth

(* When gr_flip returns and the buffer it filled is the one on display,    *)
(* which it is if the driver carries out the flip, the display shows what  *)
(* was drawn before it, whichever flips failed earlier.                    *)
Flipped ==
    pc = "show" /\ pc' = "open" /\ displayed' = gr_active_fb
      => gr_framebuffer'[displayed'] = <<drawn, drawn>>
FlipShows == [][Flipped]_vars
=============================================================================
