--------------------------- MODULE GraphicsProofs ---------------------------
(***************************************************************************)
(* The display of recovery/graphics.c, for every screen, font and text,    *)
(* and any number of drawing calls.                                        *)
(***************************************************************************)
EXTENDS RecoveryGraphics, SequenceTheorems, TLAPS

Whole(b) == gr_framebuffer[b][1] = gr_framebuffer[b][2]

(* Outside a copy both buffers are whole, and during one the other buffer  *)
(* is.  While the driver carries out every flip, the buffer in front is    *)
(* the one displayed, and a copy goes to the other.                        *)
Fronted ==
    /\ pc \in {"surface", "open", "copy"} => Whole(0) /\ Whole(1)
    /\ pc \in {"copied", "show"} =>
         /\ Whole(1 - gr_active_fb)
         /\ gr_framebuffer[gr_active_fb][1] = drawn
    /\ pc = "show" => gr_framebuffer[gr_active_fb][2] = drawn
    /\ ~SwapFails =>
         /\ pc = "open" => gr_active_fb = displayed
         /\ pc \in {"copy", "copied", "show"} => gr_active_fb = 1 - displayed

(* The console is in graphics mode only while its descriptor is open.      *)
Console ==
    /\ vt = "graphics" => gr_vt_fd
    /\ pc \in {"closed", "framebuffer"} => ~gr_fb_fd
    /\ pc = "closed" => ~gr_vt_fd

IInv == TypeOK /\ Fronted /\ Console /\ TextShowsGlyphs

-----------------------------------------------------------------------------
LEMMA PairUpdate ==
    ASSUME NEW p \in Nat \X Nat, NEW d \in Nat, NEW i \in {1, 2}
    PROVE  /\ [p EXCEPT ![i] = d] \in Nat \X Nat
           /\ [p EXCEPT ![i] = d][i] = d
           /\ [p EXCEPT ![i] = d][3 - i] = p[3 - i]
  <1>1. CASE i = 1
    BY <1>1
  <1>2. CASE i = 2
    BY <1>2
  <1>3. QED BY <1>1, <1>2

(* Copy of one half: the half holds the picture, all else is as before.    *)
LEMMA CopyHalf ==
    ASSUME TypeOK, NEW half \in {1, 2}, Copy(half)
    PROVE  /\ gr_framebuffer' \in [{0, 1} -> Nat \X Nat]
           /\ gr_framebuffer'[gr_active_fb][half] = drawn
           /\ gr_framebuffer'[gr_active_fb][3 - half] = gr_framebuffer[gr_active_fb][3 - half]
           /\ gr_framebuffer'[1 - gr_active_fb] = gr_framebuffer[1 - gr_active_fb]
  <1> DEFINE old == gr_framebuffer[gr_active_fb]
             new == [old EXCEPT ![half] = drawn]
  <1>1. gr_active_fb \in {0, 1} /\ drawn \in Nat /\ old \in Nat \X Nat
    BY DEF TypeOK
  <1>2. new \in Nat \X Nat /\ new[half] = drawn /\ new[3 - half] = old[3 - half]
    BY <1>1, PairUpdate
  <1>3. gr_framebuffer' = [gr_framebuffer EXCEPT ![gr_active_fb] = new]
    BY DEF Copy
  <1>4. gr_framebuffer' \in [{0, 1} -> Nat \X Nat]
    BY <1>1, <1>2, <1>3 DEF TypeOK
  <1>5. gr_framebuffer'[gr_active_fb] = new
    BY <1>1, <1>3 DEF TypeOK
  <1>6. gr_framebuffer'[1 - gr_active_fb] = gr_framebuffer[1 - gr_active_fb]
    BY <1>1, <1>3 DEF TypeOK
  <1>7. QED BY <1>2, <1>4, <1>5, <1>6

-----------------------------------------------------------------------------
(* One lemma per action.                                                   *)

LEMMA InitIInv == ASSUME GraphicsAssumption PROVE Init => IInv
  <1> SUFFICES ASSUME Init PROVE IInv
    OBVIOUS
  <1>1. TypeOK
    BY DEF Init, TypeOK
  <1>2. Fronted
    BY DEF Init, Fronted, Whole
  <1>3. Console /\ TextShowsGlyphs
    BY DEF Init, Console, TextShowsGlyphs
  <1>4. QED BY <1>1, <1>2, <1>3 DEF IInv

LEMMA OpenConsoleIInv == ASSUME IInv, OpenConsole PROVE IInv'
  <1>1. TypeOK'
    BY DEF OpenConsole, files, buffers, surface, IInv, TypeOK
  <1>2. Fronted'
    BY DEF OpenConsole, files, buffers, surface, IInv, TypeOK, Fronted, Whole
  <1>3. Console'
    BY DEF OpenConsole, files, buffers, surface, IInv, TypeOK, Console
  <1>4. TextShowsGlyphs'
    BY DEF OpenConsole, files, buffers, surface, IInv, TextShowsGlyphs
  <1>5. QED BY <1>1, <1>2, <1>3, <1>4 DEF IInv

LEMMA FramebufferIInv == ASSUME IInv, get_framebuffer PROVE IInv'
  <1>1. TypeOK'
    <2>1. gr_framebuffer' \in [{0, 1} -> Nat \X Nat]
      BY DEF get_framebuffer, IInv, TypeOK
    <2>2. QED BY <2>1 DEF get_framebuffer, surface, IInv, TypeOK
  <1>2. Fronted'
    BY DEF get_framebuffer, files, buffers, surface, IInv, TypeOK, Fronted, Whole
  <1>3. Console'
    BY DEF get_framebuffer, files, buffers, surface, IInv, TypeOK, Console
  <1>4. TextShowsGlyphs'
    BY DEF get_framebuffer, files, buffers, surface, IInv, TextShowsGlyphs
  <1>5. QED BY <1>1, <1>2, <1>3, <1>4 DEF IInv

LEMMA InitSurfaceIInv == ASSUME IInv, InitSurface PROVE IInv'
  BY DEF InitSurface, set_active_framebuffer, files, IInv, TypeOK, Fronted, Console,
         TextShowsGlyphs, Whole

LEMMA ExitIInv == ASSUME IInv, Exit \/ InitFails PROVE IInv'
  BY DEF Exit, InitFails, gr_exit, Freed, FreedTwice, buffers, IInv, TypeOK, Fronted,
         Console, TextShowsGlyphs, Whole

LEMMA DrawIInv ==
    ASSUME IInv, NEW tex \in {"off", "font", "picture"}, NEW rs, Draw(tex, rs),
           tex = "font" =>
             \A r \in rs : \E g \in 0..(Glyphs - 1) : r.s + r.x = g * CharWidth
    PROVE  IInv'
  <1>1. TypeOK' /\ Console'
    BY DEF Draw, files, buffers, IInv, TypeOK, Console
  <1>2. Fronted'
    BY DEF Draw, files, buffers, IInv, TypeOK, Fronted, Whole
  <1>3. TextShowsGlyphs'
    BY DEF Draw, TextShowsGlyphs
  <1>4. QED BY <1>1, <1>2, <1>3 DEF IInv

LEMMA GlyphRange ==
    ASSUME NEW g \in Nat, g < Glyphs PROVE g \in 0..(Glyphs - 1)
  BY SMT DEF Glyphs

LEMMA GlyphNat == ASSUME NEW c \in -128..127 PROVE Glyph(c) \in Nat
  <1>1. c - 32 \in Int /\ Wrap \in Nat /\ Wrap > 0
    BY SMT DEF Wrap
  <1>2. (c - 32) % Wrap \in Nat
    BY <1>1, SMT
  <1>3. QED BY <1>2 DEF Glyph

(* The column of the texture at pixel 0 is the glyph's less the position.  *)
LEMMA GlyphColumn ==
    ASSUME NEW g \in Int, NEW w \in Int, NEW at \in Int
    PROVE  (g * w - at) + at = g * w
  <1>1. ASSUME NEW m \in Int PROVE (m - at) + at = m
    OBVIOUS
  <1>2. g * w \in Int
    OBVIOUS
  <1>3. QED BY <1>1, <1>2

LEMMA TextIInv ==
    ASSUME GraphicsAssumption, IInv, NEW x \in 0..Width, NEW text \in Texts,
           gr_text(x, text)
    PROVE  IInv'
  <1> DEFINE At(i) == x + (i - 1) * CharWidth
             shown == {j \in 1..Len(text) : Glyph(text[j]) < Glyphs}
             rs == {Rect(At(i), CharWidth, Glyph(text[i]) * CharWidth - At(i)) : i \in shown}
  <1>1. Draw("font", rs)
    BY DEF gr_text
  <1>2. text \in Seq(-128..127) /\ CharWidth \in Int /\ x \in Int
    BY DEF GraphicsAssumption
  <1>3. ASSUME NEW i \in shown
        PROVE  \E g \in 0..(Glyphs - 1) :
                 (Glyph(text[i]) * CharWidth - At(i)) + At(i) = g * CharWidth
    <2>1. i \in 1..Len(text) /\ Glyph(text[i]) < Glyphs
      OBVIOUS
    <2>2. text[i] \in -128..127
      BY <1>2, <2>1, ElementOfSeq
    <2>3. Glyph(text[i]) \in Nat
      BY <2>2, GlyphNat
    <2>4. Glyph(text[i]) \in 0..(Glyphs - 1)
      BY <2>1, <2>3, GlyphRange
    <2>5. At(i) \in Int
      <3>1. i - 1 \in Int
        BY <2>1, <1>2
      <3>2. (i - 1) * CharWidth \in Int
        BY <3>1, <1>2
      <3>3. QED BY <3>2, <1>2
    <2>6. (Glyph(text[i]) * CharWidth - At(i)) + At(i) = Glyph(text[i]) * CharWidth
      BY <1>2, <2>3, <2>5, GlyphColumn
    <2>7. QED BY <2>4, <2>6
  <1>4. \A r \in rs : \E g \in 0..(Glyphs - 1) : r.s + r.x = g * CharWidth
    <2>1. TAKE r \in rs
    <2>2. PICK i \in shown :
            r = Rect(At(i), CharWidth, Glyph(text[i]) * CharWidth - At(i))
      OBVIOUS
    <2>3. r.s = Glyph(text[i]) * CharWidth - At(i) /\ r.x = At(i)
      BY <2>2 DEF Rect
    <2>4. QED BY <1>3, <2>3
  <1> HIDE DEF rs
  <1>5. QED BY <1>1, <1>4, DrawIInv

LEMMA FillIInv ==
    ASSUME IInv, NEW x \in 0..Width, NEW w \in 1..Width, gr_fill(x, w)
    PROVE  IInv'
  BY DrawIInv DEF gr_fill

LEMMA BlitIInv ==
    ASSUME IInv, NEW sx, NEW w, NEW dx, gr_blit(sx, w, dx)
    PROVE  IInv'
  BY DrawIInv DEF gr_blit

LEMMA FlipStartIInv == ASSUME IInv, FlipStart PROVE IInv'
  BY DEF FlipStart, Swapped, files, surface, IInv, TypeOK, Fronted, Console,
         TextShowsGlyphs, Whole

LEMMA CopyUpperIInv == ASSUME IInv, CopyUpper PROVE IInv'
  <1>1. gr_framebuffer' \in [{0, 1} -> Nat \X Nat]
        /\ gr_framebuffer'[gr_active_fb][1] = drawn
        /\ gr_framebuffer'[1 - gr_active_fb] = gr_framebuffer[1 - gr_active_fb]
    BY CopyHalf DEF CopyUpper, IInv
  <1>2. QED
    BY <1>1 DEF CopyUpper, files, surface, IInv, TypeOK, Fronted, Console,
                TextShowsGlyphs, Whole

LEMMA CopyLowerIInv == ASSUME IInv, CopyLower PROVE IInv'
  <1>1. gr_framebuffer' \in [{0, 1} -> Nat \X Nat]
        /\ gr_framebuffer'[gr_active_fb][2] = drawn
        /\ gr_framebuffer'[gr_active_fb][3 - 2] = gr_framebuffer[gr_active_fb][3 - 2]
        /\ gr_framebuffer'[1 - gr_active_fb] = gr_framebuffer[1 - gr_active_fb]
    BY CopyHalf DEF CopyLower, IInv
  <1>2. gr_framebuffer'[gr_active_fb][1] = gr_framebuffer[gr_active_fb][1]
    BY <1>1
  <1>3. QED
    BY <1>1, <1>2 DEF CopyLower, files, surface, IInv, TypeOK, Fronted, Console,
                      TextShowsGlyphs, Whole

LEMMA FlipEndIInv == ASSUME IInv, FlipEnd PROVE IInv'
  BY DEF FlipEnd, set_active_framebuffer, files, surface, IInv, TypeOK, Fronted,
         Console, TextShowsGlyphs, Whole

LEMMA NextIInv ==
    ASSUME GraphicsAssumption, IInv, [Next]_vars
    PROVE  IInv'
  <1>1. CASE UNCHANGED vars
    BY <1>1 DEF vars, files, buffers, surface, IInv, TypeOK, Fronted, Console,
                TextShowsGlyphs, Whole
  <1>2. CASE Next
    BY <1>2, OpenConsoleIInv, FramebufferIInv, InitSurfaceIInv, ExitIInv, TextIInv,
       FillIInv, BlitIInv, FlipStartIInv, CopyUpperIInv, CopyLowerIInv, FlipEndIInv
       DEF Next
  <1>3. QED BY <1>1, <1>2

(* The buffer on display is whole where NoTearing says so.                 *)
LEMMA FrontWhole == ASSUME IInv PROVE NoTearing
  <1> SUFFICES ASSUME pc \in {"open", "copy", "show"} \/ (~SwapFails /\ pc = "copied")
               PROVE  Whole(displayed)
    BY DEF NoTearing, Whole
  <1>1. gr_active_fb \in {0, 1} /\ displayed \in {0, 1}
    BY DEF IInv, TypeOK
  <1>2. CASE pc \in {"open", "copy"}
    BY <1>1, <1>2 DEF IInv, Fronted
  <1>3. CASE pc = "show"
    <2>1. Whole(gr_active_fb) /\ Whole(1 - gr_active_fb)
      BY <1>3 DEF IInv, Fronted, Whole
    <2>2. displayed = gr_active_fb \/ displayed = 1 - gr_active_fb
      BY <1>1
    <2> QED BY <2>1, <2>2
  <1>4. CASE ~SwapFails /\ pc = "copied"
    <2>1. Whole(1 - gr_active_fb) /\ gr_active_fb = 1 - displayed
      BY <1>4 DEF IInv, Fronted
    <2>2. displayed = 1 - gr_active_fb
      BY <1>1, <2>1
    <2> QED BY <2>1, <2>2
  <1> QED BY <1>2, <1>3, <1>4

LEMMA NextFlipped ==
    ASSUME IInv, [Next]_vars
    PROVE  [Flipped]_vars
  <1>1. CASE UNCHANGED vars
    BY <1>1
  <1>2. SUFFICES ASSUME Next, pc = "show", pc' = "open", displayed' = gr_active_fb
                 PROVE  gr_framebuffer'[displayed'] = <<drawn, drawn>>
    BY <1>1 DEF Flipped
  <1>3. FlipEnd
    BY <1>2 DEF Next, OpenConsole, get_framebuffer, InitSurface, InitFails, Exit, gr_exit,
                FreedTwice, gr_text, gr_fill, gr_blit, Draw, FlipStart, CopyUpper,
                CopyLower
  <1>4. displayed' = gr_active_fb /\ gr_framebuffer' = gr_framebuffer
    BY <1>2, <1>3 DEF FlipEnd
  <1>5. /\ gr_framebuffer[gr_active_fb] \in Nat \X Nat
        /\ gr_framebuffer[gr_active_fb][1] = drawn
        /\ gr_framebuffer[gr_active_fb][2] = drawn
    BY <1>2 DEF IInv, TypeOK, Fronted
  <1>6. gr_framebuffer[gr_active_fb] = <<drawn, drawn>>
    BY <1>5
  <1>7. QED BY <1>4, <1>6

-----------------------------------------------------------------------------
LEMMA Invariance == ASSUME GraphicsAssumption PROVE Spec => []IInv
  <1>1. Init => IInv
    BY InitIInv
  <1>2. IInv /\ [Next]_vars => IInv'
    BY NextIInv
  <1>3. QED BY <1>1, <1>2, PTL DEF Spec

(* No torn picture is displayed, for any number of pictures: never while   *)
(* the driver carries out every flip, and at most in the middle of a copy  *)
(* after a flip that failed.                                               *)
THEOREM NeverTorn == ASSUME GraphicsAssumption PROVE Spec => []NoTearing
  <1>1. IInv => NoTearing
    BY FrontWhole
  <1>2. QED BY <1>1, Invariance, PTL

(* However gr_init fails, and after gr_exit, the console is in text mode   *)
(* and the descriptors are closed, whenever gr_exit returns: a program     *)
(* that ends when it frees the surface twice is left out.                  *)
THEOREM ConsoleRestored ==
    ASSUME GraphicsAssumption PROVE Spec => []ClosedClean
  <1>1. IInv => ClosedClean
    BY DEF IInv, TypeOK, Console, ClosedClean
  <1>2. QED BY <1>1, Invariance, PTL

(* Every character of every text, the negative ones included, shows one    *)
(* glyph of the font or none, for any width of screen and characters.      *)
THEOREM GlyphsOnly ==
    ASSUME GraphicsAssumption PROVE Spec => []TextShowsGlyphs
  <1>1. IInv => TextShowsGlyphs
    BY DEF IInv
  <1>2. QED BY <1>1, Invariance, PTL

(* When gr_flip returns and its buffer is the one on display, the display  *)
(* shows both halves of what was drawn, whichever flips failed before.     *)
THEOREM FlipDisplays == ASSUME GraphicsAssumption PROVE Spec => FlipShows
  <1>1. IInv /\ [Next]_vars => [Flipped]_vars
    BY NextFlipped
  <1>2. Spec => []IInv
    BY Invariance
  <1>3. QED BY <1>1, <1>2, PTL DEF Spec, FlipShows

LEMMA TypeCorrect == ASSUME GraphicsAssumption PROVE Spec => []TypeOK
  <1>1. IInv => TypeOK
    BY DEF IInv
  <1>2. QED BY <1>1, Invariance, PTL
=============================================================================
