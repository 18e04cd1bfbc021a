----------------------------- MODULE FrameBuffer -----------------------------
(***************************************************************************)
(* The picture of a VM: QEMU keeps a copy of its screen in fb_data.ppm,    *)
(* which ffmpeg reads whenever thread_fb gets round to it.  The model      *)
(* keeps, of all pixels, which places of the file do not show what is on   *)
(* the screen there.  An Android screen is turned by 90 degrees.           *)
(***************************************************************************)
EXTENDS Integers

CONSTANTS
  W, H,      \* of real_screen, in pixels
  Rect,      \* the areas the guest draws: <<x, y, w, h>>
  MaxDraw    \* bound on the areas drawn

ASSUME ScreenAssumption ==
  /\ W \in Nat \ {0} /\ H \in Nat \ {0} /\ MaxDraw \in Nat
  /\ Rect \subseteq (0..(W - 1)) \X (0..(H - 1)) \X (1..W) \X (1..H)
  /\ \A r \in Rect : r[1] + r[3] <= W /\ r[2] + r[4] <= H

VARIABLES
  android, bpp,   \* g_androidMode; bytes per pixel
  fb_data,        \* whether the file is mapped, and filled
  stale,          \* places that do not show their pixel
  area,           \* what the main thread is about to copy, or {}
  half, picture,  \* how ffmpeg's first half, and the last picture it sent or lost since
                  \* an area was drawn, show the screen
  \* History.
  draws,          \* areas drawn
  partial         \* an area less wide (Android: less high) than the screen came last

screen  == <<android, bpp, fb_data, stale, area, draws, partial>>
viewers == <<half, picture>>

Place == 0..(W * H - 1)
Screen == <<0, 0, W, H>>
FirstHalf == {p \in Place : 2 * p < W * H}

FbTypeOK ==
  /\ android \in BOOLEAN /\ bpp \in {2, 4}
  /\ fb_data \in {"null", "mapped", "filled"}
  /\ stale \subseteq Place /\ area \in {{}} \cup {{r} : r \in Rect \cup {Screen}}
  /\ half \in {"none", "clean", "wrong"} /\ picture \in {"none", "clean", "wrong", "lost"}
  /\ draws \in 0..MaxDraw /\ partial \in BOOLEAN

\* An Android screen has 16 bits per pixel.
FbInit ==
  /\ android \in BOOLEAN /\ bpp \in {2, 4} /\ (android => bpp = 2)
  /\ fb_data = "null" /\ stale = {} /\ area = {}
  /\ half = "none" /\ picture = "none" /\ draws = 0 /\ partial = FALSE

-----------------------------------------------------------------------------
\* Where the file shows pixel <<x, y>> of the screen.
PlaceOf(c) == IF android THEN H * c[1] + (H - 1 - c[2]) ELSE W * c[2] + c[1]

Pixels(r) == (r[1]..(r[1] + r[3] - 1)) \X (r[2]..(r[2] + r[4] - 1))

\* (mutant) rows and columns are confused
get_pixel_indexSwapped(w, x, y) == w * x + y

get_pixel_index(w, x, y) == w * y + x

\* (mutant) the screen is taken to have 32 bits per pixel
Depth32(w) == 4

\* The bytes per pixel that Update_frameData takes from the width of the area.
Depth(w) == (bpp * W) \div w

\* Where Update_frameData writes pixel c of area r, and whether it writes what
\* the screen shows at that place (of a desktop, the pixel is also read from there);
\* the rows are written one after the other.
Written(r, c) ==
  IF android THEN r[4] * c[1] + (H - 1 - c[2]) ELSE get_pixel_index(r[3], c[1], c[2])

Before(c, d) == c[2] < d[2] \/ (c[2] = d[2] /\ c[1] < d[1])

Good(r, p) ==
  IF android THEN \E c \in Pixels(r) :
                    /\ Written(r, c) = p /\ PlaceOf(c) = p
                    /\ \A d \in Pixels(r) : Before(c, d) => Written(r, d) # p
             ELSE Depth(r[3]) = bpp

\* The places that do not show their pixel after the copy of area r.
Update_frameData(r) ==
  LET all == IF android \/ Depth(r[3]) \in {2, 4}
             THEN {Written(r, c) : c \in Pixels(r)} ELSE {}
      good == {p \in all : Good(r, p)}
  IN  (stale \cup all) \ good

-----------------------------------------------------------------------------
\* The first event: the file is made anew, empty,
mmap_fb ==
  /\ fb_data = "null" /\ fb_data' = "mapped" /\ stale' = Place
  /\ UNCHANGED <<android, bpp, area, draws, partial, viewers>>

\* filled by make_frameData, but for the first pixel of Android, and the whole
\* screen is updated.
make_frameData ==
  /\ fb_data = "mapped" /\ fb_data' = "filled"
  /\ stale' = (IF android THEN {0} ELSE {}) /\ area' = {Screen}
  /\ UNCHANGED <<android, bpp, draws, partial, viewers>>

\* sdl_update: the area is drawn,
Blit(r) ==
  /\ fb_data = "filled" /\ area = {} /\ draws < MaxDraw
  /\ draws' = draws + 1 /\ area' = {r}
  /\ stale' = stale \cup {PlaceOf(c) : c \in Pixels(r)}
  /\ half' = (IF half = "clean" THEN "wrong" ELSE half) /\ picture' = "none"
  /\ UNCHANGED <<android, bpp, fb_data, partial>>

\* and copied to the file.
Whole(r) == IF android THEN r[4] = H ELSE r[3] = W

Copy(r) ==
  /\ area = {r} /\ area' = {}
  /\ stale' = Update_frameData(r)
  /\ partial' = (~Whole(r) \/ (partial /\ r # Screen))
  /\ UNCHANGED <<android, bpp, fb_data, draws, viewers>>

sdl_refresh == mmap_fb \/ make_frameData \/ \E r \in Rect \cup {Screen} : Blit(r) \/ Copy(r)

-----------------------------------------------------------------------------
\* ffmpeg opens the file and reads it, while the main thread goes on.
ReadHalf ==
  /\ half = "none"
  /\ half' = IF fb_data # "null" /\ stale \cap FirstHalf = {} THEN "clean" ELSE "wrong"
  /\ UNCHANGED <<screen, picture>>

\* ffmpeg has read the rest and sends the picture, or fails: no whole file is
\* there, or the web server is not.
SendPicture ==
  /\ half # "none" /\ half' = "none"
  /\ \/ /\ fb_data # "null"
        /\ picture' = IF half = "clean" /\ stale \subseteq FirstHalf THEN "clean" ELSE "wrong"
     \/ picture' = "lost"
  /\ UNCHANGED screen

-----------------------------------------------------------------------------
\* Whatever area is about to be copied, Update_frameData writes inside the file,
\* although it takes the width (or height) of the area for that of the screen.
WritesInFile == \A r \in area : \A c \in Pixels(r) : Written(r, c) \in Place

\* The file shows the screen after every area that was as wide as the screen, or
\* as high on Android, until one that was not has come: of such a one only the
\* widths the depth is guessed right for are copied, and those not to their place.
WholeAreasShown ==
  fb_data = "filled" /\ area = {} /\ ~partial => stale = {}
=============================================================================
