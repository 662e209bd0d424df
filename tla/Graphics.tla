------------------------------ MODULE Graphics ------------------------------
(***************************************************************************)
(* Drawing: src/app/graphics (displayio.c, font.c), the memory layout of   *)
(* driver/ssd1675b.c, and the pages of src/app/view.                       *)
(*                                                                         *)
(* A drawing function is the set of the pixels it sets, <<x, y>>; a text   *)
(* is the sequence of the cells its characters are put into, and a page    *)
(* the sequence of the cells of its items.  Colours are left out, and so   *)
(* is what the icons and glyphs look like.                                 *)
(***************************************************************************)
EXTENDS Text

CONSTANTS
  Reach,        \* bound: how far apart the ends of a line are
  Radii,        \* radii of circles and of rounded corners
  Glyphs,       \* code points of the texts that are drawn
  MaxText,      \* bound: their length
  Places,       \* where a text begins
  Lines,        \* lines of images, in bytes
  MaxLines      \* bound: lines of an image

ASSUME GraphicsAssumption ==
  /\ {Reach, MaxText, MaxLines} \subseteq Nat
  /\ Radii \subseteq Nat \ {0} /\ Glyphs \subseteq Nat
  /\ Places \subseteq Nat \X Nat

SCREEN_WIDTH == 250
SCREEN_HEIGHT == 122
EPD_HEIGHT == 250
EPD_RAM_WIDTH == 16

\* EPDDrawHorizontal and EPDDrawVertical: the bit of the display RAM that is set.
EPDDrawHorizontal(x, y) ==
  [byte |-> (EPD_HEIGHT - 1) * 16 + (y \div 8) - x * 16, bit |-> 7 - (y % 8)]
EPDDrawVertical(x, y) == [byte |-> y * 16 + (x \div 8), bit |-> 7 - (x % 8)]

InRAM(cell) == cell.byte \in 0..EPD_RAM_WIDTH * EPD_HEIGHT - 1 /\ cell.bit \in 0..7

-----------------------------------------------------------------------------
(***************************************************************************)
(* displayio.c: shapes.                                                    *)
(***************************************************************************)

Abs(n) == IF n < 0 THEN -n ELSE n
Sgn(n) == IF n > 0 THEN 1 ELSE -1
Low(a, b) == IF a < b THEN a ELSE b
High(a, b) == IF a < b THEN b ELSE a

GuiFillColor(x1, y1, x2, y2) == (x1..x2) \X (y1..y2)

\* Seeded bug: the error is not started from the middle.
GuiDrawLineMutant(x1, y1, x2, y2) ==
  LET dx == Abs(x2 - x1)
      dy == Abs(y2 - y1)
      major == High(dx, dy)
      walk[n \in 0..major] ==
        IF n = 0 THEN [x |-> x1, y |-> y1, e |-> major]
        ELSE LET p == walk[n - 1]
                 over == p.e + Low(dx, dy) >= major
             IN  [x |-> IF dx >= dy \/ over THEN p.x + Sgn(x2 - x1) ELSE p.x,
                  y |-> IF dx < dy \/ over THEN p.y + Sgn(y2 - y1) ELSE p.y,
                  e |-> p.e + Low(dx, dy) - (IF over THEN major ELSE 0)]
  IN  [n \in 0..major |-> <<walk[n].x, walk[n].y>>]

\* GuiDrawLine: one pixel for each step along the longer side.
GuiDrawLine(x1, y1, x2, y2) ==
  LET dx == Abs(x2 - x1)
      dy == Abs(y2 - y1)
      major == High(dx, dy)
      walk[n \in 0..major] ==
        IF n = 0 THEN [x |-> x1, y |-> y1, e |-> major \div 2]
        ELSE LET p == walk[n - 1]
                 over == p.e + Low(dx, dy) >= major
             IN  [x |-> IF dx >= dy \/ over THEN p.x + Sgn(x2 - x1) ELSE p.x,
                  y |-> IF dx < dy \/ over THEN p.y + Sgn(y2 - y1) ELSE p.y,
                  e |-> p.e + Low(dx, dy) - (IF over THEN major ELSE 0)]
  IN  [n \in 0..major |-> <<walk[n].x, walk[n].y>>]

\* GuiDrawDashLine along one side: two pixels, then six left out.
GuiDrawDashLine(from, to) ==
  UNION {{n, n + 1} : n \in {k \in from..to - 1 : (k - from) % 8 = 0}}

GuiDrawRect(x1, y1, x2, y2) ==
  LET l == Low(x1, x2) r == High(x1, x2) t == Low(y1, y2) b == High(y1, y2)
  IN  GuiFillColor(l, t, r, t) \cup GuiFillColor(l, b, r, b)
        \cup GuiFillColor(l, t, l, b) \cup GuiFillColor(r, t, r, b)

\* The steps of GuiDrawArc and GuiDrawCircle, on an eighth of a circle around 0.
Eighth(r) ==
  LET step[n \in 0..r + 1] ==
        IF n = 0 THEN [x |-> r, y |-> 0, e |-> 0, xd |-> 1 - 2 * r, yd |-> 0]
        ELSE LET s == step[n - 1]
                 e == s.e + s.yd
                 inward == 2 * e + s.xd > 0
             IN  [x |-> IF inward THEN s.x - 1 ELSE s.x, y |-> s.y + 1,
                  e |-> IF inward THEN e + s.xd ELSE e,
                  xd |-> IF inward THEN s.xd + 2 ELSE s.xd, yd |-> s.yd + 2]
  IN  {<<step[n].x, step[n].y>> : n \in {k \in 0..r + 1 : step[k].x >= step[k].y}}

\* The bit of an eighth in the mask of GuiDrawArc, and where it is.
Octant(bit, x, y) ==
  CASE bit = 0 -> <<x, -y>>  [] bit = 1 -> <<y, -x>>
    [] bit = 2 -> <<-y, -x>> [] bit = 3 -> <<-x, -y>>
    [] bit = 4 -> <<-x, y>>  [] bit = 5 -> <<-y, x>>
    [] bit = 6 -> <<y, x>>   [] OTHER -> <<x, y>>

GuiDrawArc(x0, y0, r, bits) ==
  IF x0 < 0 \/ y0 < 0 \/ r <= 0 THEN {}
  ELSE {<<x0 + Octant(b, p[1], p[2])[1], y0 + Octant(b, p[1], p[2])[2]>> :
          b \in bits, p \in Eighth(r)}

GuiDrawCircle(x0, y0, r) == GuiDrawArc(x0, y0, r, 0..7)

\* The steps of GuiFillCircle and GuiFillRoundRect.
FillSteps(r) ==
  LET step[n \in 0..r + 1] ==
        IF n = 0 THEN [x |-> 0, y |-> r, xd |-> 3 - 2 * r]
        ELSE LET s == step[n - 1]
             IN  IF s.xd < 0 THEN [x |-> s.x + 1, y |-> s.y, xd |-> s.xd + 4 * s.x + 6]
                 ELSE [x |-> s.x + 1, y |-> s.y - 1, xd |-> s.xd + 4 * (s.x - s.y) + 10]
  IN  {<<step[n].x, step[n].y>> : n \in {k \in 0..r + 1 : step[k].x <= step[k].y}}

GuiFillCircle(x0, y0, r) ==
  IF x0 < 0 \/ y0 < 0 \/ r <= 0 THEN {}
  ELSE UNION {
         (IF p[2] > 0 THEN GuiFillColor(x0 - p[1], y0 - p[2], x0 - p[1], y0 + p[2])
                             \cup GuiFillColor(x0 + p[1], y0 - p[2], x0 + p[1], y0 + p[2]) ELSE {})
         \cup
         (IF p[1] > 0 THEN GuiFillColor(x0 - p[2], y0 - p[1], x0 - p[2], y0 + p[1])
                             \cup GuiFillColor(x0 + p[2], y0 - p[1], x0 + p[2], y0 + p[1]) ELSE {})
         : p \in FillSteps(r)}
       \cup GuiDrawCircle(x0, y0, r)

\* GuiDrawRoundRect, its corners sorted.
GuiDrawRoundRect(x1, y1, x2, y2, r) ==
  IF r > x2 \/ r > y2 THEN {}
  ELSE GuiFillColor(x1 + r, y1, x2 - r, y1) \cup GuiFillColor(x1 + r, y2, x2 - r, y2)
         \cup GuiFillColor(x1, y1 + r, x1, y2 - r) \cup GuiFillColor(x2, y1 + r, x2, y2 - r)
         \cup GuiDrawArc(x1 + r, y1 + r, r, {2, 3}) \cup GuiDrawArc(x2 - r, y1 + r, r, {0, 1})
         \cup GuiDrawArc(x1 + r, y2 - r, r, {4, 5}) \cup GuiDrawArc(x2 - r, y2 - r, r, {6, 7})

\* GuiFillRoundRect, its corners sorted.
GuiFillRoundRect(x1, y1, x2, y2, r) ==
  LET Column(x, d) == GuiFillColor(x, y1 + r - d, x, y2 - r + d)
  IN  IF r <= 0 THEN {}
      ELSE GuiFillColor(x1 + r, y1, x2 - r, y2) \cup
             UNION {(IF p[2] > 0 THEN Column(x2 - r + p[1], p[2]) \cup Column(x1 + r - p[1], p[2]) ELSE {})
                    \cup
                    (IF p[1] > 0 THEN Column(x1 + r - p[2], p[1]) \cup Column(x2 - r + p[2], p[1]) ELSE {})
                    : p \in FillSteps(r)}

GuiDrawMesh(x1, y1, x2, y2, grid) ==
  {<<x, y>> \in (Low(x1, x2)..High(x1, x2)) \X (Low(y1, y2)..High(y1, y2)) :
     (x - Low(x1, x2)) % grid = 0 /\ (y - Low(y1, y2)) % grid = 0}

-----------------------------------------------------------------------------
(***************************************************************************)
(* font.c and displayio.c: texts.                                          *)
(***************************************************************************)

FONTBITMAP_BUFFER_SIZE == 72

\* loadFont.
FONT12x12_CN == [startChar |-> 41377, endChar |-> 65278, width |-> 12,
                 height |-> 12, lineBytes |-> 2, fontBytes |-> 24, vspacing |-> 0]
FONT16x16_CN == [FONT12x12_CN EXCEPT !.width = 16, !.height = 16, !.fontBytes = 32]
FONT08x16_EN == [startChar |-> 32, endChar |-> 126, width |-> 8,
                 height |-> 16, lineBytes |-> 1, fontBytes |-> 16, vspacing |-> 0]
FONT06x12_EN == [FONT08x16_EN EXCEPT !.width = 6, !.height = 12, !.fontBytes = 12]
FONT08x16_EXT == [FONT08x16_EN EXCEPT !.startChar = 0, !.endChar = 64]
Fonts == {FONT12x12_CN, FONT16x16_CN, FONT08x16_EN, FONT06x12_EN, FONT08x16_EXT}

\* calcOffset12CN and calcOffset16CN: where the glyph of a GB2312 code begins.
calcOffsetCN(font, row, cell) ==
  CASE row \in 161..169 /\ cell >= 161 -> ((row - 161) * 94 + cell - 161) * font.fontBytes
    [] row \in 176..247 /\ cell >= 161 -> ((row - 176) * 94 + cell - 161 + 846) * font.fontBytes
    [] OTHER -> 0

\* The pixels an item of a page or a character of a text sets.
Cell(x, y, width, height) == [x |-> x, y |-> y, width |-> width, height |-> height]

\* What GuiDrawChar sets: the columns after x, which is left as it is.
GuiDrawChar(x, y, width, height) == Cell(x + 1, y, width, height)

\* The loop both functions share.  Code tells of the rest of the string how many
\* bytes the next character takes and what it is; a width is that of the Chinese
\* font for all but "narrow" and "newline".
DrawText(Code(_), str, xStart, yStart, font, engFont) ==
  LET NewLine(s) == [s EXCEPT !.x = xStart, !.y = @ + font.height + font.vspacing]
      Check(s) == [s EXCEPT !.full = s.y > SCREEN_HEIGHT - font.height]
      Put(s, width) ==
        [s EXCEPT !.x = @ + width, !.cells = Append(@, GuiDrawChar(s.x, s.y, width, font.height))]
      Draw(s) ==
        LET code == Code(From(str, s.offset))
            width == IF code.kind \in {"narrow", "newline"} THEN engFont.width ELSE font.width
            next == [s EXCEPT !.offset = @ + code.length]
            line == IF s.x > SCREEN_WIDTH - width THEN Check(NewLine(next)) ELSE next
        IN  CASE line.full -> line
              [] ~line.full /\ code.kind = "error" -> [line EXCEPT !.full = TRUE]
              [] ~line.full /\ code.kind = "newline" -> Check(NewLine(line))
              [] ~line.full /\ code.kind = "none" -> line
              [] OTHER -> Put(line, width)
      round[n \in 0..Len(str)] ==
        IF n = 0
        THEN [x |-> xStart, y |-> yStart, offset |-> 0, full |-> FALSE, cells |-> <<>>]
        ELSE LET s == round[n - 1]
             IN  IF s.full \/ At(str, s.offset) = NUL THEN s ELSE Draw(s)
  IN  round[Len(str)]

\* GuiDrawString: a byte of ASCII, or two of GB2312.  '\n' is none of ASCII's here.
GuiDrawString(str, xStart, yStart, font, engFont) ==
  LET Code(rest) == IF rest[1] \in 32..126 THEN [length |-> 1, kind |-> "narrow"]
                    ELSE [length |-> 2, kind |-> "wide"]
  IN  DrawText(Code, str, xStart, yStart, font, engFont)

\* GuiDrawStringUTF8: a code that needs two units of UTF-16 is left out.
GuiDrawStringUTF8(str, xStart, yStart, font, engFont) ==
  LET Code(rest) ==
        LET u == UTF8ToUnicode(rest)
        IN  [length |-> u.length,
             kind |-> CASE u.length = 0 -> "error"
                        [] u.length = 1 -> IF u.unicode = LF THEN "newline" ELSE "narrow"
                        [] OTHER -> IF Len(UnicodeToUTF16(u.unicode)) = 1 THEN "wide" ELSE "none"]
  IN  DrawText(Code, str, xStart, yStart, font, engFont)

-----------------------------------------------------------------------------
(***************************************************************************)
(* displayio.c: images.                                                    *)
(***************************************************************************)

BITMAP_DIB == 19778
MONOCHROME == 1
BI_RGB == 0

\* GuiCheckBMPFormat of what the header says.
GuiCheckBMPFormat(bmp) ==
  CASE bmp.type # BITMAP_DIB \/ bmp.bitCount # MONOCHROME \/ bmp.compression # BI_RGB -> 1
    [] bmp.width > SCREEN_WIDTH \/ bmp.height > SCREEN_HEIGHT -> 2
    [] OTHER -> 0

IMAGE_ALIGN == {"START", "CENTER", "END"}

\* Where the gallery (gallery_layout.c) and displayImageHandler put an image.
Align(align, screen, image) ==
  CASE align = "START" -> 0
    [] align = "CENTER" -> (screen \div 2) - (image \div 2)
    [] OTHER -> screen - image

\* The bytes of a line in the file.
LineBytes(width) ==
  LET words == width \div 32
  IN  4 * (IF words * 32 < width THEN words + 1 ELSE words)

\* GuiDrawBmpImageImpl: the bit of the file, counted from dataOffset, that each pixel
\* shows; the lines of the file go upwards.
GuiDrawBmpImageImpl(bmp, xStart, yStart) ==
  IF \/ GuiCheckBMPFormat(bmp) # 0
     \/ xStart + bmp.width > SCREEN_WIDTH \/ yStart + bmp.height > SCREEN_HEIGHT
  THEN <<>>
  ELSE [p \in (xStart..xStart + bmp.width - 1) \X (yStart..yStart + bmp.height - 1) |->
          [byte |-> LineBytes(bmp.width) * (bmp.height - 1 - (p[2] - yStart)) + ((p[1] - xStart) \div 8),
           bit |-> 7 - ((p[1] - xStart) % 8)]]

PACKED_DATA_OFFSET == 10

\* One round of GuiDrawImagePacked.  A count of 0 is followed by two bytes of which
\* the lower one is kept, "count" being a byte.
Unpack(data, cursor) ==
  LET value == At(data, cursor)
      count == At(data, cursor + 1)
      Run(n) == [i \in 1..n |-> value]
  IN  CASE value \notin {0, 255} -> [bytes |-> <<value>>, next |-> cursor + 1]
        [] value \in {0, 255} /\ count # 0 -> [bytes |-> Run(count), next |-> cursor + 2]
        [] OTHER -> [bytes |-> Run(At(data, cursor + 2)), next |-> cursor + 4]

\* GuiDrawImagePacked of the bytes behind the header: the lines it draws.  fileSize
\* is made smaller by the header, and compared with a cursor that begins behind it.
GuiDrawImagePacked(data, width) ==
  LET fileWidth == (width + 7) \div 8
      round[n \in 0..Len(data)] ==
        IF n = 0 THEN [cursor |-> 0, bytes |-> <<>>]
        ELSE LET s == round[n - 1]
             IN  IF s.cursor + PACKED_DATA_OFFSET >= Len(data) THEN s
                 ELSE [cursor |-> Unpack(data, s.cursor).next,
                       bytes |-> s.bytes \o Unpack(data, s.cursor).bytes]
      bytes == round[Len(data)].bytes
  IN  [i \in 1..Len(bytes) \div fileWidth |-> Part(bytes, (i - 1) * fileWidth, i * fileWidth)]

\* The images of appimage.c: runs of black and white bytes, the rest as they are.
Pack(lines) ==
  LET bytes == FlattenSeq(lines)
      data[n \in 0..Len(bytes)] ==
        IF n = 0 THEN <<>>
        ELSE LET b == bytes[n]
                 before == data[n - 1]
                 continues == n > 1 /\ bytes[n - 1] = b
             IN  IF b \notin {0, 255} THEN Append(before, b)
                 ELSE IF continues THEN Front(before) \o <<Last(before) + 1>>
                 ELSE before \o <<b, 1>>
  IN  data[Len(bytes)]

-----------------------------------------------------------------------------
(***************************************************************************)
(* src/app/view: a page is the sequence of its items, texts and images.  A *)
(* text of n wide characters is that many times one of them.  An item      *)
(* stands at x, or that far behind the end of the item "after" places      *)
(* before it.                                                              *)
(***************************************************************************)

Repeat(bytes, n) == FlattenSeq([i \in 1..n |-> bytes])
Wide(n) == Repeat(<<228, 184, 173>>, n)
Narrow(n) == Repeat(<<48>>, n)

Written(face, str, x, y) == [face |-> face, str |-> str, x |-> x, y |-> y, size |-> <<0, 0>>, after |-> 0]
Image(x, y, width, height) == [Written("image", <<>>, x, y) EXCEPT !.size = <<width, height>>]
Behind(n, item) == [item EXCEPT !.after = n]

\* Images that are files: the weather icons (basic_layout.c:39), and the others as
\* large as the room the pages leave them.
Icon(x, y) == Image(x, y, 48, 48)
Small(x, y) == Image(x, y, 12, 12)
Mark(x, y) == Image(x, y, 16, 16)
Digits(xs, y) == [i \in DOMAIN xs |-> Image(xs[i], y, 37, 68)]

\* Where the items of a page go, and the end of each.
Placed(page) ==
  LET Drawn(it, x) ==
        CASE it.face = "image" ->
               [cells |-> <<Cell(x, it.y, it.size[1], it.size[2])>>, x |-> x + it.size[1]]
          [] it.face = "small" -> GuiDrawString(it.str, x, it.y, FONT12x12_CN, FONT06x12_EN)
          [] OTHER ->
               GuiDrawStringUTF8(it.str, x, it.y,
                 IF it.face = "16" THEN [FONT16x16_CN EXCEPT !.vspacing = 3] ELSE FONT12x12_CN,
                 IF it.face = "advice" THEN FONT06x12_EN ELSE FONT08x16_EN)
      placed[n \in 1..Len(page)] ==
        LET it == page[n]
        IN  Drawn(it, IF it.after = 0 THEN it.x ELSE placed[n - it.after].x + it.x)
  IN  [n \in 1..Len(page) |-> placed[n].cells]

\* "25'C/60%RH"
Indoor(x, y) == Written("small", Narrow(10), x, y)

\* 100%, 80% or 0%
BatteryText(level) == Narrow(IF level > 90 THEN 4 ELSE IF level > 0 THEN 3 ELSE 2)
Battery(level, x, y) == <<Small(x, y), Behind(1, Written("small", BatteryText(level), 0, y))>>

\* The level of the signal, or a cross and the icon of the sleep mode.
Signal(online, levelX, crossX, iconX) ==
  IF online THEN <<Image(levelX, 108, 8, 14)>>
  ELSE <<Image(crossX, 110, 6, 12), Small(iconX, 110)>>

\* The battery and behind it the antenna, in the last line of two pages.
Status(c, x) ==
  LET antenna == x + 12 + 6 * Len(BatteryText(c.level))
  IN  Battery(c.level, x, 110) \o <<Image(antenna, 108, 8, 14)>> \o
      Signal(c.online, 223, antenna + 8, antenna + 16)

\* The city, the date and the indoor climate, at the top of two pages.
Header(c) ==
  <<Written("12", Wide(2), 0, 0), Behind(1, Written("12", c.date, 4, 0)),
    Behind(1, Small(0, 0)), Behind(1, Indoor(0, 0))>>

\* The lunar date, the time and the status, at the bottom of the same pages.  The
\* minutes begin inside the colon, which is a wide one.
Footer(c) ==
  <<Written("12", c.lunar, 0, 110), Behind(1, Written("12", Narrow(2) \o Wide(1), 4, 110)),
    Behind(1, Written("12", Narrow(2), -4, 110))>> \o Status(c, 176)

\* A temperature with its degree sign.
Degrees(c) == Narrow(c.degrees) \o Wide(1)

\* invalidateBasic.
Basic(c) ==
  << Icon(0, 0),
     Written("12", Wide(c.city), IF c.city <= 2 THEN 60 ELSE 48, 0),
     Mark(50, 16), Written("small", Narrow(3), 67, 18),
     Mark(50, 34), Written("12", Wide(2), 67, 36),
     Written("12", Wide(c.weather), 0, 50),
     Written("12", Wide(2), 0, 66), Behind(1, Written("12", Degrees(c), 2, 66)),
     Behind(1, Written("12", Degrees(c), 0, 66)),
     Written("12", Wide(c.wind), 0, 82),
     Written("12", c.tomorrow, 0, 97), Written("12", c.tomorrow, 0, 110),
     Written("12", c.date, 98, 0), Written("12", c.lunar, 98, 13) >> \o
  Digits(<<98, 135, 176, 213>>, 26) \o
  << Image(172, 45, 4, 7), Image(172, 71, 4, 7),
     Small(173, 97), Indoor(185, 98), Image(215, 108, 8, 14) >> \o
  Battery(c.level, 173, 110) \o Signal(c.online, 223, 223, 232)

\* Seeded bug: the temperatures of a day are drawn in the line of the wind.
TileMutant(c, x, y) ==
  << Icon(x, y), Written("12", Wide(3), x + 48, y), Written("12", Wide(c.weather), x + 48, y + 12),
     Written("12", Wide(5), x + 48, y + 24), Written("12", Degrees(c) \o Degrees(c), x + 48, y + 24) >>

\* One of the four days of invalidateForecast.
Tile(c, x, y) ==
  << Icon(x, y), Written("12", Wide(3), x + 48, y), Written("12", Wide(c.weather), x + 48, y + 12),
     Written("12", Wide(5), x + 48, y + 24), Written("12", Degrees(c) \o Degrees(c), x + 48, y + 36) >>

\* invalidateForecast.
Forecast(c) ==
  Header(c) \o Tile(c, 0, 13) \o Tile(c, 125, 13) \o Tile(c, 0, 62) \o Tile(c, 125, 62) \o Footer(c)

\* invalidateNoteView: the note, or the advice to write one.
Note(c) ==
  Header(c) \o
  (IF c.note # <<>> THEN <<Written("16", c.note, 0, 15)>>
   ELSE <<Written("16", Wide(10), 40, 23), Written("16", Wide(25) \o Narrow(5), 0, 48)>>)
  \o Footer(c)

\* invalidateGalleryView without an image.
Gallery(c) == <<Written("16", Wide(10), 40, 16), Written("16", Wide(25) \o Narrow(5), 0, 42)>>

\* invalidateNoInternet.
NoInternet(c) ==
  << Written("12", Narrow(4) \o Wide(1) \o Narrow(2) \o Wide(1) \o Narrow(2) \o Wide(1), 70, 0) >> \o
  Digits(<<40, 77, 138, 175>>, 14) \o
  << Image(122, 35, 9, 9), Image(122, 55, 9, 9), Image(20, 82, 8, 14),
     Written("advice", Wide(13) \o Repeat(<<46>>, 3), 30, 84),
     Behind(1, Image(2, 82, 8, 14)), Behind(1, Image(0, 82, 8, 14)),
     Small(20, 110), Indoor(32, 110) >> \o
  LET antenna == 152 + 12 + 6 * Len(BatteryText(c.level))
  IN  Battery(c.level, 152, 110) \o <<Image(antenna, 108, 8, 14)>>
      \o Signal(c.online, antenna + 8, antenna + 8, antenna + 16)

Page(name, c) ==
  CASE name = "basic" -> Basic(c) [] name = "forecast" -> Forecast(c) [] name = "note" -> Note(c)
    [] name = "gallery" -> Gallery(c) [] OTHER -> NoInternet(c)

\* getWeatherIcon: the icon of a weather id.
icon == <<"sunny", "cloud", "yin", "rain", "rain2sun", "thunder", "snow", "fog", "wind",
          "hail", "unknown">>
pairs == (0 :> 0) @@ (1 :> 1) @@ (2 :> 2) @@ (3 :> 4) @@ (4 :> 5) @@ (6 :> 3) @@ (7 :> 3)
  @@ (8 :> 3) @@ (9 :> 3) @@ (10 :> 3) @@ (14 :> 6) @@ (15 :> 6) @@ (99 :> 6) @@ (19 :> 9)
  @@ (32 :> 9) @@ (20 :> 7) @@ (30 :> 8)
getWeatherIcon(weatherId) == icon[(IF weatherId \in DOMAIN pairs THEN pairs[weatherId] ELSE 10) + 1]

-----------------------------------------------------------------------------
(***************************************************************************)
(* The inputs.                                                             *)
(***************************************************************************)

\* What a page shows: lengths of texts, as documented with their fields
\* (basic_weather.h, calendar.h), that leave the page in order.
Contents ==
  [city : {2, 4}, weather : {1, 5}, wind : {7}, degrees : {1, 3}, note : {<<>>, Wide(16) \o Repeat(<<LF>> \o Wide(1), 5)},
   level : {0, 50, 110}, online : BOOLEAN,
   date : {Narrow(4) \o Wide(1) \o Narrow(2) \o Wide(1) \o Narrow(2) \o Wide(1) \o Narrow(1) \o Wide(3)},
   lunar : {Wide(6) \o Narrow(1) \o Wide(4)},
   tomorrow : {Wide(3) \o Narrow(4) \o Wide(6), Wide(3) \o Narrow(5) \o Wide(8)}]

DrawInit ==
  \/ Init
  \/ \E dx, dy \in -Reach..Reach : input = [kind |-> "line", dx |-> dx, dy |-> dy]
  \/ \E r \in Radii : input = [kind |-> "round", r |-> r]
  \/ \E f \in {FONT12x12_CN, FONT16x16_CN} : \E row \in 161..254 :
       input = [kind |-> "glyph", font |-> f, row |-> row]
  \/ \E width \in 0..SCREEN_WIDTH + 1 : \E align \in IMAGE_ALIGN :
       input = [kind |-> "bmp", width |-> width, align |-> align]
  \/ \E p \in Places : \E f \in {FONT12x12_CN, [FONT16x16_CN EXCEPT !.vspacing = 3]} :
       input = [kind |-> "text", at |-> p, font |-> f, text |-> <<>>]
  \/ input = [kind |-> "image", lines |-> <<>>]
  \/ \E name \in {"basic", "forecast", "note", "gallery", "nointernet"} : \E c \in Contents :
       input = [kind |-> "page", name |-> name, contents |-> c]

GrowDrawing ==
  \/ /\ input.kind = "text"
     /\ Len(input.text) < MaxText
     /\ \E c \in Glyphs : input' = [input EXCEPT !.text = Append(@, c)]
  \/ /\ input.kind = "image"
     /\ Len(input.lines) < MaxLines
     /\ \E l \in Lines : input' = [input EXCEPT !.lines = Append(@, l)]

DrawNext == Grow \/ GrowDrawing
DrawSpec == DrawInit /\ [][DrawNext]_input

-----------------------------------------------------------------------------
(***************************************************************************)
(* Properties.                                                             *)
(***************************************************************************)

\* The middle of the shapes that are drawn around a point.
X0 == 60
Y0 == 60

Near(p, q) == Abs(p[1] - q[1]) <= 1 /\ Abs(p[2] - q[2]) <= 1

\* A line goes from one end to the other without a gap, and leaves the straight
\* line between them by no more than half a pixel (displayio.c:40).
LineIsStraight ==
  Is("line") =>
    LET line == GuiDrawLine(X0, Y0, X0 + input.dx, Y0 + input.dy)
        n == Max(DOMAIN line)
        major == High(Abs(input.dx), Abs(input.dy))
    IN  /\ line[0] = <<X0, Y0>> /\ line[n] = <<X0 + input.dx, Y0 + input.dy>>
        /\ \A i \in 1..n : Near(line[i - 1], line[i]) /\ line[i - 1] # line[i]
        /\ \A i \in 0..n :
             2 * Abs((line[i][1] - X0) * input.dy - (line[i][2] - Y0) * input.dx) <= major

\* A circle is closed, and within a pixel of its radius; a filled one
\* is what the circle encloses; a filled rectangle with round corners reaches to within
\* a pixel of its outline, which is drawn by another rule, and nowhere beyond it.  A
\* dashed line stays between its ends and leaves out no eight pixels in a row.
RoundIsClosed ==
  Is("round") =>
    LET r == input.r
        circle == GuiDrawCircle(X0, Y0, r)
        disc == GuiFillCircle(X0, Y0, r)
        outline == GuiDrawRoundRect(X0, Y0, X0 + 3 * r, Y0 + 2 * r + 1, r)
        filled == GuiFillRoundRect(X0, Y0, X0 + 3 * r, Y0 + 2 * r + 1, r)
        Square(p) == (p[1] - X0) * (p[1] - X0) + (p[2] - Y0) * (p[2] - Y0)
        Closed(ring) == \A p \in ring : Cardinality({q \in ring : Near(p, q)}) >= 3
        Row(set, y) == {p[1] : p \in {q \in set : q[2] = y}}
    IN  /\ Closed(circle) /\ \A p \in circle : Abs(Square(p) - r * r) < 2 * r
        /\ \A y \in Y0 - r..Y0 + r : Row(disc, y) = Min(Row(circle, y))..Max(Row(circle, y))
        /\ Closed(outline)
        /\ \A p \in outline : \E q \in filled : Near(p, q)
        /\ \A p \in filled : p[1] \in Min(Row(outline, p[2]))..Max(Row(outline, p[2]))
        /\ Cardinality(GuiDrawMesh(X0 + 3 * r, Y0, X0, Y0 + 2 * r, r)) = 4 * 3
        /\ GuiDrawDashLine(X0, X0 + r) \subseteq X0..X0 + r
        /\ \A x \in X0..X0 + r - 7 : (x..x + 7) \cap GuiDrawDashLine(X0, X0 + r) # {}
        /\ GuiDrawRect(X0, Y0, X0 + r, Y0 + r) = GuiFillColor(X0, Y0, X0 + r, Y0 + r)
                                                   \ GuiFillColor(X0 + 1, Y0 + 1, X0 + r - 1, Y0 + r - 1)

\* No two codes of GB2312 in the zones of the font share a byte of their glyphs, and
\* the glyphs fill the file in the order of the codes (font.c:104).
GlyphsAreApart ==
  Is("glyph") =>
    LET Next(cell) == IF cell < 254 THEN <<input.row, cell + 1>>
                      ELSE IF input.row = 169 THEN <<176, 161>> ELSE <<input.row + 1, 161>>
    IN  /\ \A font \in Fonts : font.lineBytes * font.height = font.fontBytes
                             /\ font.fontBytes <= FONTBITMAP_BUFFER_SIZE
        /\ input.row \in (161..169) \cup (176..246) =>
          \A cell \in 161..254 :
            calcOffsetCN(input.font, Next(cell)[1], Next(cell)[2]) =
              calcOffsetCN(input.font, input.row, cell) + input.font.fontBytes

Apart(a, b) ==
  \/ a.x + a.width <= b.x \/ b.x + b.width <= a.x
  \/ a.y + a.height <= b.y \/ b.y + b.height <= a.y

OnScreen(c) == c.x + c.width <= SCREEN_WIDTH /\ c.y + c.height <= SCREEN_HEIGHT

\* A character reaches one column past the place where the next one begins.
Narrowed(c) == [c EXCEPT !.width = @ - 1]

\* A text that begins where its first character fits stays in the rows of the screen,
\* and in its columns but for one: a character that begins at SCREEN_WIDTH - width,
\* the last place the loop lets it begin, sets column 250, which the comment of
\* EPDDrawHorizontal excludes (ssd1675b.c:342) and which is outside the display RAM;
\* every other pixel is inside.  No character covers another, and each has its cell
\* in the order of the text until the screen is full (displayio.c:474); a character
\* beyond 16 bits is left out.
TextStaysInPlace ==
  Is("text") =>
    LET str == FlattenSeq([i \in DOMAIN input.text |-> Utf8(input.text[i])])
        x == input.at[1]
        y == input.at[2]
        result == GuiDrawStringUTF8(str, x, y, input.font, FONT08x16_EN)
        cells == result.cells
        shown == SelectSeq(input.text, LAMBDA c : c # LF /\ c < 65536)
    IN  /\ x + input.font.width <= SCREEN_WIDTH /\ y + input.font.height <= SCREEN_HEIGHT =>
             \A i \in DOMAIN cells :
               LET c == cells[i]
               IN  /\ OnScreen(Narrowed(c))
                   /\ \A p \in GuiFillColor(c.x, c.y, c.x + c.width - 1, c.y + c.height - 1) :
                        InRAM(EPDDrawHorizontal(p[1], p[2])) \/ (p[1] = SCREEN_WIDTH /\ ~OnScreen(c))
        /\ \A i, j \in DOMAIN cells : i < j =>
             /\ Apart(cells[i], cells[j])
             /\ cells[i].y < cells[j].y \/ (cells[i].y = cells[j].y /\ cells[i].x < cells[j].x)
        /\ \A i \in DOMAIN cells : cells[i].width = IF shown[i] < 128 THEN 8 ELSE input.font.width
        /\ ~result.full => Len(cells) = Len(shown)

\* A BMP image that passes the check is drawn inside the screen whatever its width
\* and its alignment, from lines the buffer has room for (displayio.c:582).
ImageFits ==
  Is("bmp") =>
    LET bmp == [type |-> BITMAP_DIB, bitCount |-> MONOCHROME, compression |-> BI_RGB,
                width |-> input.width, height |-> 2]
        left == Align(input.align, SCREEN_WIDTH, bmp.width)
        drawn == GuiDrawBmpImageImpl(bmp, left, 0)
    IN  IF GuiCheckBMPFormat(bmp) # 0 THEN bmp.width > SCREEN_WIDTH
        ELSE /\ left >= 0 /\ left + bmp.width <= SCREEN_WIDTH
             /\ LineBytes(bmp.width) <= 32 /\ LineBytes(bmp.width) * 8 >= bmp.width
             /\ Cardinality(DOMAIN drawn) = 2 * bmp.width
             /\ \A p \in DOMAIN drawn :
                  /\ InRAM(EPDDrawHorizontal(p[1], p[2]))
                  /\ EPDDrawHorizontal(p[1], p[2]) = EPDDrawVertical(p[2], EPD_HEIGHT - 1 - p[1])

\* Of a packed image every line is drawn in its place, but for those the last ten
\* bytes of the packed data have a part in: as many as the header takes.
PackedIsShown ==
  Is("image") =>
    LET data == Pack(input.lines)
        drawn == GuiDrawImagePacked(data, 10)
    IN  /\ IsPrefix(drawn, input.lines)
        /\ \A i \in DOMAIN input.lines :
             Len(Pack(SubSeq(input.lines, 1, i))) + PACKED_DATA_OFFSET <= Len(data) => i \in DOMAIN drawn

\* The glyphs of the signal are two rows higher than the line they stand in.
Body(c) == IF c.height = 14 THEN [c EXCEPT !.y = @ + 2, !.height = 12] ELSE c

\* No item of a page leaves the screen or covers another one, but for one column: an
\* image may begin where a text ends, which is a column its last character has set.
PageIsInOrder ==
  Is("page") =>
    LET page == Page(input.name, input.contents)
        items == Placed(page)
        Overlaps(j) == page[j].after # 0 /\ page[j].x < 0
        Kept(i, j, c) == IF page[i].face # "image" /\ page[j].face = "image" THEN Narrowed(c) ELSE c
    IN  /\ \A i \in DOMAIN items : \A k \in DOMAIN items[i] : OnScreen(items[i][k])
        /\ \A i, j \in DOMAIN items : i < j /\ ~(i = j - page[j].after /\ Overlaps(j)) =>
             \A k \in DOMAIN items[i] : \A l \in DOMAIN items[j] :
               Apart(Body(Kept(i, j, items[i][k])), Body(items[j][l]))

\* Every word of matchWeatherId has an icon (appicon.c:22).
WordsHaveIcons == \A i \in DOMAIN MATCHS : getWeatherIcon(MATCHS[i]) # "unknown"

\* Shapes, texts, images and pages are drawn whole, where they belong.
ShapesAreWhole == LineIsStraight /\ RoundIsClosed
DrawnInPlace ==
  GlyphsAreApart /\ TextStaysInPlace /\ ImageFits /\ PackedIsShown /\ PageIsInOrder /\ WordsHaveIcons

=============================================================================
