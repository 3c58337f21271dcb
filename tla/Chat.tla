-------------------------------- MODULE Chat --------------------------------
(***************************************************************************)
(* The description of a Java server on its way to the page: the JSON text  *)
(* component is parsed (parseChat), written as text with legacy colour     *)
(* codes (legacy), cut, and rendered by the page (mcText).  Pure           *)
(* definitions; the components are trees, so they are recursive.           *)
(*                                                                         *)
(* A text is a sequence of characters.  Sign is the section sign.  Of the  *)
(* sixteen named colours one stands for all, and of the five formats bold. *)
(* No text holds what tainted.clean takes out (control and format          *)
(* characters, spaces at the ends), so that here it only cuts.             *)
(***************************************************************************)
EXTENDS Integers, Sequences, SequencesExt

CONSTANTS
  Sign,         \* the section sign
  Unset,        \* a nil component, a nil *bool, the empty colour
  MaxChatDepth, \* maxChatDepth, 16
  ChatTextMax,  \* chatTextMax, 32 KiB
  RawMax,       \* rawMax, 2048 bytes
  MotdMax       \* motdMax, 256 bytes

ASSUME ChatAssumption ==
  /\ MaxChatDepth \in Nat
  /\ {ChatTextMax, RawMax, MotdMax} \subseteq Nat \ {0}
  /\ MotdMax < RawMax
  /\ RawMax <= ChatTextMax

(***************************************************************************)
(* JSON as the parser tells it apart: [json |-> "string", text], an array  *)
(* [json |-> "array", list], an object [json |-> "object", text, color,    *)
(* bold, extra], and anything else, [json |-> "other"].  An object whose   *)
(* text is missing has its fallback in text, if it has one.                *)
(***************************************************************************)
Style(color, bold) == [color |-> color, bold |-> bold]
NoStyle == Style(Unset, Unset)

Component(text, plain, style, extra) ==
  [text |-> text, plain |-> plain, style |-> style, extra |-> extra]

RECURSIVE ParseChat(_, _)

\* parseChildren: children that do not parse are left out.
ParseChildren(list, depth) ==
  SelectSeq([i \in DOMAIN list |-> ParseChat(list[i], depth + 1)], LAMBDA c : c # Unset)

\* An array's first element is the parent of the others.
ParseChat(raw, depth) ==
  CASE depth > MaxChatDepth -> Unset
    [] raw.json = "string" -> Component(raw.text, TRUE, NoStyle, << >>)
    [] raw.json = "array" ->
         IF raw.list = << >> THEN Unset
         ELSE LET c == ParseChat(Head(raw.list), depth + 1) IN
              IF c = Unset THEN Unset
              ELSE [c EXCEPT !.extra = @ \o ParseChildren(Tail(raw.list), depth)]
    [] raw.json = "object" ->
         Component(raw.text, FALSE, Style(raw.color, raw.bold), ParseChildren(raw.extra, depth))
    [] OTHER -> Unset

\* Seeded fault: a component's own style replaces all of its parent's.
WithOwnOnly(st, own) == own

\* chatStyle.with: what a component sets itself changes what it inherits.
With(st, own) ==
  Style(IF own.color = Unset THEN st.color ELSE own.color,
        IF own.bold = Unset THEN st.bold ELSE own.bold)

\* Seeded fault: the page drops formats at a colour, and here one follows.
CodesColourLast(st) ==
  <<Sign, "r">> \o (IF st.bold = TRUE THEN <<Sign, "l">> ELSE << >>)
                \o (IF st.color = "red" THEN <<Sign, "c">> ELSE << >>)

HexDigits == <<"1", "1", "1", "1", "1", "1">>
HexCodes == FoldSeq(LAMBDA d, out : <<Sign, d>> \o out, << >>, HexDigits)

\* chatStyle.codes: the reset and what sets st.  A colour that is neither
\* named nor hexadecimal sets none.
Codes(st) ==
  <<Sign, "r">>
    \o (CASE st.color = "red" -> <<Sign, "c">>
          [] st.color = "#111111" -> <<Sign, "x">> \o HexCodes
          [] OTHER -> << >>)
    \o (IF st.bold = TRUE THEN <<Sign, "l">> ELSE << >>)

-----------------------------------------------------------------------------
\* writeVisible and writeLegacy append a component and its children to what is
\* written so far, which stops growing beyond ChatTextMax.
RECURSIVE WriteVisible(_, _)
WriteVisible(b, c) ==
  IF c = Unset \/ Len(b) > ChatTextMax THEN b
  ELSE FoldLeft(WriteVisible, b \o c.text, c.extra)

Visible(c) == WriteVisible(<< >>, c)

RECURSIVE WriteLegacy(_, _, _, _)
WriteLegacy(b, c, parent, top) ==
  IF c = Unset \/ Len(b) > ChatTextMax THEN b
  ELSE LET st == With(parent, c.style)
           own == IF c.text = << >> \/ (c.plain /\ top) THEN c.text
                  ELSE Codes(st) \o c.text
       IN FoldLeft(LAMBDA sofar, e : WriteLegacy(sofar, e, st, FALSE), b \o own, c.extra)

Legacy(c) == WriteLegacy(<< >>, c, NoStyle, TRUE)

Clip(text, n) == SubSeq(text, 1, IF Len(text) > n THEN n ELSE Len(text))

\* tainted.coded: the text cut to RawMax, nothing when it has no codes.
Coded(text) ==
  LET cut == Clip(text, RawMax) IN IF Sign \in ToSet(cut) THEN cut ELSE << >>

\* stripFormatting: the sign takes the next character with it.
Strip(text) ==
  FoldLeft(LAMBDA s, ch :
             IF s.skip THEN [s EXCEPT !.skip = FALSE]
             ELSE IF ch = Sign THEN [s EXCEPT !.skip = TRUE]
             ELSE [s EXCEPT !.out = Append(@, ch)],
           [out |-> << >>, skip |-> FALSE], text).out

-----------------------------------------------------------------------------
\* mcText of the page: the characters shown, each with its style.
Shows(text, st) == [i \in DOMAIN text |-> [ch |-> text[i], style |-> st]]

\* The characters i .. of raw are the six digits of a hexadecimal colour.
HexFollows(raw, i) ==
  /\ i + 11 <= Len(raw)
  /\ \A d \in 0 .. 5 : raw[i + 2 * d] = Sign /\ raw[i + 2 * d + 1] \in {"1", "c"}

Digits(raw, i) == [d \in 1 .. 6 |-> raw[i + 2 * d - 1]]

\* A colour is told by its code, a hexadecimal one by its digits.
RECURSIVE McTextFrom(_, _, _)
McTextFrom(raw, i, style) ==
  IF i > Len(raw) THEN << >>
  ELSE IF raw[i] # Sign THEN Shows(<<raw[i]>>, style) \o McTextFrom(raw, i + 1, style)
  ELSE IF i = Len(raw) THEN << >>
  ELSE LET code == raw[i + 1] IN
       CASE code \in {"1", "c"} -> McTextFrom(raw, i + 2, Style(<<code>>, Unset))
         [] code = "x" /\ HexFollows(raw, i + 2) ->
              McTextFrom(raw, i + 14, Style(Digits(raw, i + 2), Unset))
         [] code = "r" -> McTextFrom(raw, i + 2, NoStyle)
         [] code = "l" -> McTextFrom(raw, i + 2, [style EXCEPT !.bold = TRUE])
         [] OTHER -> McTextFrom(raw, i + 2, style)

McText(raw) == McTextFrom(raw, 1, NoStyle)

\* tainted.plain of the visible text.
Motd(c) == Clip(Strip(Visible(c)), MotdMax)

\* What the page shows of a description: its coded form, else the plain one.
PageShows(c) ==
  LET raw == Coded(Legacy(c)) IN
  IF raw # << >> THEN McText(raw) ELSE Shows(Motd(c), NoStyle)

-----------------------------------------------------------------------------
(***************************************************************************)
(* The reference: what a client shows of a component.  Its own text has    *)
(* the style it sets or inherits, codes within a text hold to the end of   *)
(* that text, and children inherit only the component's style.             *)
(***************************************************************************)
Drawn(st) ==
  Style(CASE st.color = "red" -> <<"c">> [] st.color = "#111111" -> HexDigits [] OTHER -> Unset,
        IF st.bold = TRUE THEN TRUE ELSE Unset)

\* Of the components around a text, outermost first, the nearest that sets a
\* field has its say.
Nearest(values) ==
  LET set == {i \in DOMAIN values : values[i] # Unset} IN
  IF set = {} THEN Unset ELSE values[Max(set)]

StyleOf(around) ==
  Style(Nearest([i \in DOMAIN around |-> around[i].color]),
        Nearest([i \in DOMAIN around |-> around[i].bold]))

RECURSIVE Styled(_, _)
Styled(c, outer) ==
  LET around == Append(outer, c.style) IN
  FoldLeft(LAMBDA sofar, e : sofar \o Styled(e, around),
           McTextFrom(c.text, 1, Drawn(StyleOf(around))), c.extra)

Characters(shown) == [i \in DOMAIN shown |-> shown[i].ch]

\* The page shows every character in the style of its own component, whatever
\* its siblings set, and the plain description has the same characters; a long
\* one loses only its end.
ShownAsStyled(c) ==
  c # Unset =>
    /\ IsPrefix(PageShows(c), Styled(c, << >>))
    /\ Len(Legacy(c)) <= RawMax =>
         /\ Coded(Legacy(c)) # << >> => PageShows(c) = Styled(c, << >>)
         /\ Motd(c) = Clip(Characters(Styled(c, << >>)), MotdMax)
=============================================================================
