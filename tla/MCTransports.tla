---------------------------- MODULE MCTransports ----------------------------
(***************************************************************************)
(* Descriptions for Transports: every leaf alone, every pair of a leaf and *)
(* a sibling after it under a parent, and what is nested deeper than that. *)
(***************************************************************************)
EXTENDS Transports, Chat

String(text) == [json |-> "string", text |-> text]
Array(list) == [json |-> "array", list |-> list]
Object(text, color, bold, extra) ==
  [json |-> "object", text |-> text, color |-> color, bold |-> bold, extra |-> extra]

\* "mauve" is no colour.
Leaves ==
  {String(t) : t \in {<< >>, <<"a">>, <<Sign, "c", "a">>}}
    \cup {[json |-> "other"]}
    \cup {Object(<<"b">>, c, l, << >>) :
            c \in {Unset, "red", "#111111", "mauve"}, l \in {Unset, TRUE, FALSE}}

Siblings == {String(<<"z">>), Object(<<"z">>, Unset, FALSE, << >>)}

Pairs ==
  {Array(<<x, y>>) : x \in Leaves, y \in Siblings}
    \cup {Object(t, "red", l, <<x, y>>) :
            t \in {<< >>, <<"p">>}, l \in {Unset, TRUE}, x \in Leaves, y \in Siblings}

\* The last two are cut: by the depth, and by the length of the coded form.
Nested ==
  {Object(<<"q">>, "red", Unset, <<Object(<< >>, "#111111", l, <<x, String(<<"w">>)>>), y>>) :
     l \in {Unset, TRUE, FALSE}, x \in Leaves, y \in Siblings}
    \cup {Array(<<Array(<<x, y>>), y>>) : x \in Leaves, y \in Siblings}
    \cup {Array(<< >>),
          Object(<<"q">>, "red", TRUE,
                 <<Object(<<"r">>, Unset, Unset,
                          <<Object(<<"s">>, "#111111", Unset, <<String(<<"t">>)>>)>>),
                   String(<<"z">>)>>)}

MCDescriptions == Leaves \cup Pairs \cup Nested
MCContexts == {5, 6}

\* The description of a status that was read is shown in the styles its
\* components have (parseChat to mcText).
StatusShown == out = "status" /\ status # None => ShownAsStyled(ParseChat(status, 0))

\* A text that ends in a lone section sign, before a sibling without a style.
LoneSign ==
  {Array(<<String(<< >>), Object(<<"a", Sign>>, "red", Unset, << >>), String(<<"z">>)>>)}

\* "Every component starts with a reset, so styles never leak into its
\* siblings": the last child is shown in its own style, whatever came before it
\* (chatComponent.legacy, read by the page's mcText).
StylesNeverLeak ==
  out = "status" /\ status # None =>
    LET c == ParseChat(status, 0) IN
    c # Unset /\ c.extra # << >> /\ Coded(Legacy(c)) # << >>
      => IsSuffix(Styled(Last(c.extra), <<c.style>>), PageShows(c))
=============================================================================
