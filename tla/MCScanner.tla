------------------------------ MODULE MCScanner ------------------------------
(***************************************************************************)
(* The scanner on every short text over a few characters, one set for each *)
(* kind of token.                                                          *)
(***************************************************************************)
EXTENDS Scanner
LOCAL INSTANCE SequencesExt

SmallTexts ==
  SeqOf({"/", "*"}, 7) \cup SeqOf({"/", "*", "lf", "a"}, 4)
    \cup SeqOf({"r", "#", "quote"}, 5) \cup SeqOf({"c", "quote", "bs", "lf"}, 4)
    \cup SeqOf({"0", "e", ".", "x", "-"}, 4) \cup SeqOf({"1", "_", "a", "b"}, 3)
    \cup SeqOf({"<", ">", "=", "?", "&"}, 3) \cup SeqOf({".", "="}, 4)
    \cup SeqOf({"tick", "bs", "u", "wide"}, 4) \cup SeqOf({"tick", "bs", "cr", "lf"}, 5)
    \cup {<<"tick", "bs", "u">> \o s : s \in SeqOf({"lbrace", "rbrace", "tick", "a"}, 4)}
    \cup SeqOf({"wide", "sign", "bom", "a", "space"}, 3) \cup SeqOf({"cr", "lf", "a", "quote"}, 4)

\* A comment in a file with CRLF line ends.
WindowsTexts == SeqOf({"/", "cr", "lf", "a"}, 5)
=============================================================================
