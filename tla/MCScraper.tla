------------------------------ MODULE MCScraper ------------------------------
(***************************************************************************)
(* Model values for checking Scraper.                                      *)
(***************************************************************************)
EXTENDS Scraper

MCSizes == {<<2, 2>>, <<3, 3>>}
MCWindows == {<<1, 1>>, <<2, 1>>}
MCLargest == <<3, 3>>
MCMarkerText(n) == "S*Y*N*C*" \o ToString(n)
MCTexts == {<<"b">>, <<NL, "a", NL>>, <<NL, NL, "c", NL, NL>>}

(* What ScraperProofs takes for granted of the markers and the texts        *)
(* (MarkersDiffer) is so of these.                                          *)
ASSUME MarkersAndTexts ==
  /\ \A n \in 0..20 : MCMarkerText(n) # Blank
  /\ \A m, n \in 0..20 : m # n => MCMarkerText(m) # MCMarkerText(n)
  /\ \A text \in MCTexts, n \in 0..20 : MCMarkerText(n) \notin {text[k] : k \in 1..Len(text)}

(* A blank in reverse video, and an underlined character in black on white. *)
MCColored ==
  [b |-> [ch |-> Blank, attr |-> [kDefaultAttributes EXCEPT !.reverse = TRUE]],
   c |-> [ch |-> "c", attr |-> [kDefaultAttributes EXCEPT !.fore = BLACK, !.back = WHITE]]]
=============================================================================
