-------------------------- MODULE MCSourceCollection --------------------------
(***************************************************************************)
(* Six clean pages, and links the layers treat differently: one of them    *)
(* with a fragment, or under another title; a title in angle brackets,     *)
(* which the specialist takes off and the aggregating agent does not; a    *)
(* title of square brackets and a space, which the specialist replaces by  *)
(* the host and the aggregating agent makes a space, which it would itself *)
(* refuse; credentials, which only the specialist accepts; and a link      *)
(* without TLS.  Two specialists and an agent of the marketplace find too  *)
(* few, the same, just enough or too many of them.                         *)
(***************************************************************************)
EXTENDS SourceCollection

CONSTANTS p, q, r, s, t, u, fragment, renamed, angled, bracketed, spaced, credentials, plain,
          news, risk, foreign

MCLinks == {p, q, r, s, t, u, fragment, renamed, angled, bracketed, spaced, credentials, plain}
MCURLOf == [l \in MCLinks |-> CASE l = renamed -> p
                               [] l = angled -> u
                               [] l \in {bracketed, spaced} -> r
                               [] OTHER -> l]
MCClientSource == [l \in MCLinks \ {plain} |-> CASE l = fragment -> p
                                                 [] l = angled -> u
                                                 [] l \in {bracketed, spaced} -> r
                                                 [] OTHER -> l]
MCRootSource == [l \in MCLinks \ {plain, credentials, spaced} |->
                   CASE l = fragment -> p
                     [] l = bracketed -> spaced
                     [] OTHER -> l]
MCDependencies == {news, risk, foreign}

MCFindings ==
  [d \in MCDependencies |->
     CASE d = news -> {<<p, q>>, <<p, fragment, plain, q, bracketed>>, <<p, credentials, q>>,
                       <<renamed, p, angled, u>>, <<q, credentials, s, t, u, r>>}
       [] d = risk -> {<<fragment, credentials, renamed, q>>, <<s, t, angled>>}
       [] d = foreign -> {<< >>, <<plain, fragment, renamed, credentials, angled>>,
                          <<bracketed, angled, r>>}]
===============================================================================
