--------------------------- MODULE SourceCollection ---------------------------
(***************************************************************************)
(* From the links a web search returns to the sources an aggregating agent *)
(* cites.  The specialists among its dependencies keep the links that      *)
(* sourceFromAnnotation accepts, up to a cap, and answer only with enough  *)
(* of them; other dependencies are agents of the marketplace, which put    *)
(* into their answers what they like.  The aggregating agent ranges over   *)
(* the map of results, in the random order Go gives it, verifies again     *)
(* under a cap of its own, and answers only when enough sources are left.  *)
(*                                                                         *)
(* A link is a title and a URL.  Each layer makes a source of a link in a  *)
(* way of its own: both drop the fragment of the URL, but they clean up    *)
(* and refuse different titles and URLs.  Both keep one source per URL,    *)
(* the first, whatever its title.  A list of sources is the set of its     *)
(* elements: its order shows only in the layout of the Markdown, and in    *)
(* which links of a long list, or titles of a URL, are left out, which is  *)
(* any choice here.                                                        *)
(***************************************************************************)
EXTENDS Naturals, Sequences, FiniteSets

CONSTANTS
  Links,          \* links, and the sources made of them
  URLOf,          \* their URLs
  ClientSource,   \* what sourceFromAnnotation makes of the links it accepts
  RootSource,     \* what verifiedSource makes of the links it accepts
  Dependencies,   \* the dependencies of one aggregating agent
  Specialists,    \* those that are OpenAI agents of this server
  Findings,       \* per dependency, the lists of links it may find
  MinimumSources,            \* MinimumSources of the definition
  MaximumSourcesPerResponse, \* cap of a specialist's sources
  MaximumSourceCount         \* cap of the cited sources

ASSUME LinksAssumption ==
  /\ IsFiniteSet(Links) /\ IsFiniteSet(Dependencies)
  /\ DOMAIN URLOf = Links
  /\ DOMAIN ClientSource \subseteq Links /\ ClientSource \in [DOMAIN ClientSource -> Links]
  /\ DOMAIN RootSource \subseteq Links /\ RootSource \in [DOMAIN RootSource -> Links]
  /\ Specialists \subseteq Dependencies
  /\ Findings \in [Dependencies -> SUBSET Seq(Links)]

(* A URL that net/url has written without a fragment, it parses and writes *)
(* as it is.                                                               *)
ASSUME RewritingAssumption ==
  \A l \in DOMAIN ClientSource :
    LET source == ClientSource[l]
    IN  source \in DOMAIN RootSource => URLOf[RootSource[source]] = URLOf[source]

ASSUME CapsAssumption ==
  /\ MinimumSources \in Nat
  /\ MaximumSourcesPerResponse \in Nat \ {0} /\ MaximumSourceCount \in Nat \ {0}
  /\ MinimumSources <= MaximumSourceCount

VARIABLES
  found,      \* per dependency, the links in the order they were found
  position,   \* per specialist, the link sourcesFrom looks at
  sources,    \* per dependency, the sources of its answer so far
  answer,     \* per dependency, how its invocation ended
  phase,      \* where the aggregating agent is, and how it ended
  unvisited,  \* the results the range over the map has not come to
  unread,     \* what is left of the list of the current result
  cited       \* the sources the aggregating agent has collected

vars == <<found, position, sources, answer, phase, unvisited, unread, cited>>

searchVars == <<found, position, sources, answer>>
rootVars == <<phase, unvisited, unread, cited>>

Init ==
  /\ found \in {f \in [Dependencies -> UNION {Findings[d] : d \in Dependencies}] :
                  \A d \in Dependencies : f[d] \in Findings[d]}
  /\ position = [d \in Dependencies |-> 1]
  /\ sources = [d \in Dependencies |->
                  IF d \in Specialists THEN {}
                  ELSE {found[d][i] : i \in DOMAIN found[d]}]
  /\ answer = [d \in Dependencies |->
                 IF d \in Specialists THEN "searching" ELSE "answered"]
  /\ phase = "waiting"
  /\ unvisited = Dependencies
  /\ unread = {}
  /\ cited = {}

------------------------------------------------------------------------------
(* seenURLs of both layers.                                                *)
Known(list, source) == \E known \in list : URLOf[known] = URLOf[source]

------------------------------------------------------------------------------
(* A specialist.                                                           *)

Full(d) == Cardinality(sources[d]) = MaximumSourcesPerResponse

(* sourceFromAnnotation                                                    *)
Accepted(link) == link \in DOMAIN ClientSource

(* sourcesFrom: a link is passed over when it is not accepted or its URL   *)
(* is known.                                                               *)
Collect(d) ==
  /\ answer[d] = "searching"
  /\ position[d] <= Len(found[d]) /\ ~Full(d)
  /\ LET link == found[d][position[d]] IN
       sources' = [sources EXCEPT ![d] =
                     IF Accepted(link) /\ ~Known(@, ClientSource[link])
                     THEN @ \cup {ClientSource[link]} ELSE @]
  /\ position' = [position EXCEPT ![d] = @ + 1]
  /\ UNCHANGED <<found, answer, rootVars>>

(* structuredResult                                                        *)
Enough(d) == Cardinality(sources[d]) >= MinimumSources

AnswerUnchecked(d) ==
  /\ answer[d] = "searching"
  /\ position[d] > Len(found[d]) \/ Full(d)
  /\ answer' = [answer EXCEPT ![d] = "answered"]
  /\ UNCHANGED <<found, position, sources, rootVars>>
Answer(d) ==
  /\ answer[d] = "searching"
  /\ position[d] > Len(found[d]) \/ Full(d)
  /\ answer' = [answer EXCEPT ![d] = IF Enough(d) THEN "answered" ELSE "failed"]
  /\ UNCHANGED <<found, position, sources, rootVars>>

(* No response, an incomplete or empty one, one without a completed        *)
(* search, or output that is no JSON object.                               *)
SearchFails(d) ==
  /\ answer[d] = "searching"
  /\ answer' = [answer EXCEPT ![d] = "failed"]
  /\ UNCHANGED <<found, position, sources, rootVars>>

------------------------------------------------------------------------------
(* The aggregating agent.                                                  *)

DependencyFailed ==
  /\ phase = "waiting"
  /\ \E d \in Dependencies : answer[d] = "failed"
  /\ phase' = "failed"
  /\ UNCHANGED <<searchVars, unvisited, unread, cited>>

(* The results are there, and the model's Markdown: it may have failed, or *)
(* later turn out to have no heading or a source section of its own.       *)
Generate ==
  /\ phase = "waiting"
  /\ \A d \in Dependencies : answer[d] = "answered"
  /\ phase' \in {"citing", "failed"}
  /\ UNCHANGED <<searchVars, unvisited, unread, cited>>

Complete == Cardinality(cited) = MaximumSourceCount

(* The outer loop of sourcesFromDependencies.                              *)
Visit(d) ==
  /\ phase = "citing"
  /\ unread = {} /\ ~Complete
  /\ d \in unvisited
  /\ unvisited' = unvisited \ {d}
  /\ unread' = sources[d]
  /\ UNCHANGED <<searchVars, phase, cited>>

(* verifiedSource                                                          *)
Verified(link) == link \in DOMAIN RootSource

(* The inner loop.                                                         *)
CiteUnverified(link) ==
  /\ phase = "citing"
  /\ link \in unread /\ ~Complete
  /\ unread' = unread \ {link}
  /\ LET source == IF Verified(link) THEN RootSource[link] ELSE link
     IN  cited' = IF Known(cited, source) THEN cited ELSE cited \cup {source}
  /\ UNCHANGED <<searchVars, phase, unvisited>>
Cite(link) ==
  /\ phase = "citing"
  /\ link \in unread /\ ~Complete
  /\ unread' = unread \ {link}
  /\ cited' = IF Verified(link) /\ ~Known(cited, RootSource[link])
              THEN cited \cup {RootSource[link]} ELSE cited
  /\ UNCHANGED <<searchVars, phase, unvisited>>

(* The checks of aggregateMarkdownResult: the number of sources, then the  *)
(* form of the Markdown.                                                   *)
ConcludeEarly ==
  /\ phase = "citing" /\ unread = {} /\ unvisited # Dependencies
  /\ phase' = IF Cardinality(cited) < MinimumSources THEN "refused" ELSE "answered"
  /\ UNCHANGED <<searchVars, unvisited, unread, cited>>
Conclude ==
  /\ phase = "citing"
  /\ Complete \/ (unvisited = {} /\ unread = {})
  /\ \/ Cardinality(cited) < MinimumSources /\ phase' = "refused"
     \/ Cardinality(cited) >= MinimumSources /\ phase' \in {"answered", "failed"}
  /\ UNCHANGED <<searchVars, unvisited, unread, cited>>

Next ==
  \/ \E d \in Dependencies : Collect(d) \/ Answer(d) \/ SearchFails(d) \/ Visit(d)
  \/ DependencyFailed \/ Generate \/ Conclude
  \/ \E link \in unread : Cite(link)

Spec == Init /\ [][Next]_vars

------------------------------------------------------------------------------
TypeOK ==
  /\ found \in [Dependencies -> Seq(Links)]
  /\ position \in [Dependencies -> Nat \ {0}]
  /\ sources \in [Dependencies -> SUBSET Links]
  /\ answer \in [Dependencies -> {"searching", "answered", "failed"}]
  /\ phase \in {"waiting", "citing", "answered", "refused", "failed"}
  /\ unvisited \subseteq Dependencies
  /\ unread \subseteq Links
  /\ cited \subseteq Links
  /\ \A d \in Specialists : Cardinality(sources[d]) <= MaximumSourcesPerResponse

(* The sources some dependencies offer to the aggregating agent.           *)
VerifiedIn(results) ==
  {RootSource[l] : l \in {k \in UNION {sources[d] : d \in results} : Verified(k)}}

URLsOf(list) == {URLOf[l] : l \in list}

OnePerURL(list) == \A k, l \in list : URLOf[k] = URLOf[l] => k = l

(* Whether an aggregating agent has sources enough does not depend on the  *)
(* order in which Go ranges over the results (openai_agent.go 145), on the *)
(* cap of line 160 that cuts the loops off, nor on which of several titles *)
(* of a page comes first: it is decided by the URLs of all the verified    *)
(* sources of all dependencies.                                            *)
OrderDoesNotDecide ==
  /\ phase = "answered" =>
       Cardinality(URLsOf(VerifiedIn(Dependencies))) >= MinimumSources
  /\ phase = "refused" =>
       Cardinality(URLsOf(VerifiedIn(Dependencies))) < MinimumSources

(* An answer cites "three to five verified sources" (the name of the test  *)
(* at openai_agent_test.go:69), each of them from a dependency's answer    *)
(* and no page twice, whatever the agents of the marketplace have put      *)
(* there.                                                                  *)
CitationsAreVerified ==
  /\ cited \subseteq VerifiedIn(Dependencies \ unvisited) /\ OnePerURL(cited)
  /\ phase = "answered" => Cardinality(cited) \in MinimumSources..MaximumSourceCount

(* One specialist of this server whose sources are all verified is enough: *)
(* what structuredResult demands of it (lines 134-136) meets what          *)
(* aggregateMarkdownResult demands (lines 111-113), two caps and another   *)
(* look at titles and URLs later.                                          *)
OneSpecialistSuffices ==
  phase = "refused" =>
    \A d \in Specialists : \E l \in sources[d] : ~Verified(l)

------------------------------------------------------------------------------
(* Why: of what has been visited every URL has been collected, unless the  *)
(* cap is hit; the sources of a specialist are made by sourceFromAnnotation*)
(* and enough.                                                             *)
Gathering ==
  /\ Cardinality(cited) <= MaximumSourceCount /\ OnePerURL(cited)
  /\ phase = "waiting" \/ (\E d \in Dependencies : answer[d] # "answered") =>
       unvisited = Dependencies /\ unread = {} /\ cited = {}
  /\ phase \notin {"waiting", "failed"} =>
       \A d \in Dependencies : answer[d] = "answered"
  /\ \A l \in unread : \E d \in Dependencies \ unvisited : l \in sources[d]
  /\ cited \subseteq VerifiedIn(Dependencies \ unvisited)
  /\ Complete \/ \A l \in VerifiedIn(Dependencies \ unvisited) :
                   Known(cited, l) \/ \E k \in unread : Verified(k) /\ RootSource[k] = l
  /\ phase \in {"answered", "refused"} =>
       /\ Complete \/ (unvisited = {} /\ unread = {})
       /\ phase = "answered" <=> Cardinality(cited) >= MinimumSources

EnoughSources ==
  \A d \in Specialists :
    /\ \A source \in sources[d] : \E l \in DOMAIN ClientSource : source = ClientSource[l]
    /\ OnePerURL(sources[d])
    /\ answer[d] = "answered" => Cardinality(sources[d]) >= MinimumSources

IInv == TypeOK /\ Gathering /\ EnoughSources

===============================================================================
