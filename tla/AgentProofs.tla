------------------------------ MODULE AgentProofs ------------------------------
(***************************************************************************)
(* OpenAI agents (SourceCollection), for all dependencies, links and caps: *)
(* the order in which the results are visited does not decide whether      *)
(* there are sources enough, nothing unverified is cited, and one          *)
(* specialist with verified sources suffices.                              *)
(*                                                                         *)
(* The loops are cut off by a cap, so what was visited need not have been  *)
(* collected; Gathering says that it was, or that the cap was reached, and *)
(* the cap is not below the minimum.                                       *)
(*                                                                         *)
(* Fixture agents (FixtureAgent), for all results and fixtures: the answer *)
(* does not depend on the order of the results either, because only one    *)
(* arrangement of different codes is in order (OneOrder), and it has one   *)
(* line for each result.                                                   *)
(***************************************************************************)
EXTENDS SourceCollection, FixtureAgent, FiniteSetTheorems, SequenceTheorems,
        WellFoundedInduction, TLAPS

(* Sets of links are finite, and grow by at most one element at a time.    *)
LEMMA LinkSets ==
  ASSUME NEW S \in SUBSET Links
  PROVE  /\ IsFiniteSet(S) /\ Cardinality(S) \in Nat
         /\ \A T \in SUBSET S : Cardinality(T) <= Cardinality(S)
         /\ \A l \in Links : Cardinality(S \cup {l}) <= Cardinality(S) + 1
<1>1. IsFiniteSet(S)
  BY LinksAssumption, FS_Subset
<1>2. Cardinality(S) \in Nat
  BY <1>1, FS_CardinalityType
<1>3. \A T \in SUBSET S : Cardinality(T) <= Cardinality(S)
  BY <1>1, FS_Subset
<1>4. ASSUME NEW l \in Links PROVE Cardinality(S \cup {l}) <= Cardinality(S) + 1
  <2>1. CASE l \in S
    <3>1. S \cup {l} = S
      BY <2>1
    <3> QED
      BY <3>1, <1>2
  <2>2. CASE l \notin S
    <3>1. Cardinality(S \cup {l}) = Cardinality(S) + 1
      BY <2>2, <1>1, FS_AddElement
    <3> QED
      BY <3>1, <1>2
  <2> QED
    BY <2>1, <2>2
<1> QED
  BY <1>1, <1>2, <1>3, <1>4

(* A list with one source per URL has as many URLs as sources.             *)
LEMMA URLCounts ==
  ASSUME NEW S \in SUBSET Links
  PROVE  /\ IsFiniteSet(URLsOf(S)) /\ Cardinality(URLsOf(S)) \in Nat
         /\ OnePerURL(S) => Cardinality(URLsOf(S)) = Cardinality(S)
<1> DEFINE f == [l \in S |-> URLOf[l]]
<1>1. f \in Surjection(S, URLsOf(S))
  BY DEF Surjection, URLsOf
<1>2. IsFiniteSet(S)
  BY LinkSets
<1>3. OnePerURL(S) => f \in Injection(S, URLsOf(S))
  BY DEF OnePerURL, Injection, IsInjective, URLsOf
<1> HIDE DEF f
<1>4. IsFiniteSet(URLsOf(S)) /\ (OnePerURL(S) => Cardinality(URLsOf(S)) = Cardinality(S))
  BY <1>1, <1>2, <1>3, FS_Surjection
<1> QED
  BY <1>4, FS_CardinalityType

LEMMA MoreURLs ==
  ASSUME NEW S \in SUBSET Links, NEW T \in SUBSET Links, URLsOf(S) \subseteq URLsOf(T)
  PROVE  Cardinality(URLsOf(S)) <= Cardinality(URLsOf(T))
  BY URLCounts, FS_Subset

(* A source whose URL is not known leaves one source per URL.              *)
LEMMA AnotherURL ==
  ASSUME NEW S, OnePerURL(S), NEW source, ~Known(S, source)
  PROVE  OnePerURL(S \cup {source})
  BY DEF OnePerURL, Known

(* No link is cited before the results are there.                          *)
LEMMA InitiallyGathering == Init => IInv
<1> SUFFICES ASSUME Init PROVE IInv
  OBVIOUS
<1>1. TypeOK
  <2>1. found \in [Dependencies -> Seq(Links)]
    BY LinksAssumption DEF Init
  <2>2. \A d \in Dependencies : {found[d][i] : i \in DOMAIN found[d]} \subseteq Links
    BY <2>1
  <2>3. sources \in [Dependencies -> SUBSET Links]
    BY <2>2 DEF Init
  <2>4. \A d \in Specialists : sources[d] = {}
    BY LinksAssumption DEF Init
  <2>5. \A d \in Specialists : Cardinality(sources[d]) <= MaximumSourcesPerResponse
    BY <2>4, FS_EmptySet, CapsAssumption
  <2>6. /\ position \in [Dependencies -> Nat \ {0}]
        /\ answer \in [Dependencies -> {"searching", "answered", "failed"}]
        /\ phase = "waiting" /\ unvisited = Dependencies /\ unread = {} /\ cited = {}
    BY DEF Init
  <2> QED
    BY <2>1, <2>3, <2>5, <2>6 DEF TypeOK
<1>2. Gathering
  <2>1. Cardinality(cited) = 0
    BY FS_EmptySet DEF Init
  <2>2. phase = "waiting" /\ unvisited = Dependencies /\ unread = {} /\ cited = {}
    BY DEF Init
  <2>3. VerifiedIn(Dependencies \ unvisited) = {}
    BY <2>2 DEF VerifiedIn
  <2> QED
    BY <2>1, <2>2, <2>3, CapsAssumption DEF Gathering, OnePerURL
<1>3. EnoughSources
  BY LinksAssumption DEF Init, EnoughSources, OnePerURL
<1> QED
  BY <1>1, <1>2, <1>3 DEF IInv

(* As long as a specialist searches, the aggregating agent has nothing, so *)
(* what happens to the answers cannot disturb what it has gathered.        *)
LEMMA SearchLeavesRoot ==
  ASSUME IInv, NEW d \in Dependencies, answer[d] = "searching",
         UNCHANGED rootVars,
         \A e \in Dependencies \ {d} : answer'[e] = answer[e]
  PROVE  Gathering'
<1> USE DEF IInv
<1>1. unvisited = Dependencies /\ unread = {} /\ cited = {}
  BY DEF Gathering
<1>2. phase \in {"waiting", "failed"}
  BY DEF Gathering, TypeOK
<1>3. VerifiedIn(Dependencies \ unvisited)' = {}
  BY <1>1 DEF VerifiedIn, rootVars
<1>4. Cardinality(cited)' <= MaximumSourceCount
  BY DEF Gathering, rootVars
<1> QED
  BY <1>1, <1>2, <1>3, <1>4 DEF Gathering, rootVars

(* A specialist keeps accepted sources, and one of each URL.               *)
LEMMA CollectSound ==
  ASSUME IInv, NEW d \in Dependencies, Collect(d)
  PROVE  IInv'
<1> USE DEF IInv
<1> DEFINE link == found[d][position[d]]
           source == ClientSource[link]
<1>1. \/ sources' = sources
      \/ /\ link \in DOMAIN ClientSource /\ ~Known(sources[d], source)
         /\ sources' = [sources EXCEPT ![d] = @ \cup {source}]
  BY DEF Collect, Accepted, TypeOK
<1>2. link \in DOMAIN ClientSource => source \in Links
  BY LinksAssumption
<1> HIDE DEF link, source
<1>3. TypeOK'
  <2>1. d \in Specialists => Cardinality(sources'[d]) <= MaximumSourcesPerResponse
    <3>1. CASE sources' = sources
      BY <3>1 DEF TypeOK
    <3>2. CASE sources' # sources
      <4>1. source \in Links /\ sources'[d] = sources[d] \cup {source}
        BY <1>1, <1>2, <3>2 DEF TypeOK
      <4>2. /\ Cardinality(sources[d]) \in Nat
            /\ Cardinality(sources[d] \cup {source}) \in Nat
            /\ Cardinality(sources[d] \cup {source}) <= Cardinality(sources[d]) + 1
        BY <4>1, LinkSets DEF TypeOK
      <4>3. d \in Specialists => Cardinality(sources[d]) < MaximumSourcesPerResponse
        BY <4>2, CapsAssumption DEF TypeOK, Collect, Full
      <4>4. Cardinality(sources'[d]) = Cardinality(sources[d] \cup {source})
        BY <4>1
      <4> QED
        BY <4>2, <4>3, <4>4, CapsAssumption
    <3> QED
      BY <3>1, <3>2
  <2>2. \A e \in Specialists \ {d} : sources'[e] = sources[e]
    BY <1>1, LinksAssumption DEF TypeOK
  <2>3. \A e \in Specialists : Cardinality(sources'[e]) <= MaximumSourcesPerResponse
    BY <2>1, <2>2 DEF TypeOK
  <2>4. sources' \in [Dependencies -> SUBSET Links]
    BY <1>1, <1>2 DEF TypeOK
  <2>5. position' \in [Dependencies -> Nat \ {0}]
    BY DEF TypeOK, Collect
  <2>6. UNCHANGED <<found, answer, phase, unvisited, unread, cited>>
    BY DEF Collect, rootVars
  <2> QED
    BY <2>3, <2>4, <2>5, <2>6 DEF TypeOK
<1>4. Gathering'
  BY SearchLeavesRoot DEF Collect
<1>5. EnoughSources'
  <2> SUFFICES ASSUME NEW e \in Specialists
               PROVE  /\ \A k \in sources'[e] : \E l \in DOMAIN ClientSource : k = ClientSource[l]
                      /\ OnePerURL(sources'[e])
                      /\ answer'[e] = "answered" => Cardinality(sources'[e]) >= MinimumSources
    BY DEF EnoughSources, OnePerURL
  <2>1. e \in Dependencies /\ answer' = answer /\ answer[d] = "searching"
    BY LinksAssumption DEF Collect
  <2>2. CASE sources'[e] = sources[e]
    BY <2>1, <2>2 DEF EnoughSources
  <2>3. CASE sources'[e] # sources[e]
    <3>1. e = d /\ sources'[e] = sources[e] \cup {source}
          /\ link \in DOMAIN ClientSource /\ ~Known(sources[e], source)
      BY <1>1, <2>1, <2>3 DEF TypeOK
    <3>2. OnePerURL(sources'[e])
      BY <3>1, AnotherURL DEF EnoughSources
    <3> QED
      BY <2>1, <3>1, <3>2 DEF EnoughSources, source
  <2> QED
    BY <2>2, <2>3
<1> QED
  BY <1>3, <1>4, <1>5

(* A specialist answers with sources enough, or not at all.                *)
LEMMA AnswerSound ==
  ASSUME IInv, NEW d \in Dependencies, Answer(d) \/ SearchFails(d)
  PROVE  IInv'
<1> USE DEF IInv
<1>1. TypeOK'
  BY DEF TypeOK, Answer, SearchFails, rootVars
<1>2. Gathering'
  BY SearchLeavesRoot DEF Answer, SearchFails, TypeOK
<1>3. EnoughSources'
  BY LinksAssumption DEF EnoughSources, OnePerURL, TypeOK, Answer, SearchFails, Enough
<1> QED
  BY <1>1, <1>2, <1>3

(* The aggregating agent begins when every answer is there.                *)
LEMMA BeginSound ==
  ASSUME IInv, DependencyFailed \/ Generate
  PROVE  IInv'
<1> USE DEF IInv
<1>1. TypeOK'
  BY DEF TypeOK, DependencyFailed, Generate, searchVars
<1>2. VerifiedIn(Dependencies \ unvisited)' = VerifiedIn(Dependencies \ unvisited)
  BY DEF VerifiedIn, DependencyFailed, Generate, searchVars
<1>3. Gathering'
  BY <1>2 DEF Gathering, TypeOK, Complete, Known, OnePerURL, DependencyFailed, Generate,
                   searchVars
<1>4. EnoughSources'
  BY DEF EnoughSources, OnePerURL, DependencyFailed, Generate, searchVars
<1> QED
  BY <1>1, <1>3, <1>4

(* A result that is visited is unread as a whole.                          *)
LEMMA VisitSound ==
  ASSUME IInv, NEW d \in Dependencies, Visit(d)
  PROVE  IInv'
<1> USE DEF IInv
<1>1. TypeOK'
  BY DEF TypeOK, Visit, searchVars
<1>2. Dependencies \ unvisited' = (Dependencies \ unvisited) \cup {d}
  BY DEF Visit, TypeOK
<1>3. VerifiedIn(Dependencies \ unvisited) \subseteq VerifiedIn(Dependencies \ unvisited)'
  BY <1>2 DEF VerifiedIn, Visit, searchVars
<1>4. \A l \in VerifiedIn(Dependencies \ unvisited)' :
        \/ l \in VerifiedIn(Dependencies \ unvisited)
        \/ \E k \in unread' : Verified(k) /\ RootSource[k] = l
  BY <1>2 DEF VerifiedIn, Visit, searchVars
<1>5. \A l \in VerifiedIn(Dependencies \ unvisited) : Known(cited, l)
  BY DEF Gathering, Visit
<1>6. \A l \in unread' : \E e \in Dependencies \ unvisited' : l \in sources'[e]
  BY <1>2 DEF Visit, searchVars
<1>7. Gathering'
  BY <1>3, <1>4, <1>5, <1>6 DEF Gathering, TypeOK, Complete, Known, OnePerURL, Visit, searchVars
<1>8. EnoughSources'
  BY DEF EnoughSources, OnePerURL, Visit, searchVars
<1> QED
  BY <1>1, <1>7, <1>8

(* A link that is read is cited, unless it is not verified or its URL is   *)
(* known; the cap is not passed, for it was not reached.                   *)
LEMMA CiteSound ==
  ASSUME IInv, NEW link \in unread, Cite(link)
  PROVE  IInv'
<1> USE DEF IInv
<1> DEFINE source == RootSource[link]
<1>1. /\ Verified(link) => source \in Links
      /\ \/ cited' = cited /\ (Verified(link) => Known(cited, source))
         \/ cited' = cited \cup {source} /\ Verified(link) /\ ~Known(cited, source)
  BY LinksAssumption DEF Cite, Verified
<1>2. Verified(link) => source \in VerifiedIn(Dependencies \ unvisited)
  BY DEF Gathering, VerifiedIn
<1>3. Verified(link) => Known(cited', source)
  BY <1>1 DEF Known
<1>4. unread' = unread \ {link} /\ UNCHANGED <<found, position, sources, answer, phase, unvisited>>
      /\ phase = "citing" /\ ~Complete
  BY DEF Cite, searchVars
<1>5. OnePerURL(cited')
  BY <1>1, AnotherURL DEF Gathering
<1>6. TypeOK'
  BY <1>1, <1>4 DEF TypeOK
<1>7. Cardinality(cited') <= MaximumSourceCount
  <2>1. Cardinality(cited) \in Nat /\ Cardinality(cited') \in Nat
    BY <1>6, LinkSets DEF TypeOK
  <2>2. Cardinality(cited) < MaximumSourceCount
    BY <1>4, <2>1, CapsAssumption DEF Gathering, Complete
  <2>3. CASE cited' = cited
    BY <2>1, <2>2, <2>3, CapsAssumption
  <2>4. CASE cited' = cited \cup {source} /\ Verified(link)
    <3>1. Cardinality(cited \cup {source}) <= Cardinality(cited) + 1
      BY <1>1, <2>4, LinkSets DEF TypeOK
    <3>2. Cardinality(cited') <= Cardinality(cited) + 1
      BY <2>4, <3>1
    <3> QED
      BY <2>1, <2>2, <3>2, CapsAssumption
  <2> QED
    BY <1>1, <2>3, <2>4
<1>8. VerifiedIn(Dependencies \ unvisited)' = VerifiedIn(Dependencies \ unvisited)
  BY <1>4 DEF VerifiedIn
<1>9. cited' \subseteq VerifiedIn(Dependencies \ unvisited)
  BY <1>1, <1>2 DEF Gathering
<1>10. \A l \in VerifiedIn(Dependencies \ unvisited) :
         Known(cited', l) \/ \E k \in unread' : Verified(k) /\ RootSource[k] = l
  <2>1. \A l \in VerifiedIn(Dependencies \ unvisited) :
          Known(cited, l) \/ \E k \in unread : Verified(k) /\ RootSource[k] = l
    BY <1>4 DEF Gathering
  <2>2. \A l : Known(cited, l) => Known(cited', l)
    BY <1>1 DEF Known
  <2> HIDE DEF source
  <2>3. ASSUME NEW k \in unread, Verified(k), k \notin unread' PROVE Known(cited', RootSource[k])
    BY <1>3, <1>4, <2>3 DEF source
  <2> QED
    BY <2>1, <2>2, <2>3
<1>11. \A e \in Dependencies : answer[e] = "answered"
  BY <1>4 DEF Gathering
<1>12. \A l \in unread' : \E e \in Dependencies \ unvisited' : l \in sources'[e]
  BY <1>4 DEF Gathering
<1> HIDE DEF source
<1>13. Gathering'
  <2>1. OnePerURL(cited)'
    BY <1>5 DEF OnePerURL
  <2>2. (\A l \in VerifiedIn(Dependencies \ unvisited) :
           Known(cited, l) \/ \E k \in unread : Verified(k) /\ RootSource[k] = l)'
    BY <1>8, <1>10 DEF Known, Verified
  <2>3. (cited \subseteq VerifiedIn(Dependencies \ unvisited))'
    BY <1>8, <1>9
  <2> QED
    BY <1>4, <1>7, <1>11, <1>12, <2>1, <2>2, <2>3 DEF Gathering
<1>14. EnoughSources'
  BY <1>4 DEF EnoughSources, OnePerURL
<1> QED
  BY <1>6, <1>13, <1>14

(* The end of the loops is the end of the results, or the cap.             *)
LEMMA ConcludeSound ==
  ASSUME IInv, Conclude
  PROVE  IInv'
<1> USE DEF IInv
<1>1. TypeOK'
  BY DEF TypeOK, Conclude, searchVars
<1>2. Cardinality(cited) \in Nat
  BY LinkSets DEF TypeOK
<1>3. VerifiedIn(Dependencies \ unvisited)' = VerifiedIn(Dependencies \ unvisited)
  BY DEF VerifiedIn, Conclude, searchVars
<1>4. phase' \in {"answered", "refused", "failed"}
  BY DEF Conclude
<1>5. phase' \in {"answered", "refused"} =>
        (phase' = "answered" <=> Cardinality(cited) >= MinimumSources)
  BY <1>2, CapsAssumption DEF Conclude
<1>6. \A e \in Dependencies : answer[e] = "answered"
  BY DEF Gathering, Conclude
<1>7. Complete \/ (unvisited = {} /\ unread = {})
  BY DEF Conclude
<1>8. UNCHANGED <<searchVars, unvisited, unread, cited>>
  BY DEF Conclude
<1>9. Gathering'
  BY <1>3, <1>4, <1>5, <1>6, <1>7, <1>8 DEF Gathering, Complete, Known, OnePerURL, searchVars
<1>10. EnoughSources'
  BY <1>8 DEF EnoughSources, OnePerURL, searchVars
<1> QED
  BY <1>1, <1>9, <1>10

(* The inductive invariant of the two layers of source collection.         *)
THEOREM SourcesInvariance == Spec => []IInv
<1>1. IInv /\ [Next]_vars => IInv'
  <2> SUFFICES ASSUME IInv, [Next]_vars PROVE IInv'
    OBVIOUS
  <2>1. ASSUME NEW d \in Dependencies, Collect(d) PROVE IInv'
    BY <2>1, CollectSound
  <2>2. ASSUME NEW d \in Dependencies, Answer(d) \/ SearchFails(d) PROVE IInv'
    BY <2>2, AnswerSound
  <2>3. ASSUME NEW d \in Dependencies, Visit(d) PROVE IInv'
    BY <2>3, VisitSound
  <2>4. CASE DependencyFailed \/ Generate
    BY <2>4, BeginSound
  <2>5. CASE Conclude
    BY <2>5, ConcludeSound
  <2>6. ASSUME NEW link \in unread, Cite(link) PROVE IInv'
    BY <2>6, CiteSound
  <2>7. CASE UNCHANGED vars
    <3>1. TypeOK' /\ EnoughSources'
      BY <2>7 DEF vars, IInv, TypeOK, EnoughSources, OnePerURL
    <3>2. VerifiedIn(Dependencies \ unvisited)' = VerifiedIn(Dependencies \ unvisited)
      BY <2>7 DEF vars, VerifiedIn
    <3>3. Gathering'
      BY <2>7, <3>2 DEF vars, IInv, Gathering, Complete, Known, OnePerURL, Verified
    <3> QED
      BY <3>1, <3>3 DEF IInv
  <2> QED
    BY <2>1, <2>2, <2>3, <2>4, <2>5, <2>6, <2>7 DEF Next
<1> QED
  BY <1>1, InitiallyGathering, PTL DEF Spec

(* Type correctness.                                                       *)
THEOREM SourcesTypeCorrect == Spec => []TypeOK
<1>1. IInv => TypeOK
  BY DEF IInv
<1> QED
  BY <1>1, SourcesInvariance, PTL

(* Whatever was cited, and every URL when the loops ended below the cap,   *)
(* is of the verified sources.                                             *)
LEMMA CitedURLs ==
  ASSUME IInv
  PROVE  /\ VerifiedIn(Dependencies) \in SUBSET Links /\ cited \subseteq VerifiedIn(Dependencies)
         /\ Cardinality(cited) \in Nat /\ Cardinality(URLsOf(cited)) = Cardinality(cited)
         /\ Cardinality(URLsOf(VerifiedIn(Dependencies))) \in Nat
         /\ Cardinality(cited) <= Cardinality(URLsOf(VerifiedIn(Dependencies)))
         /\ phase \in {"answered", "refused"} /\ ~Complete
              => URLsOf(VerifiedIn(Dependencies)) = URLsOf(cited)
<1> USE DEF IInv
<1>1. VerifiedIn(Dependencies) \in SUBSET Links
  BY LinksAssumption DEF TypeOK, VerifiedIn, Verified
<1>2. cited \subseteq VerifiedIn(Dependencies) /\ cited \in SUBSET Links
  BY DEF Gathering, VerifiedIn, TypeOK
<1>3. URLsOf(cited) \subseteq URLsOf(VerifiedIn(Dependencies))
  BY <1>2 DEF URLsOf
<1>4. /\ Cardinality(cited) \in Nat /\ Cardinality(URLsOf(cited)) = Cardinality(cited)
      /\ Cardinality(URLsOf(VerifiedIn(Dependencies))) \in Nat
  BY <1>1, <1>2, LinkSets, URLCounts DEF Gathering
<1>5. Cardinality(cited) <= Cardinality(URLsOf(VerifiedIn(Dependencies)))
  BY <1>1, <1>2, <1>3, <1>4, MoreURLs
<1>6. ASSUME phase \in {"answered", "refused"}, ~Complete
      PROVE  URLsOf(VerifiedIn(Dependencies)) = URLsOf(cited)
  <2>1. unvisited = {} /\ unread = {}
    BY <1>6 DEF Gathering
  <2>2. \A l \in VerifiedIn(Dependencies \ unvisited) : Known(cited, l)
    BY <1>6, <2>1 DEF Gathering
  <2>3. Dependencies \ unvisited = Dependencies
    BY <2>1
  <2>4. \A l \in VerifiedIn(Dependencies) : \E k \in cited : URLOf[k] = URLOf[l]
    BY <2>2, <2>3 DEF Known
  <2> QED
    BY <1>3, <2>4 DEF URLsOf
<1> QED
  BY <1>1, <1>2, <1>4, <1>5, <1>6

(* The random order of the results does not decide whether the aggregating *)
(* agent answers.                                                          *)
THEOREM OrderDoesNotDecideTheorem == Spec => []OrderDoesNotDecide
<1>1. IInv => OrderDoesNotDecide
  <2> DEFINE all == Cardinality(URLsOf(VerifiedIn(Dependencies)))
  <2> SUFFICES ASSUME IInv, phase \in {"answered", "refused"}
               PROVE  phase = "answered" <=> all >= MinimumSources
    <3>1. IInv => all \in Nat
      BY CitedURLs
    <3> QED
      BY <3>1, CapsAssumption DEF OrderDoesNotDecide
  <2>1. all \in Nat /\ Cardinality(cited) \in Nat /\ Cardinality(cited) <= all
        /\ (~Complete => all = Cardinality(cited))
    BY CitedURLs
  <2>2. phase = "answered" <=> Cardinality(cited) >= MinimumSources
    BY DEF IInv, Gathering
  <2> QED
    BY <2>1, <2>2, CapsAssumption DEF Complete
<1> QED
  BY <1>1, SourcesInvariance, PTL

(* What is cited was verified, and its number is within the bounds.        *)
THEOREM CitationsAreVerifiedTheorem == Spec => []CitationsAreVerified
<1>1. IInv => CitationsAreVerified
  <2> SUFFICES ASSUME IInv PROVE CitationsAreVerified
    OBVIOUS
  <2>1. Cardinality(cited) \in Nat
    BY LinkSets DEF IInv, TypeOK
  <2>2. phase = "answered" => Cardinality(cited) \in MinimumSources..MaximumSourceCount
    BY <2>1, CapsAssumption DEF IInv, Gathering
  <2> QED
    BY <2>2 DEF IInv, Gathering, CitationsAreVerified
<1> QED
  BY <1>1, SourcesInvariance, PTL

(* One specialist with verified sources saves the answer.                  *)
THEOREM OneSpecialistSufficesTheorem == Spec => []OneSpecialistSuffices
<1>1. IInv => OneSpecialistSuffices
  <2> SUFFICES ASSUME IInv, phase = "refused",
                      NEW d \in Specialists, \A l \in sources[d] : Verified(l)
               PROVE  FALSE
    BY DEF OneSpecialistSuffices
  <2> USE DEF IInv
  <2>1. d \in Dependencies
    BY LinksAssumption
  <2>2. Cardinality(cited) \in Nat /\ Cardinality(cited) < MinimumSources
    BY LinkSets, CapsAssumption DEF TypeOK, Gathering
  <2>3. ~Complete
    BY <2>2, CapsAssumption DEF Complete
  <2>4. URLsOf(VerifiedIn(Dependencies)) = URLsOf(cited)
    BY <2>3, CitedURLs
  <2>5. URLsOf(sources[d]) \subseteq URLsOf(VerifiedIn(Dependencies))
    <3> SUFFICES ASSUME NEW k \in sources[d] PROVE URLOf[k] \in URLsOf(VerifiedIn(Dependencies))
      BY DEF URLsOf
    <3>1. PICK l \in DOMAIN ClientSource : k = ClientSource[l]
      BY DEF EnoughSources
    <3>2. URLOf[RootSource[k]] = URLOf[k]
      BY <3>1, RewritingAssumption DEF Verified
    <3>3. RootSource[k] \in VerifiedIn(Dependencies)
      BY <2>1 DEF VerifiedIn
    <3> QED
      BY <3>2, <3>3 DEF URLsOf
  <2>6. /\ sources[d] \in SUBSET Links /\ cited \in SUBSET Links /\ Cardinality(sources[d]) \in Nat
        /\ Cardinality(URLsOf(sources[d])) = Cardinality(sources[d])
    BY <2>1, LinkSets, URLCounts DEF TypeOK, EnoughSources
  <2>7. Cardinality(sources[d]) <= Cardinality(cited)
    BY <2>4, <2>5, <2>6, MoreURLs, CitedURLs
  <2>8. Cardinality(sources[d]) >= MinimumSources
    BY <2>1 DEF Gathering, EnoughSources
  <2> QED
    BY <2>2, <2>6, <2>7, <2>8, CapsAssumption
<1> QED
  BY <1>1, SourcesInvariance, PTL

------------------------------------------------------------------------------
(* Fixture agents                                                          *)

(* The first of two positions where lists of one set in strict order       *)
(* differ would have to be filled twice.                                   *)
LEMMA OneIsWithin ==
  ASSUME NEW s \in Seq(Nat), NEW t \in Seq(Nat), Range(s) = Range(t),
         \A m, n \in DOMAIN s : m < n => s[m] < s[n],
         \A m, n \in DOMAIN t : m < n => t[m] < t[n]
  PROVE  \A n \in DOMAIN s : n \in DOMAIN t /\ s[n] = t[n]
<1> DEFINE T == {n \in DOMAIN s : ~(n \in DOMAIN t /\ s[n] = t[n])}
<1>1. /\ DOMAIN s \subseteq Nat /\ DOMAIN t \subseteq Nat
      /\ Len(s) \in Nat /\ DOMAIN s = 1..Len(s) /\ Len(t) \in Nat /\ DOMAIN t = 1..Len(t)
      /\ \A n \in DOMAIN s : s[n] \in Nat
      /\ \A n \in DOMAIN t : t[n] \in Nat
  BY LenProperties, ElementOfSeq
<1>2. SUFFICES ASSUME T # {} PROVE FALSE
  OBVIOUS
<1>3. PICK n \in T : \A m \in T : ~(m < n)
  <2> DEFINE R == OpToRel(<, Nat)
  <2>1. IsWellFoundedOn(R, Nat)
    BY NatLessThanWellFounded
  <2>2. T \subseteq Nat
    BY <1>1
  <2> HIDE DEF R, T
  <2>3. PICK n \in T : \A m \in T : ~(<<m, n>> \in R)
    BY <1>2, <2>1, <2>2, WFMin
  <2>4. \A m \in T : m < n => <<m, n>> \in R
    BY <2>2 DEF R, OpToRel
  <2> QED
    BY <2>3, <2>4
<1>4. \A m \in DOMAIN s : m < n => m \in DOMAIN t /\ s[m] = t[m]
  BY <1>3
<1>5. PICK k \in DOMAIN t : t[k] = s[n]
  <2>1. s[n] \in Range(t)
    BY <1>3 DEF Range
  <2> QED
    BY <2>1 DEF Range
<1>6. n \in DOMAIN s /\ n \in Nat /\ k \in Nat
  BY <1>1, <1>3, <1>5
<1>7. ~(k < n)
  <2>1. SUFFICES ASSUME k < n PROVE FALSE
    OBVIOUS
  <2>2. k \in DOMAIN s
    BY <1>1, <1>5, <1>6, <2>1
  <2> QED
    BY <1>1, <1>4, <1>5, <1>6, <2>1, <2>2
<1>8. k # n
  BY <1>3, <1>5
<1>9. n < k /\ n \in DOMAIN t
  BY <1>1, <1>5, <1>6, <1>7, <1>8
<1>10. t[n] < s[n]
  BY <1>5, <1>9
<1>11. PICK l \in DOMAIN s : s[l] = t[n]
  <2>1. t[n] \in Range(s)
    BY <1>9 DEF Range
  <2> QED
    BY <2>1 DEF Range
<1>12. CASE l < n
  <2>1. l \in DOMAIN t /\ t[l] = t[n]
    BY <1>4, <1>11, <1>12
  <2>2. t[l] < t[n]
    BY <1>9, <1>12, <2>1
  <2> QED
    BY <1>1, <1>9, <2>1, <2>2
<1>13. CASE l = n
  BY <1>1, <1>6, <1>10, <1>11, <1>13
<1>14. CASE n < l
  BY <1>1, <1>6, <1>10, <1>11, <1>14
<1> QED
  BY <1>1, <1>6, <1>11, <1>12, <1>13, <1>14

(* Lists of one set of codes, each with every code once and in order, are  *)
(* the same list.                                                          *)
LEMMA OneOrder ==
  ASSUME NEW s \in Seq(Nat), NEW t \in Seq(Nat), Range(s) = Range(t),
         InOrder(s), InOrder(t),
         \A m, n \in DOMAIN s : s[m] = s[n] => m = n,
         \A m, n \in DOMAIN t : t[m] = t[n] => m = n
  PROVE  s = t
<1>1. /\ Len(s) \in Nat /\ DOMAIN s = 1..Len(s) /\ Len(t) \in Nat /\ DOMAIN t = 1..Len(t)
      /\ \A n \in DOMAIN s : s[n] \in Nat
      /\ \A n \in DOMAIN t : t[n] \in Nat
  BY LenProperties, ElementOfSeq
<1>2. \A m, n \in DOMAIN s : m < n => s[m] < s[n]
  BY <1>1 DEF InOrder
<1>3. \A m, n \in DOMAIN t : m < n => t[m] < t[n]
  BY <1>1 DEF InOrder
<1>4. \A n \in DOMAIN s : n \in DOMAIN t /\ s[n] = t[n]
  BY <1>2, <1>3, OneIsWithin
<1>5. \A n \in DOMAIN t : n \in DOMAIN s
  BY <1>2, <1>3, OneIsWithin
<1>6. Len(s) = Len(t)
  <2>1. ~(Len(t) < Len(s))
    <3>1. SUFFICES ASSUME Len(t) < Len(s) PROVE FALSE
      OBVIOUS
    <3>2. Len(s) \in DOMAIN s
      BY <1>1, <3>1
    <3>3. Len(s) \in 1..Len(t)
      BY <1>1, <1>4, <3>2
    <3> QED
      BY <1>1, <3>1, <3>3
  <2>2. ~(Len(s) < Len(t))
    <3>1. SUFFICES ASSUME Len(s) < Len(t) PROVE FALSE
      OBVIOUS
    <3>2. Len(t) \in DOMAIN t
      BY <1>1, <3>1
    <3>3. Len(t) \in 1..Len(s)
      BY <1>1, <1>5, <3>2
    <3> QED
      BY <1>1, <3>1, <3>3
  <2>3. Len(s) \in Nat /\ Len(t) \in Nat
    BY <1>1
  <2> QED
    BY <2>1, <2>2, <2>3
<1>7. \A n \in 1..Len(s) : s[n] = t[n]
  BY <1>1, <1>4
<1> QED
  BY <1>6, <1>7, SeqEqual

LEMMA InitialMap == <<>> \in Maps
<1>1. <<>> \in Seq(Results) /\ Len(<<>>) = 0
  BY EmptySeq
<1>2. <<>> \in [1..0 -> Results]
  BY <1>1, LenProperties
<1>3. 1..0 = {}
  OBVIOUS
<1>4. <<>> \in [{} -> Results]
  BY <1>2, <1>3
<1> QED
  BY <1>4 DEF Maps

LEMMA InitiallyFixture == FixtureInit => FixtureIInv
<1>1. SUFFICES ASSUME FixtureInit PROVE FixtureIInv
  OBVIOUS
<1>2. <<>> \in Maps
  BY InitialMap
<1>3. <<>> \in Seq(Codes) /\ <<>> \in Seq([code : Codes, summary : Summaries])
  BY EmptySeq
<1>4. FixtureTypeOK
  BY <1>1, <1>2, <1>3 DEF FixtureInit, FixtureTypeOK
<1>5. DOMAIN <<>> = {}
  OBVIOUS
<1>6. ASSUME NEW i \in Invocations PROVE FixtureProgress(i)
  <2>1. status[i] = "invoked" /\ results[i] = <<>> /\ codes[i] = <<>> /\ lines[i] = <<>>
    BY <1>1 DEF FixtureInit
  <2>2. ~Quotes(i)
    BY <1>5, <2>1 DEF Quotes
  <2> QED
    BY <1>5, <2>1, <2>2 DEF FixtureProgress, Untouched
<1> QED
  BY <1>4, <1>6 DEF FixtureIInv

(* What a step of one invocation leaves alone keeps its progress.          *)
LEMMA OthersKeepProgress ==
  ASSUME FixtureIInv, NEW i \in Invocations, UNCHANGED request,
         results'[i] = results[i], remaining'[i] = remaining[i], codes'[i] = codes[i],
         lines'[i] = lines[i], status'[i] = status[i]
  PROVE  FixtureProgress(i)'
<1>1. FixtureProgress(i)
  BY DEF FixtureIInv
<1>2. definition' = definition /\ runtime' = runtime
  BY DEF request
<1>3. Quotes(i)' = Quotes(i) /\ Resolves(i)' = Resolves(i)
  BY <1>2 DEF Quotes, Resolves
<1>4. Collected(i)' = Collected(i) /\ Untouched(i)' = Untouched(i)
      /\ LinesFollow(i)' = LinesFollow(i) /\ Written(i)' = Written(i)
  BY DEF Collected, Untouched, LinesFollow, Written
<1> QED
  BY <1>1, <1>3, <1>4 DEF FixtureProgress

(* A step of one invocation is a step of no other.                         *)
LEMMA OneAgentMoves ==
  ASSUME FixtureIInv, NEW i \in Invocations, Agent(i), FixtureTypeOK', FixtureProgress(i)'
  PROVE  FixtureIInv'
<1>1. FixtureTypeOK
  BY DEF FixtureIInv
<1>2. ASSUME NEW j \in Invocations, j # i PROVE FixtureProgress(j)'
  <2>1. UNCHANGED request
    BY DEF Agent, Resolve, ResolveFails, ReturnFixture, RangeOver, Sort, Write, ReturnMarkdown
  <2>2. /\ results'[j] = results[j] /\ remaining'[j] = remaining[j] /\ codes'[j] = codes[j]
        /\ lines'[j] = lines[j] /\ status'[j] = status[j]
    BY <1>1, <1>2 DEF Agent, Resolve, ResolveFails, ReturnFixture, RangeOver, Sort, Write,
                      ReturnMarkdown, Begin, Move, FixtureTypeOK
  <2> QED
    BY <2>1, <2>2, OthersKeepProgress
<1> QED
  BY <1>2 DEF FixtureIInv

LEMMA BeginsSound ==
  ASSUME FixtureIInv, NEW i \in Invocations, Resolve(i)
  PROVE  FixtureTypeOK' /\ FixtureProgress(i)'
<1>1. FixtureTypeOK /\ FixtureProgress(i)
  BY DEF FixtureIInv
<1>2. status[i] = "invoked" /\ Untouched(i) /\ DOMAIN results[i] = {} /\ results[i] \in Maps
  BY <1>1 DEF Resolve, FixtureProgress, FixtureTypeOK
<1>3. PICK resolved \in (IF Resolves(i) THEN Maps ELSE {<<>>}) : Begin(i, resolved)
  BY DEF Resolve
<1>4. DOMAIN <<>> = {}
  OBVIOUS
<1>5. resolved \in Maps /\ (~Resolves(i) => DOMAIN resolved = {})
  <2>1. CASE Resolves(i)
    BY <1>3, <2>1
  <2>2. CASE ~Resolves(i)
    <3>1. resolved = <<>>
      BY <1>3, <2>2
    <3>2. <<>> \in Maps
      BY InitialMap
    <3> QED
      BY <1>4, <2>2, <3>1, <3>2
  <2> QED
    BY <2>1, <2>2
<1>6. DOMAIN resolved \in SUBSET Codes
  BY <1>5 DEF Maps
<1>7. /\ results' = [results EXCEPT ![i] = resolved]
      /\ remaining' = [remaining EXCEPT ![i] = DOMAIN resolved]
      /\ codes' = codes /\ lines' = lines /\ definition' = definition /\ runtime' = runtime
      /\ status' = [status EXCEPT ![i] = "resolved"]
  BY <1>3 DEF Begin, Resolve, Move, request
<1>8. FixtureTypeOK'
  BY <1>1, <1>5, <1>6, <1>7 DEF FixtureTypeOK
<1>9. /\ results'[i] = resolved /\ remaining'[i] = DOMAIN resolved
      /\ codes'[i] = <<>> /\ lines'[i] = <<>> /\ status'[i] = "resolved"
  BY <1>1, <1>2, <1>7 DEF FixtureTypeOK, Untouched
<1>10. Resolves(i)' = Resolves(i)
  BY <1>7 DEF Resolves
<1>11. Collected(i)' /\ Untouched(i)'
  <2>1. Range(<<>>) = {}
    BY <1>4 DEF Range
  <2> QED
    BY <1>4, <1>9, <2>1 DEF Collected, Untouched
<1> QED
  BY <1>5, <1>8, <1>9, <1>10, <1>11 DEF FixtureProgress

(* Steps that only move on.                                                *)
LEMMA ReturnsSound ==
  ASSUME FixtureIInv, NEW i \in Invocations,
         ResolveFails(i) \/ ReturnFixture(i) \/ ReturnMarkdown(i)
  PROVE  FixtureTypeOK' /\ FixtureProgress(i)'
<1>1. FixtureTypeOK /\ FixtureProgress(i)
  BY DEF FixtureIInv
<1>2. /\ results' = results /\ remaining' = remaining /\ codes' = codes /\ lines' = lines
      /\ definition' = definition /\ runtime' = runtime
      /\ \/ status[i] = "invoked" /\ status' = [status EXCEPT ![i] = "failed"]
         \/ status[i] = "resolved" /\ ~Quotes(i) /\ status' = [status EXCEPT ![i] = "answered"]
         \/ status[i] = "sorted" /\ Written(i) /\ status' = [status EXCEPT ![i] = "answered"]
  BY DEF ResolveFails, ReturnFixture, ReturnMarkdown, Move, request
<1>3. FixtureTypeOK'
  BY <1>1, <1>2 DEF FixtureTypeOK
<1>4. Quotes(i)' = Quotes(i) /\ Resolves(i)' = Resolves(i)
      /\ Collected(i)' = Collected(i) /\ Untouched(i)' = Untouched(i)
      /\ LinesFollow(i)' = LinesFollow(i) /\ Written(i)' = Written(i)
  BY <1>2 DEF Quotes, Resolves, Collected, Untouched, LinesFollow, Written
<1>5. \/ status[i] = "invoked" /\ status'[i] = "failed"
      \/ status[i] = "resolved" /\ ~Quotes(i) /\ status'[i] = "answered"
      \/ status[i] = "sorted" /\ Written(i) /\ status'[i] = "answered"
  BY <1>1, <1>2 DEF FixtureTypeOK
<1> QED
  BY <1>1, <1>2, <1>3, <1>4, <1>5 DEF FixtureProgress

LEMMA RangeOverSound ==
  ASSUME FixtureIInv, NEW i \in Invocations, RangeOver(i)
  PROVE  FixtureTypeOK' /\ FixtureProgress(i)'
<1>1. FixtureTypeOK /\ FixtureProgress(i)
  BY DEF FixtureIInv
<1>2. PICK code \in remaining[i] :
        /\ codes' = [codes EXCEPT ![i] = Append(@, code)]
        /\ remaining' = [remaining EXCEPT ![i] = @ \ {code}]
  BY DEF RangeOver
<1>3. /\ status[i] = "resolved" /\ Quotes(i) /\ Collected(i) /\ lines[i] = <<>>
      /\ results' = results /\ lines' = lines /\ status' = status
      /\ definition' = definition /\ runtime' = runtime
  BY <1>1 DEF RangeOver, request, FixtureProgress
<1>4. code \in Codes /\ codes[i] \in Seq(Codes) /\ Append(codes[i], code) \in Seq(Codes)
      /\ remaining[i] \ {code} \in SUBSET Codes
  BY <1>1 DEF FixtureTypeOK
<1>5. FixtureTypeOK'
  BY <1>1, <1>2, <1>3, <1>4 DEF FixtureTypeOK
<1>6. codes'[i] = Append(codes[i], code) /\ remaining'[i] = remaining[i] \ {code}
  BY <1>1, <1>2 DEF FixtureTypeOK
<1>7. Collected(i)'
  <2> DEFINE old == codes[i]
             new == codes'[i]
  <2>1. /\ Len(old) \in Nat /\ DOMAIN old = 1..Len(old)
        /\ DOMAIN new = 1..(Len(old) + 1) /\ new[Len(old) + 1] = code
        /\ \A n \in DOMAIN old : new[n] = old[n]
    BY <1>4, <1>6
  <2>2. DOMAIN new = DOMAIN old \cup {Len(old) + 1} /\ Len(old) + 1 \notin DOMAIN old
    BY <2>1
  <2>3. remaining[i] \subseteq DOMAIN results[i]
        /\ Range(old) = DOMAIN results[i] \ remaining[i]
        /\ \A m, n \in DOMAIN old : old[m] = old[n] => m = n
    BY <1>3 DEF Collected
  <2> HIDE DEF old, new
  <2>4. Range(new) = Range(old) \cup {code}
    BY <2>1, <2>2 DEF Range
  <2>5. Range(new) = DOMAIN results[i] \ (remaining[i] \ {code})
    BY <1>2, <2>3, <2>4
  <2>6. \A n \in DOMAIN old : old[n] # code
    BY <1>2, <2>3 DEF Range
  <2>7. \A m, n \in DOMAIN new : new[m] = new[n] => m = n
    BY <2>1, <2>2, <2>3, <2>6
  <2> QED
    BY <1>3, <1>6, <2>3, <2>5, <2>7 DEF Collected, new
<1>8. Quotes(i)' /\ Resolves(i)' = Resolves(i)
  BY <1>3 DEF Quotes, Resolves
<1> QED
  BY <1>1, <1>3, <1>5, <1>7, <1>8 DEF FixtureProgress

(* An arrangement has the elements of the list, each as often.             *)
LEMMA ArrangementProperties ==
  ASSUME NEW S, NEW list \in Seq(S), NEW other \in Arrangements(list)
  PROVE  /\ other \in Seq(S) /\ Len(other) = Len(list) /\ Range(other) = Range(list)
         /\ (\A m, n \in DOMAIN list : list[m] = list[n] => m = n)
              => \A m, n \in DOMAIN other : other[m] = other[n] => m = n
<1>1. PICK order \in Bijection(DOMAIN list, DOMAIN list) :
        other = [n \in DOMAIN list |-> list[order[n]]]
  BY DEF Arrangements
<1>2. /\ order \in [DOMAIN list -> DOMAIN list]
      /\ \A m, n \in DOMAIN list : order[m] = order[n] => m = n
      /\ \A k \in DOMAIN list : \E n \in DOMAIN list : order[n] = k
  BY <1>1 DEF Bijection, Injection, Surjection, IsInjective
<1>3. Len(list) \in Nat /\ DOMAIN list = 1..Len(list) /\ \A n \in DOMAIN list : list[n] \in S
  BY LenProperties, ElementOfSeq
<1>4. other \in [1..Len(list) -> S]
  BY <1>1, <1>2, <1>3
<1>5. other \in Seq(S) /\ Len(other) = Len(list)
  BY <1>3, <1>4
<1>6. DOMAIN other = DOMAIN list /\ \A n \in DOMAIN list : other[n] = list[order[n]]
  BY <1>1
<1>7. Range(other) = Range(list)
  BY <1>2, <1>6 DEF Range
<1> QED
  BY <1>2, <1>5, <1>6, <1>7

LEMMA SortSound ==
  ASSUME FixtureIInv, NEW i \in Invocations, Sort(i)
  PROVE  FixtureTypeOK' /\ FixtureProgress(i)'
<1>1. FixtureTypeOK /\ FixtureProgress(i)
  BY DEF FixtureIInv
<1>2. PICK sorted \in Sorted(codes[i]) : codes' = [codes EXCEPT ![i] = sorted]
  BY DEF Sort
<1>3. /\ status[i] = "resolved" /\ Quotes(i) /\ Collected(i) /\ lines[i] = <<>>
      /\ remaining[i] = {}
      /\ results' = results /\ lines' = lines /\ remaining' = remaining
      /\ status' = [status EXCEPT ![i] = "sorted"]
      /\ definition' = definition /\ runtime' = runtime
  BY <1>1 DEF Sort, Move, request, FixtureProgress
<1>4. codes[i] \in Seq(Codes) /\ sorted \in Arrangements(codes[i]) /\ InOrder(sorted)
  BY <1>1, <1>2 DEF FixtureTypeOK, Sorted
<1>5. /\ sorted \in Seq(Codes) /\ Len(sorted) = Len(codes[i]) /\ Range(sorted) = Range(codes[i])
      /\ \A m, n \in DOMAIN sorted : sorted[m] = sorted[n] => m = n
  BY <1>3, <1>4, ArrangementProperties DEF Collected
<1>6. FixtureTypeOK'
  BY <1>1, <1>2, <1>3, <1>5 DEF FixtureTypeOK
<1>7. codes'[i] = sorted /\ status'[i] = "sorted"
  BY <1>1, <1>2, <1>3 DEF FixtureTypeOK
<1>8. Collected(i)'
  BY <1>3, <1>5, <1>7 DEF Collected
<1>9. LinesFollow(i)'
  <2>1. Len(<<>>) = 0 /\ DOMAIN <<>> = {} /\ Len(sorted) \in Nat
    BY <1>5
  <2> QED
    BY <1>3, <1>7, <2>1 DEF LinesFollow
<1>10. Quotes(i)' /\ Resolves(i)' = Resolves(i) /\ InOrder(codes[i])' /\ remaining'[i] = {}
  BY <1>3, <1>4, <1>7 DEF Quotes, Resolves, InOrder
<1> QED
  BY <1>1, <1>3, <1>6, <1>7, <1>8, <1>9, <1>10 DEF FixtureProgress

LEMMA WriteSound ==
  ASSUME FixtureIInv, NEW i \in Invocations, Write(i)
  PROVE  FixtureTypeOK' /\ FixtureProgress(i)'
<1> DEFINE next == Len(lines[i]) + 1
           line == [code |-> codes[i][next], summary |-> Summary(results[i][codes[i][next]])]
<1>1. FixtureTypeOK /\ FixtureProgress(i)
  BY DEF FixtureIInv
<1>2. /\ status[i] = "sorted" /\ Quotes(i) /\ Collected(i) /\ remaining[i] = {}
      /\ InOrder(codes[i]) /\ LinesFollow(i) /\ Len(lines[i]) # Len(codes[i])
      /\ results' = results /\ remaining' = remaining /\ codes' = codes
      /\ status' = status /\ definition' = definition /\ runtime' = runtime
      /\ lines' = [lines EXCEPT ![i] = Append(@, line)]
  BY <1>1 DEF Write, request, FixtureProgress, Written
<1>3. /\ codes[i] \in Seq(Codes) /\ lines[i] \in Seq([code : Codes, summary : Summaries])
      /\ Len(codes[i]) \in Nat /\ Len(lines[i]) \in Nat
      /\ DOMAIN codes[i] = 1..Len(codes[i])
  BY <1>1, LenProperties DEF FixtureTypeOK
<1>4. next \in 1..Len(codes[i])
  BY <1>2, <1>3 DEF LinesFollow
<1>5. line \in [code : Codes, summary : Summaries]
  <2>1. codes[i][next] \in Codes
    BY <1>3, <1>4
  <2>2. codes[i][next] \in DOMAIN results[i]
    BY <1>2, <1>3, <1>4 DEF Collected, Range
  <2>3. results[i][codes[i][next]] \in Results
    BY <1>1, <2>2 DEF FixtureTypeOK, Maps
  <2>4. Summary(results[i][codes[i][next]]) \in Summaries
    BY <2>3, TextsAssumption DEF Summary, Summaries
  <2> QED
    BY <2>1, <2>4
<1> HIDE DEF line
<1>6. Append(lines[i], line) \in Seq([code : Codes, summary : Summaries])
  BY <1>3, <1>5
<1>7. FixtureTypeOK'
  BY <1>1, <1>2, <1>6 DEF FixtureTypeOK
<1>8. lines'[i] = Append(lines[i], line)
  BY <1>1, <1>2 DEF FixtureTypeOK
<1>9. LinesFollow(i)'
  <2>1. /\ Len(lines'[i]) = next /\ DOMAIN lines'[i] = 1..next /\ lines'[i][next] = line
        /\ \A n \in 1..Len(lines[i]) : lines'[i][n] = lines[i][n]
    BY <1>3, <1>8
  <2>2. DOMAIN lines[i] = 1..Len(lines[i])
    BY <1>3, LenProperties
  <2>3. ASSUME NEW n \in 1..next
        PROVE  lines'[i][n] = [code |-> codes[i][n], summary |-> Summary(results[i][codes[i][n]])]
    <3>1. CASE n = next
      BY <2>1, <3>1 DEF line
    <3>2. CASE n # next
      <4>1. n \in 1..Len(lines[i])
        BY <1>3, <3>2
      <4> QED
        BY <1>2, <2>1, <2>2, <4>1 DEF LinesFollow
    <3> QED
      BY <3>1, <3>2
  <2>4. Len(lines'[i]) <= Len(codes[i])
    BY <1>3, <1>4, <2>1
  <2> QED
    BY <1>2, <2>1, <2>3, <2>4 DEF LinesFollow
<1>10. /\ Quotes(i)' /\ Resolves(i)' = Resolves(i) /\ Collected(i)' /\ InOrder(codes[i])'
       /\ status'[i] = "sorted" /\ remaining'[i] = {}
  BY <1>2 DEF Quotes, Resolves, Collected, InOrder
<1> QED
  BY <1>1, <1>2, <1>7, <1>9, <1>10 DEF FixtureProgress

(* What every invocation has done so far follows from its status, its      *)
(* agent and the results it got.                                           *)
THEOREM FixtureInvariance == FixtureSpec => []FixtureIInv
<1>1. FixtureInit => FixtureIInv
  BY InitiallyFixture
<1>2. FixtureIInv /\ [FixtureNext]_fixtureVars => FixtureIInv'
  <2>1. ASSUME FixtureIInv, NEW i \in Invocations, Agent(i) PROVE FixtureIInv'
    <3>1. FixtureTypeOK' /\ FixtureProgress(i)'
      BY <2>1, BeginsSound, ReturnsSound, RangeOverSound, SortSound, WriteSound DEF Agent
    <3> QED
      BY <2>1, <3>1, OneAgentMoves
  <2>2. ASSUME FixtureIInv, UNCHANGED fixtureVars PROVE FixtureIInv'
    BY <2>2 DEF fixtureVars, FixtureIInv, FixtureTypeOK, FixtureProgress, Resolves, Quotes,
               Collected, Untouched, LinesFollow, Written, InOrder
  <2> QED
    BY <2>1, <2>2 DEF FixtureNext
<1> QED
  BY <1>1, <1>2, PTL DEF FixtureSpec

(* Type correctness, for all results and fixtures.                         *)
THEOREM FixtureTypeCorrect == FixtureSpec => []FixtureTypeOK
<1>1. FixtureIInv => FixtureTypeOK
  BY DEF FixtureIInv
<1> QED
  BY <1>1, FixtureInvariance, PTL

(* Fixture mode is deterministic for any number of invocations and         *)
(* results: the same agent with the same results gives the same answer,    *)
(* in whatever order Go ranged over the map.                               *)
THEOREM SameResultsSameAnswerTheorem == FixtureSpec => []SameResultsSameAnswer
<1>1. ASSUME FixtureIInv, NEW i \in Invocations, NEW j \in Invocations,
             status[i] = "answered", status[j] = "answered",
             definition[i] = definition[j], results[i] = results[j]
      PROVE  lines[i] = lines[j]
  <2>1. FixtureTypeOK /\ FixtureProgress(i) /\ FixtureProgress(j)
    BY <1>1 DEF FixtureIInv
  <2>2. Quotes(i) = Quotes(j)
    BY <1>1 DEF Quotes
  <2>3. CASE ~Quotes(i)
    BY <2>1, <2>2, <2>3 DEF FixtureProgress, Untouched
  <2>4. CASE Quotes(i)
    <3>1. /\ Collected(i) /\ InOrder(codes[i]) /\ LinesFollow(i) /\ Written(i) /\ remaining[i] = {}
          /\ Collected(j) /\ InOrder(codes[j]) /\ LinesFollow(j) /\ Written(j) /\ remaining[j] = {}
      BY <1>1, <2>1, <2>2, <2>4 DEF FixtureProgress
    <3>2. codes[i] \in Seq(Nat) /\ codes[j] \in Seq(Nat)
      <4>1. codes[i] \in Seq(Codes) /\ codes[j] \in Seq(Codes) /\ Codes \subseteq Nat
        BY <2>1, CodesAssumption DEF FixtureTypeOK
      <4> QED
        BY <4>1, SeqMonotonic
    <3>3. codes[i] = codes[j]
      BY <1>1, <3>1, <3>2, OneOrder DEF Collected
    <3>4. /\ lines[i] \in Seq([code : Codes, summary : Summaries])
          /\ lines[j] \in Seq([code : Codes, summary : Summaries])
          /\ Len(lines[i]) = Len(lines[j])
      BY <2>1, <3>1, <3>3 DEF FixtureTypeOK, Written
    <3>5. DOMAIN lines[i] = 1..Len(lines[i]) /\ DOMAIN lines[j] = 1..Len(lines[i])
      BY <3>4, LenProperties
    <3>6. \A n \in 1..Len(lines[i]) : lines[i][n] = lines[j][n]
      BY <1>1, <3>1, <3>3, <3>5 DEF LinesFollow
    <3> QED
      BY <3>4, <3>6, SeqEqual
  <2> QED
    BY <2>3, <2>4
<1>2. FixtureIInv => SameResultsSameAnswer
  BY <1>1 DEF SameResultsSameAnswer
<1> QED
  BY <1>2, FixtureInvariance, PTL

(* For any results: a Markdown answer has one line for each of them, and   *)
(* no line is blank.                                                       *)
THEOREM EveryResultIsNamedTheorem == FixtureSpec => []EveryResultIsNamed
<1>1. ASSUME FixtureIInv, NEW i \in Invocations, status[i] = "answered", definition[i].text
      PROVE  /\ {lines[i][n].code : n \in DOMAIN lines[i]} = DOMAIN results[i]
             /\ Len(lines[i]) = Cardinality(DOMAIN results[i])
             /\ \A n \in DOMAIN lines[i] : lines[i][n].summary \notin {Blank, NoText}
  <2>1. FixtureTypeOK /\ FixtureProgress(i)
    BY <1>1 DEF FixtureIInv
  <2>2. CASE ~Quotes(i)
    <3>1. DOMAIN results[i] = {}
      BY <1>1, <2>1, <2>2 DEF FixtureProgress, Quotes, Resolves
    <3>2. lines[i] = <<>>
      BY <2>1, <2>2 DEF FixtureProgress, Untouched
    <3>3. DOMAIN <<>> = {} /\ Len(<<>>) = 0
      OBVIOUS
    <3> QED
      BY <3>1, <3>2, <3>3, FS_EmptySet
  <2>3. CASE Quotes(i)
    <3>1. Collected(i) /\ LinesFollow(i) /\ Written(i) /\ remaining[i] = {}
      BY <1>1, <2>1, <2>3 DEF FixtureProgress
    <3>2. /\ codes[i] \in Seq(Codes) /\ lines[i] \in Seq([code : Codes, summary : Summaries])
          /\ Len(lines[i]) = Len(codes[i]) /\ Len(codes[i]) \in Nat
      BY <2>1, <3>1, LenProperties DEF FixtureTypeOK, Written
    <3>3. DOMAIN codes[i] = 1..Len(codes[i]) /\ DOMAIN lines[i] = 1..Len(codes[i])
      BY <3>2, LenProperties
    <3>4. Range(codes[i]) = DOMAIN results[i]
      BY <3>1 DEF Collected
    <3>5. ASSUME NEW n \in DOMAIN lines[i]
          PROVE  lines[i][n].code = codes[i][n]
                 /\ lines[i][n].summary = Summary(results[i][codes[i][n]])
      <4> DEFINE summary == Summary(results[i][codes[i][n]])
      <4>1. lines[i][n] = [code |-> codes[i][n], summary |-> summary]
        BY <3>1 DEF LinesFollow
      <4> HIDE DEF summary
      <4>2. lines[i][n].code = codes[i][n] /\ lines[i][n].summary = summary
        BY <4>1
      <4> QED
        BY <4>2 DEF summary
    <3>6. {lines[i][n].code : n \in DOMAIN lines[i]} = DOMAIN results[i]
      BY <3>3, <3>4, <3>5 DEF Range
    <3>7. Len(lines[i]) = Cardinality(DOMAIN results[i])
      <4>1. codes[i] \in Bijection(1..Len(codes[i]), DOMAIN results[i])
        <5>1. codes[i] \in [1..Len(codes[i]) -> DOMAIN results[i]]
          <6>1. codes[i] \in [1..Len(codes[i]) -> Codes]
            BY <3>2, LenProperties
          <6> QED
            BY <3>3, <3>4, <6>1 DEF Range
        <5> QED
          BY <3>1, <3>3, <3>4, <5>1 DEF Bijection, Injection, Surjection, IsInjective, Range, Collected
      <4>2. ExistsBijection(1..Len(codes[i]), DOMAIN results[i])
        BY <4>1 DEF ExistsBijection
      <4>3. IsFiniteSet(1..Len(codes[i])) /\ Cardinality(1..Len(codes[i])) = Len(codes[i])
        BY <3>2, FS_Interval
      <4>4. Cardinality(DOMAIN results[i]) = Cardinality(1..Len(codes[i]))
        BY <4>2, <4>3, FS_Bijection
      <4> QED
        BY <3>2, <4>3, <4>4
    <3>8. ASSUME NEW n \in DOMAIN lines[i] PROVE lines[i][n].summary \notin {Blank, NoText}
      <4>1. lines[i][n].summary = Summary(results[i][codes[i][n]])
        BY <3>5
      <4>2. codes[i][n] \in DOMAIN results[i]
        BY <3>3, <3>4 DEF Range
      <4>3. results[i][codes[i][n]] \in Results
        BY <2>1, <4>2 DEF FixtureTypeOK, Maps
      <4> QED
        BY <4>1, <4>3, TextsAssumption DEF Summary
    <3> QED
      BY <3>6, <3>7, <3>8
  <2> QED
    BY <2>2, <2>3
<1>2. FixtureIInv => EveryResultIsNamed
  BY <1>1 DEF EveryResultIsNamed
<1> QED
  BY <1>2, FixtureInvariance, PTL
================================================================================
