----------------------------- MODULE FixtureAgent -----------------------------
(***************************************************************************)
(* The agents of fixture mode, which the operating notes call              *)
(* deterministic: a root resolves its dependencies, ranges over the map of *)
(* their results in the order Go happens to give it, sorts the codes and   *)
(* writes a line for each under its fixture; any other agent returns its   *)
(* fixture.  Several invocations run, so that their answers can be         *)
(* compared.  A summary is a text, a line its code and its summary.        *)
(***************************************************************************)
EXTENDS Naturals, Sequences, FiniteSets, Functions

CONSTANTS
  Invocations,  \* invocations
  Codes,        \* codes of dependencies, ordered like strings
  Definitions,  \* [aggregate, text]: is the agent a root, its fixture a string
  Results,      \* [object, summary]: outputs of dependencies
  Trim,         \* strings.TrimSpace of a summary
  Blank,        \* the empty text
  NoText,       \* a summary that is missing or no string
  Checked       \* what is written in place of a summary

ASSUME CodesAssumption == Codes \subseteq Nat \ {0} /\ IsFiniteSet(Codes)

(* A trimmed summary is a text, and what stands for a missing one says     *)
(* something.                                                              *)
ASSUME TextsAssumption ==
  /\ \A text \in DOMAIN Trim : Trim[text] # NoText
  /\ \A result \in Results :
       result.object /\ result.summary # NoText => result.summary \in DOMAIN Trim
  /\ Checked \notin {Blank, NoText}

VARIABLES
  definition,  \* per invocation: the agent
  runtime,     \* per invocation: does the request bring a resolver
  status,      \* "invoked", "resolved", "sorted", "answered" or "failed"
  results,     \* the resolved results by code
  remaining,   \* codes that the range has not come to
  codes,       \* the slice of codes
  lines        \* the lines below the fixture

fixtureVars == <<definition, runtime, status, results, remaining, codes, lines>>

request == <<definition, runtime>>

Maps == UNION {[S -> Results] : S \in SUBSET Codes}

FixtureInit ==
  /\ definition \in [Invocations -> Definitions]
  /\ runtime \in [Invocations -> BOOLEAN]
  /\ status = [i \in Invocations |-> "invoked"]
  /\ results = [i \in Invocations |-> <<>>]
  /\ remaining = [i \in Invocations |-> {}]
  /\ codes = [i \in Invocations |-> <<>>]
  /\ lines = [i \in Invocations |-> <<>>]

Move(i, place) == status' = [status EXCEPT ![i] = place]

------------------------------------------------------------------------------
(* resolveDependencies                                                     *)

Resolves(i) == definition[i].aggregate /\ runtime[i]

Begin(i, resolved) ==
  /\ results' = [results EXCEPT ![i] = resolved]
  /\ remaining' = [remaining EXCEPT ![i] = DOMAIN resolved]
  /\ UNCHANGED codes

(* Without a resolver the agent has the empty map of AgentService.Invoke.  *)
Resolve(i) ==
  /\ status[i] = "invoked"
  /\ \E resolved \in (IF Resolves(i) THEN Maps ELSE {<<>>}) : Begin(i, resolved)
  /\ Move(i, "resolved")
  /\ UNCHANGED <<request, lines>>

ResolveFails(i) ==
  /\ status[i] = "invoked" /\ Resolves(i)
  /\ Move(i, "failed")
  /\ UNCHANGED <<request, results, remaining, codes, lines>>

------------------------------------------------------------------------------
(* output                                                                  *)

Quotes(i) ==
  definition[i].aggregate /\ DOMAIN results[i] # {} /\ definition[i].text

ReturnFixture(i) ==
  /\ status[i] = "resolved" /\ ~Quotes(i)
  /\ Move(i, "answered")
  /\ UNCHANGED <<request, results, remaining, codes, lines>>

RangeOver(i) ==
  /\ status[i] = "resolved" /\ Quotes(i)
  /\ \E code \in remaining[i] :
       /\ codes' = [codes EXCEPT ![i] = Append(@, code)]
       /\ remaining' = [remaining EXCEPT ![i] = @ \ {code}]
  /\ UNCHANGED <<request, status, results, lines>>

Arrangements(list) ==
  {[n \in DOMAIN list |-> list[order[n]]] : order \in Bijection(DOMAIN list, DOMAIN list)}

InOrder(list) == \A m, n \in DOMAIN list : m < n => list[m] <= list[n]

(* sort.Strings, of which only the result is fixed.                        *)
Unsorted(list) == {list}
Sorted(list) == {sorted \in Arrangements(list) : InOrder(sorted)}

Sort(i) ==
  /\ status[i] = "resolved" /\ Quotes(i) /\ remaining[i] = {}
  /\ \E sorted \in Sorted(codes[i]) : codes' = [codes EXCEPT ![i] = sorted]
  /\ Move(i, "sorted")
  /\ UNCHANGED <<request, results, remaining, lines>>

SummaryOfText(result) ==
  IF result.object /\ result.summary # NoText THEN Trim[result.summary] ELSE Checked
Summary(result) ==
  IF result.object /\ result.summary # NoText /\ Trim[result.summary] # Blank
  THEN Trim[result.summary]
  ELSE Checked

Written(i) == Len(lines[i]) = Len(codes[i])

Write(i) ==
  /\ status[i] = "sorted" /\ ~Written(i)
  /\ LET code == codes[i][Len(lines[i]) + 1]
     IN  lines' = [lines EXCEPT ![i] =
                     Append(@, [code |-> code, summary |-> Summary(results[i][code])])]
  /\ UNCHANGED <<request, status, results, remaining, codes>>

ReturnMarkdown(i) ==
  /\ status[i] = "sorted" /\ Written(i)
  /\ Move(i, "answered")
  /\ UNCHANGED <<request, results, remaining, codes, lines>>

Agent(i) ==
  \/ Resolve(i) \/ ResolveFails(i) \/ ReturnFixture(i)
  \/ RangeOver(i) \/ Sort(i) \/ Write(i) \/ ReturnMarkdown(i)

FixtureNext == \E i \in Invocations : Agent(i)

FixtureSpec == FixtureInit /\ [][FixtureNext]_fixtureVars

------------------------------------------------------------------------------
(* Properties                                                              *)

(* Texts that a line may have.                                             *)
Summaries == {Trim[text] : text \in DOMAIN Trim} \cup {Checked}

FixtureTypeOK ==
  /\ definition \in [Invocations -> Definitions]
  /\ status \in [Invocations -> {"invoked", "resolved", "sorted", "answered", "failed"}]
  /\ results \in [Invocations -> Maps]
  /\ remaining \in [Invocations -> SUBSET Codes]
  /\ codes \in [Invocations -> Seq(Codes)]
  /\ lines \in [Invocations -> Seq([code : Codes, summary : Summaries])]

(* Fixture mode is deterministic: two invocations of one agent that got    *)
(* the same results answer alike, whatever order the map had for each.     *)
SameResultsSameAnswer ==
  \A i, j \in Invocations :
    /\ status[i] = "answered" /\ status[j] = "answered"
    /\ definition[i] = definition[j] /\ results[i] = results[j]
    => lines[i] = lines[j]

(* A root with a Markdown fixture has one line for every dependency it     *)
(* paid for, and a line always says something.                             *)
EveryResultIsNamed ==
  \A i \in Invocations :
    status[i] = "answered" /\ definition[i].text =>
      /\ {lines[i][n].code : n \in DOMAIN lines[i]} = DOMAIN results[i]
      /\ Len(lines[i]) = Cardinality(DOMAIN results[i])
      /\ \A n \in DOMAIN lines[i] : lines[i][n].summary \notin {Blank, NoText}

------------------------------------------------------------------------------
(* Why: the codes are those of the results that were ranged over, each     *)
(* once; only one arrangement of them is in order; the lines follow it.    *)
Collected(i) ==
  /\ remaining[i] \subseteq DOMAIN results[i]
  /\ Range(codes[i]) = DOMAIN results[i] \ remaining[i]
  /\ \A m, n \in DOMAIN codes[i] : codes[i][m] = codes[i][n] => m = n

Untouched(i) == codes[i] = <<>> /\ lines[i] = <<>>

LinesFollow(i) ==
  /\ Len(lines[i]) <= Len(codes[i])
  /\ \A n \in DOMAIN lines[i] :
       lines[i][n] = [code |-> codes[i][n], summary |-> Summary(results[i][codes[i][n]])]

FixtureProgress(i) ==
  /\ ~Resolves(i) => DOMAIN results[i] = {}
  /\ status[i] \in {"invoked", "failed"} => Untouched(i) /\ DOMAIN results[i] = {}
  /\ ~Quotes(i) => Untouched(i) /\ status[i] # "sorted"
  /\ Quotes(i) => Collected(i)
  /\ status[i] = "resolved" => lines[i] = <<>>
  /\ status[i] = "resolved" /\ ~Quotes(i) => remaining[i] = DOMAIN results[i]
  /\ Quotes(i) /\ status[i] \in {"sorted", "answered"} =>
       remaining[i] = {} /\ InOrder(codes[i]) /\ LinesFollow(i)
  /\ Quotes(i) /\ status[i] = "answered" => Written(i)

FixtureIInv == FixtureTypeOK /\ \A i \in Invocations : FixtureProgress(i)
==============================================================================
