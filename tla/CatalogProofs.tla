---------------------------- MODULE CatalogProofs ----------------------------
(***************************************************************************)
(* The schemas (CatalogSchema), for every contract and every limit: that   *)
(* the validation accepts exactly the sound contracts in whatever order it *)
(* walks through the maps, that every request carries exactly what is not  *)
(* under a key "format", and that the contract stays as it was parsed.     *)
(*                                                                         *)
(* Both rest on the same two facts: a value the recursion has returned     *)
(* from has all its children visited, and a property that passes from the  *)
(* parent to the child holds in a whole tree (Spread, by the length of the *)
(* path).                                                                  *)
(*                                                                         *)
(* The catalog (Catalog), for every document: what was gone through is     *)
(* valid, and the map of contracts and the set of codes hold nothing else. *)
(* So a parsed catalog is well-formed, its definitions agree with its      *)
(* contracts after the sort too, and an entry that is refused is an        *)
(* offence of the whole document.                                          *)
(***************************************************************************)
EXTENDS CatalogSchema, Catalog, FiniteSetTheorems, SequenceTheorems,
        WellFoundedInduction, TLAPS

------------------------------------------------------------------------------
(* Paths                                                                   *)

Paths == Seq(STRING)

(* p leads to q or to a value that contains it.                            *)
LeadsTo(p, q) == Len(p) <= Len(q) /\ SubSeq(q, 1, Len(p)) = p

LEMMA ParentProperties ==
  ASSUME NEW q \in Paths, q # <<>>
  PROVE  /\ Len(q) \in Nat \ {0} /\ Parent(q) \in Paths /\ Len(Parent(q)) = Len(q) - 1
         /\ \A i \in 1..(Len(q) - 1) : Parent(q)[i] = q[i]
<1>1. Len(q) \in Nat \ {0}
  BY DEF Paths
<1> QED
  BY <1>1, SubSeqProperties DEF Parent, Paths

LEMMA PrefixProperties ==
  ASSUME NEW q \in Paths, NEW n \in 0..Len(q)
  PROVE  /\ SubSeq(q, 1, n) \in Paths /\ Len(SubSeq(q, 1, n)) = n
         /\ \A i \in 1..n : SubSeq(q, 1, n)[i] = q[i]
  BY SubSeqProperties DEF Paths

LEMMA PathEquality ==
  ASSUME NEW p \in Paths, NEW q \in Paths, Len(p) = Len(q), \A i \in 1..Len(p) : p[i] = q[i]
  PROVE  p = q
  BY SeqEqual DEF Paths

LEMMA PrefixOfParent ==
  ASSUME NEW q \in Paths, q # <<>>, NEW n \in 0..(Len(q) - 1)
  PROVE  SubSeq(Parent(q), 1, n) = SubSeq(q, 1, n)
<1>1. Len(q) \in Nat \ {0} /\ Parent(q) \in Paths /\ Len(Parent(q)) = Len(q) - 1
      /\ \A i \in 1..(Len(q) - 1) : Parent(q)[i] = q[i]
  BY ParentProperties
<1>2. n \in 0..Len(q) /\ n \in 0..Len(Parent(q))
  BY <1>1
<1> QED
  BY <1>1, <1>2, PrefixProperties, PathEquality

LEMMA WholePrefix == ASSUME NEW q \in Paths PROVE SubSeq(q, 1, Len(q)) = q
<1>1. Len(q) \in 0..Len(q)
  BY DEF Paths
<1> QED
  BY <1>1, PrefixProperties, PathEquality

(* Whoever leads to q is q or leads to its parent.                         *)
LEMMA LeadsToParent ==
  ASSUME NEW p \in Paths, NEW q \in Paths, q # <<>>
  PROVE  LeadsTo(p, q) <=> p = q \/ LeadsTo(p, Parent(q))
<1>1. Len(q) \in Nat \ {0} /\ Len(Parent(q)) = Len(q) - 1 /\ Len(p) \in Nat
  BY ParentProperties DEF Paths
<1>2. CASE Len(p) < Len(q)
  <2>1. Len(p) \in 0..(Len(q) - 1)
    BY <1>1, <1>2
  <2>2. SubSeq(Parent(q), 1, Len(p)) = SubSeq(q, 1, Len(p))
    BY <2>1, PrefixOfParent
  <2> QED
    BY <1>1, <1>2, <2>2 DEF LeadsTo
<1>3. CASE ~(Len(p) < Len(q))
  BY <1>1, <1>3, WholePrefix DEF LeadsTo
<1> QED
  BY <1>2, <1>3

LEMMA LeadsToItself == ASSUME NEW q \in Paths PROVE LeadsTo(q, q)
<1>1. Len(q) \in Nat
  BY DEF Paths
<1> QED
  BY <1>1, WholePrefix DEF LeadsTo

LEMMA RootIsPath == <<>> \in Paths
  BY EmptySeq DEF Paths

LEMMA LeadsToRoot == ASSUME NEW p \in Paths, LeadsTo(p, <<>>) PROVE p = <<>>
<1>1. Len(p) \in Nat /\ Len(p) <= Len(<<>>) /\ Len(<<>>) = 0
  BY DEF LeadsTo, Paths
<1> QED
  BY <1>1 DEF Paths

------------------------------------------------------------------------------
(* Trees                                                                   *)

LEMMA NoneIsLess ==
  ASSUME NEW T, T \subseteq Nat, T # {}
  PROVE  \E m \in T : \A k \in T : ~(k < m)
<1> DEFINE R == OpToRel(<, Nat)
<1>1. IsWellFoundedOn(R, Nat)
  BY NatLessThanWellFounded
<1> HIDE DEF R
<1>2. PICK m \in T : \A k \in T : ~(<<k, m>> \in R)
  BY <1>1, WFMin
<1>3. \A k \in T : k < m => <<k, m>> \in R
  BY DEF R, OpToRel
<1> QED
  BY <1>2, <1>3

(* What passes from the parent to the child holds in a whole tree.         *)
LEMMA Spread ==
  ASSUME NEW W, W \subseteq Paths, NEW C, <<>> \in C,
         \A p \in W \ {<<>>} : Parent(p) \in W /\ (Parent(p) \in C => p \in C)
  PROVE  W \subseteq C
<1> SUFFICES ASSUME NEW r \in W, r \notin C PROVE FALSE
  OBVIOUS
<1> DEFINE T == {Len(p) : p \in W \ C}
<1>1. T \subseteq Nat /\ T # {}
  <2>1. \A p \in Paths : Len(p) \in Nat
    BY LenProperties DEF Paths
  <2>2. Len(r) \in T
    OBVIOUS
  <2> QED
    BY <2>1, <2>2
<1>2. PICK m \in T : \A k \in T : ~(k < m)
  BY <1>1, NoneIsLess
<1>3. PICK p \in W \ C : m = Len(p)
  BY <1>2
<1>4. p # <<>> /\ p \in Paths /\ Parent(p) \in W \ C
  BY <1>3
<1>5. Len(Parent(p)) \in T
  BY <1>4
<1>6. Len(p) \in Nat /\ Len(Parent(p)) = Len(p) - 1
  BY <1>4, ParentProperties
<1>7. Len(Parent(p)) < m
  BY <1>3, <1>6
<1> QED
  BY <1>2, <1>5, <1>7

------------------------------------------------------------------------------
(* The inductive invariant                                                 *)

(* What a walk went into: a request's walk copies it.                      *)
Copied == IF stage \in {"normalizing", "sent"} THEN DOMAIN payload ELSE visited

(* Every value that was come to was come to by its parent, and is what the *)
(* walk lets through.                                                      *)
Passed ==
  \A path \in visited \ {<<>>} :
    /\ Parent(path) \in Copied
    /\ stage = "validating" => ~Remote(path) /\ ~TooDeep(path)
    /\ stage \in {"normalizing", "sent"} => (path \notin Copied <=> IsFormat(path))

(* Of a value that the recursion returned from, all children were visited. *)
Returned ==
  \A path \in Copied : ~LeadsTo(path, here) => Children(path) \subseteq visited

Verdicts ==
  /\ side = "output" => SoundSchema(contract.input) /\ TypeIs(contract.input, <<>>, "object")
  /\ stage = "validating" => DOMAIN payload = {}
  /\ stage = "sent" => here = <<>> /\ Left = {}

(* The copy is of the contract as it was parsed.                           *)
Copies ==
  /\ contract = parsed
  /\ stage \in {"normalizing", "sent"} => payload = [path \in DOMAIN payload |-> Schema[path]]

IInv ==
  /\ TypeOK /\ <<>> \in Copied /\ Passed /\ Returned
  /\ Verdicts /\ VerdictIsExact /\ Copies

LEMMA SchemaTypes ==
  ASSUME TypeOK
  PROVE  /\ IsSchema(Schema) /\ Schema = (IF side = "input" THEN contract.input ELSE contract.output)
         /\ DOMAIN Schema \subseteq Paths /\ visited \subseteq Paths /\ here \in Paths
<1>1. IsSchema(contract.input) /\ IsSchema(contract.output)
      /\ contract = [format |-> contract.format, input |-> contract.input, output |-> contract.output]
  BY ContractsAssumption DEF TypeOK
<1>2. IsSchema(Schema)
      /\ Schema = (IF side = "input" THEN contract.input ELSE contract.output)
  BY <1>1 DEF TypeOK, Schema
<1>3. DOMAIN Schema \subseteq Paths
  BY <1>2 DEF IsSchema, Paths
<1> QED
  BY <1>2, <1>3, RootIsPath DEF TypeOK

LEMMA CopiedTypes == ASSUME TypeOK PROVE Copied \subseteq visited
  BY DEF TypeOK, Copied

LEMMA ChildTypes ==
  ASSUME TypeOK, NEW child \in Left
  PROVE  child \in Paths /\ child # <<>> /\ child \in DOMAIN Schema /\ child \notin visited
         /\ Parent(child) = here
  BY SchemaTypes DEF Left, Children

LEMMA InitiallyInv == Init => IInv
<1> SUFFICES ASSUME Init PROVE IInv
  OBVIOUS
<1>1. DOMAIN payload = {}
  BY DEF Init
<1>2. TypeOK /\ <<>> \in Copied
  BY <1>1 DEF Init, TypeOK, Copied
<1>3. LeadsTo(<<>>, <<>>)
  BY RootIsPath, LeadsToItself
<1>4. Passed /\ Returned
  BY <1>3 DEF Init, Passed, Returned, Copied
<1>5. Verdicts /\ VerdictIsExact /\ Copies
  BY <1>1 DEF Init, Verdicts, VerdictIsExact, Copies
<1> QED
  BY <1>2, <1>4, <1>5 DEF IInv

(* The recursion descends into a child.                                    *)
LEMMA EnterKeepsReturned ==
  ASSUME TypeOK, Returned, NEW child \in Left, Enter(child), Copied' = Copied \cup {child}
  PROVE  Returned'
<1>1. /\ here' = child /\ visited' = visited \cup {child}
      /\ UNCHANGED <<contract, side>>
  BY DEF Enter, memory
<1>2. \A path : Children(path)' = Children(path)
  BY <1>1 DEF Children, Schema
<1>3. child \in Paths /\ child # <<>> /\ Parent(child) = here /\ visited \subseteq Paths
  BY ChildTypes, SchemaTypes
<1> SUFFICES ASSUME NEW path \in Copied \cup {child}, ~LeadsTo(path, child)
             PROVE  Children(path) \subseteq visited'
  BY <1>1, <1>2 DEF Returned
<1>4. path \in Copied /\ path \in Paths
  BY <1>3, LeadsToItself, CopiedTypes
<1>5. ~LeadsTo(path, here)
  BY <1>3, <1>4, LeadsToParent
<1> QED
  BY <1>1, <1>4, <1>5 DEF Returned

LEMMA LeaveKeepsReturned ==
  ASSUME TypeOK, Returned, Leave
  PROVE  Returned'
<1>1. here # <<>> /\ Left = {} /\ here' = Parent(here)
      /\ UNCHANGED <<contract, side, visited, payload, stage>>
  BY DEF Leave, memory
<1>2. (\A path : Children(path)' = Children(path)) /\ Copied' = Copied
  BY <1>1 DEF Children, Schema, Copied
<1>3. here \in Paths /\ Copied \subseteq Paths
  BY SchemaTypes, CopiedTypes
<1> SUFFICES ASSUME NEW path \in Copied, ~LeadsTo(path, Parent(here))
             PROVE  Children(path) \subseteq visited
  BY <1>1, <1>2 DEF Returned
<1>4. CASE path = here
  BY <1>1, <1>4 DEF Left
<1>5. CASE path # here
  <2>1. ~LeadsTo(path, here)
    BY <1>1, <1>3, <1>5, LeadsToParent
  <2> QED
    BY <2>1 DEF Returned
<1> QED
  BY <1>4, <1>5

(* A step of the walk keeps what can be said of single values.             *)
LEMMA EnterKeeps ==
  ASSUME IInv, NEW child \in Left, ValidateChild(child) \/ CopyChild(child)
  PROVE  IInv'
<1>1. Enter(child) /\ stage \in {"validating", "normalizing"}
      /\ (stage = "validating" => ~Remote(child) /\ ~TooDeep(child) /\ payload' = payload)
      /\ (stage = "normalizing" =>
            /\ ~IsFormat(child)
            /\ payload' = [path \in DOMAIN payload \cup {child} |->
                            IF path = child THEN Schema[path] ELSE payload[path]])
  BY DEF ValidateChild, CopyChild
<1>2. /\ here' = child /\ visited' = visited \cup {child}
      /\ UNCHANGED <<parsed, contract, side, stage>>
  BY <1>1 DEF Enter, memory
<1>3. child \in Paths /\ child # <<>> /\ child \in DOMAIN Schema /\ child \notin visited
      /\ Parent(child) = here
  BY ChildTypes DEF IInv
<1>4. Copied' = Copied \cup {child} /\ Copied \subseteq visited
  BY <1>1, <1>2, CopiedTypes DEF IInv, Copied
<1>5. Schema' = Schema /\ UNCHANGED SoundContract
  BY <1>2 DEF Schema, SoundContract
<1>6. TypeOK' /\ (<<>> \in Copied)'
  <2>1. DOMAIN payload' \subseteq visited' /\ (stage = "normalizing" => child \in DOMAIN payload')
    BY <1>1, <1>2 DEF IInv, TypeOK
  <2> QED
    BY <1>2, <1>3, <1>4, <1>5, <2>1 DEF IInv, TypeOK
<1>7. Passed'
  <2> SUFFICES ASSUME NEW path \in visited' \ {<<>>}
               PROVE  /\ Parent(path) \in Copied'
                      /\ stage = "validating" => ~Remote(path) /\ ~TooDeep(path)
                      /\ stage \in {"normalizing", "sent"} => (path \notin Copied' <=> IsFormat(path))
    BY <1>2, <1>5 DEF Passed, Remote, InMap, TooDeep, IsFormat
  <2>1. CASE path = child
    <3>1. here \in Copied
      BY <1>1 DEF IInv, TypeOK, Copied
    <3> QED
      BY <1>1, <1>3, <1>4, <2>1, <3>1
  <2>2. CASE path \in visited
    BY <1>3, <1>4, <2>2 DEF IInv, Passed
  <2> QED
    BY <1>2, <2>1, <2>2
<1>8. Returned'
  BY <1>1, <1>4, EnterKeepsReturned DEF IInv
<1>9. Verdicts' /\ VerdictIsExact' /\ Copies'
  <2>1. Copies'
    BY <1>1, <1>2, <1>5 DEF IInv, Copies
  <2> QED
    BY <1>1, <1>2, <1>5, <2>1 DEF IInv, Verdicts, VerdictIsExact, SoundContract
<1> QED
  BY <1>6, <1>7, <1>8, <1>9 DEF IInv

LEMMA SkipKeeps ==
  ASSUME IInv, NEW child \in Left, SkipChild(child)
  PROVE  IInv'
<1>1. /\ stage = "normalizing" /\ IsFormat(child) /\ visited' = visited \cup {child}
      /\ UNCHANGED <<parsed, contract, side, here, payload, stage>>
  BY DEF SkipChild, memory
<1>2. child \in Paths /\ child # <<>> /\ child \in DOMAIN Schema /\ child \notin visited
      /\ Parent(child) = here
  BY ChildTypes DEF IInv
<1>3. Schema' = Schema /\ (\A path : Children(path)' = Children(path))
      /\ Copied = DOMAIN payload /\ Copied' = Copied
  BY <1>1 DEF Schema, Children, Copied
<1>4. TypeOK' /\ (<<>> \in Copied)'
  BY <1>1, <1>2, <1>3 DEF IInv, TypeOK
<1>5. Passed'
  <2> SUFFICES ASSUME NEW path \in visited' \ {<<>>}
               PROVE  Parent(path) \in Copied /\ (path \notin Copied <=> IsFormat(path))
    BY <1>1, <1>3 DEF Passed, IsFormat, InMap
  <2>1. CASE path = child
    BY <1>1, <1>2, <1>3, <2>1 DEF IInv, TypeOK
  <2>2. CASE path \in visited
    BY <1>1, <1>2, <2>2 DEF IInv, Passed
  <2> QED
    BY <1>1, <2>1, <2>2
<1>6. Returned'
  BY <1>1, <1>3 DEF IInv, Returned
<1>7. Verdicts' /\ VerdictIsExact' /\ Copies'
  BY <1>1, <1>3 DEF IInv, Verdicts, VerdictIsExact, SoundContract, Copies
<1> QED
  BY <1>4, <1>5, <1>6, <1>7 DEF IInv

LEMMA LeaveKeeps == ASSUME IInv, Leave PROVE IInv'
<1>1. /\ stage \in {"validating", "normalizing"} /\ here # <<>> /\ here' = Parent(here)
      /\ UNCHANGED <<parsed, contract, side, visited, payload, stage>>
  BY DEF Leave, memory
<1>2. Schema' = Schema /\ Copied' = Copied
  BY <1>1 DEF Schema, Copied
<1>3. here' \in Copied /\ Copied \subseteq visited
  BY <1>1, CopiedTypes DEF IInv, TypeOK, Passed
<1>4. TypeOK' /\ (<<>> \in Copied)'
  BY <1>1, <1>2, <1>3 DEF IInv, TypeOK, Copied
<1>5. Passed'
  BY <1>1, <1>2 DEF IInv, Passed, Remote, InMap, TooDeep, IsFormat
<1>6. Returned'
  BY LeaveKeepsReturned DEF IInv
<1>7. Verdicts' /\ VerdictIsExact' /\ Copies'
  BY <1>1, <1>2 DEF IInv, Verdicts, VerdictIsExact, SoundContract, Copies
<1> QED
  BY <1>4, <1>5, <1>6, <1>7 DEF IInv

(* At the end of a walk the root is the only value that leads to `here',   *)
(* and no child of it is left.                                             *)
LEMMA AllReturned ==
  ASSUME TypeOK, Returned, here = <<>>, Left = {}
  PROVE  \A path \in Copied : Children(path) \subseteq visited
<1> SUFFICES ASSUME NEW path \in Copied PROVE Children(path) \subseteq visited
  OBVIOUS
<1>1. path \in Paths
  BY SchemaTypes, CopiedTypes
<1>2. CASE path = here
  BY <1>2 DEF Left
<1>3. CASE path # here
  BY <1>1, <1>3, LeadsToRoot DEF Returned
<1> QED
  BY <1>2, <1>3

LEMMA ParentInSchema ==
  ASSUME TypeOK, NEW path \in DOMAIN Schema, path # <<>>
  PROVE  Parent(path) \in DOMAIN Schema /\ path \in Children(Parent(path))
  BY SchemaTypes DEF IsSchema, Children

(* A validation that comes to its end has come to every value.             *)
LEMMA AllVisited ==
  ASSUME IInv, AllValidated
  PROVE  DOMAIN Schema = visited
<1>1. /\ here = <<>> /\ Left = {} /\ TypeOK /\ Returned /\ Copied = visited /\ <<>> \in Copied
      /\ <<>> \in DOMAIN Schema
  BY SchemaTypes DEF AllValidated, IInv, Copied, Fits, IsSchema
<1>2. \A path \in DOMAIN Schema \ {<<>>} :
        Parent(path) \in DOMAIN Schema /\ (Parent(path) \in Copied => path \in Copied)
  BY <1>1, AllReturned, ParentInSchema
<1>3. DOMAIN Schema \subseteq Copied
  BY <1>1, <1>2, SchemaTypes, Spread
<1> QED
  BY <1>1, <1>3 DEF TypeOK

LEMMA ValidatedIsSound == ASSUME IInv, AllValidated PROVE SoundSchema(Schema)
<1>1. stage = "validating" /\ Fits /\ DOMAIN Schema = visited
  BY AllVisited DEF AllValidated
<1>2. ASSUME NEW path \in DOMAIN Schema \ {<<>>}
      PROVE  /\ Len(path) < MaxSchemaDepth
             /\ Schema[Parent(path)] = "map" /\ KeyOf(path) \in References
                  => IsLocalReference(Schema[path])
  <2>1. ~Remote(path) /\ ~TooDeep(path)
    BY <1>1, <1>2 DEF IInv, Passed
  <2>2. path \in Paths
    BY SchemaTypes DEF IInv
  <2>3. Len(path) \in Nat /\ MaxSchemaDepth \in Nat
    BY <2>2, LenProperties, LimitsAssumption DEF Paths
  <2>4. Len(path) < MaxSchemaDepth
    BY <2>1, <2>3 DEF TooDeep
  <2> QED
    BY <2>1, <2>4 DEF Remote, InMap
<1> QED
  BY <1>1, <1>2 DEF SoundSchema, Fits

(* What the validation refuses is not sound.                               *)
LEMMA RefusedIsUnsound ==
  ASSUME IInv, ~Fits \/ \E child \in Left : Remote(child) \/ TooDeep(child)
  PROVE  ~SoundSchema(Schema)
<1>1. CASE ~Fits
  BY <1>1 DEF Fits, SoundSchema
<1>2. ASSUME NEW child \in Left, Remote(child) \/ TooDeep(child)
      PROVE  ~SoundSchema(Schema)
  <2>1. child \in DOMAIN Schema \ {<<>>} /\ child \in Paths
    BY ChildTypes DEF IInv
  <2>2. Len(child) \in Nat /\ MaxSchemaDepth \in Nat
    BY <2>1, LenProperties, LimitsAssumption DEF Paths
  <2>3. TooDeep(child) => ~(Len(child) < MaxSchemaDepth)
    BY <2>2 DEF TooDeep
  <2> QED
    BY <1>2, <2>1, <2>3 DEF Remote, InMap, SoundSchema
<1> QED
  BY <1>1, <1>2

LEMMA WalkEnds ==
  ASSUME IInv, RefuseSchema \/ InputValidated \/ OutputValidated \/ RefuseContract
  PROVE  IInv'
<1>1. stage = "validating" /\ TypeOK /\ <<>> \in visited /\ contract = parsed /\ Copied = visited
  BY DEF IInv, RefuseSchema, InputValidated, OutputValidated, RefuseContract, AllValidated,
     Copies, Copied
<1>2. /\ side = "input" => Schema = contract.input
      /\ side = "output" => Schema = contract.output
      /\ IsSchema(contract.output)
  BY <1>1, SchemaTypes, ContractsAssumption DEF TypeOK
<1>3. CASE RefuseSchema \/ RefuseContract
  <2>1. stage' = "refused" /\ UNCHANGED <<parsed, contract, side, here, visited, payload>>
    BY <1>3 DEF RefuseSchema, RefuseContract, Refuse, memory
  <2>2. ~SoundContract
    <3>1. CASE RefuseSchema
      <4>1. ~SoundSchema(Schema)
        BY <3>1, RefusedIsUnsound DEF RefuseSchema
      <4>2. Schema = contract.input \/ Schema = contract.output
        BY <1>1, <1>2 DEF TypeOK
      <4> QED
        BY <4>1, <4>2 DEF SoundContract
    <3>2. CASE RefuseContract
      BY <1>2, <3>2 DEF RefuseContract, SoundContract
    <3> QED
      BY <1>3, <3>1, <3>2
  <2>3. SoundContract' = SoundContract /\ Schema' = Schema
    BY <2>1 DEF SoundContract, Schema
  <2>4. TypeOK' /\ (<<>> \in Copied)' /\ Passed' /\ Returned'
    BY <1>1, <2>1, <2>3 DEF IInv, TypeOK, Copied, Passed, Returned, Children
  <2>5. Verdicts' /\ VerdictIsExact' /\ Copies'
    BY <1>1, <2>1, <2>2, <2>3 DEF IInv, Verdicts, VerdictIsExact, Copies
  <2> QED
    BY <2>4, <2>5 DEF IInv
<1>4. CASE InputValidated
  <2>1. /\ side = "input" /\ TypeIs(Schema, <<>>, "object") /\ side' = "output"
        /\ visited' = {<<>>} /\ here = <<>>
        /\ UNCHANGED <<parsed, contract, here, payload, stage>>
    BY <1>4 DEF InputValidated, AllValidated, memory
  <2>2. SoundSchema(contract.input) /\ TypeIs(contract.input, <<>>, "object")
    BY <1>2, <1>4, <2>1, ValidatedIsSound DEF InputValidated
  <2>3. TypeOK' /\ (<<>> \in Copied)'
    <3>1. DOMAIN payload = {}
      BY <1>1 DEF IInv, Verdicts
    <3> QED
      BY <1>1, <2>1, <3>1 DEF TypeOK, Copied
  <2>4. Passed' /\ Returned'
    <3>1. LeadsTo(<<>>, <<>>)
      BY RootIsPath, LeadsToItself
    <3>2. visited' = {<<>>} /\ here' = <<>>
      BY <2>1
    <3> QED
      BY <1>1, <2>1, <3>1, <3>2 DEF Passed, Returned, Copied
  <2>5. Verdicts' /\ VerdictIsExact' /\ Copies'
    BY <1>1, <2>1, <2>2 DEF IInv, Verdicts, VerdictIsExact, Copies
  <2> QED
    BY <2>3, <2>4, <2>5 DEF IInv
<1>5. CASE OutputValidated
  <2>1. /\ side = "output" /\ MatchesResponseFormat(contract.format, Schema)
        /\ stage' = "accepted" /\ UNCHANGED <<parsed, contract, side, here, visited, payload>>
    BY <1>5 DEF OutputValidated, memory
  <2>2. SoundContract
    BY <1>2, <1>5, <2>1, ValidatedIsSound DEF OutputValidated, SoundContract, IInv, Verdicts
  <2>3. SoundContract' = SoundContract /\ Schema' = Schema
    BY <2>1 DEF SoundContract, Schema
  <2>4. TypeOK' /\ (<<>> \in Copied)' /\ Passed' /\ Returned'
    BY <1>1, <2>1, <2>3 DEF IInv, TypeOK, Copied, Passed, Returned, Children
  <2>5. Verdicts' /\ VerdictIsExact' /\ Copies'
    BY <1>1, <2>1, <2>2, <2>3 DEF IInv, Verdicts, VerdictIsExact, Copies
  <2> QED
    BY <2>4, <2>5 DEF IInv
<1> QED
  BY <1>3, <1>4, <1>5

LEMMA RequestKeeps == ASSUME IInv, Generate \/ Send PROVE IInv'
<1>1. stage \in {"accepted", "normalizing", "sent"} /\ side = "output" /\ SoundContract
  BY DEF Generate, Send, IInv, TypeOK, VerdictIsExact
<1>2. stage' \in {"normalizing", "sent"} /\ UNCHANGED <<parsed, contract, side>>
  BY DEF Generate, Send, memory
<1>3. Schema' = Schema /\ SoundContract' = SoundContract
  BY <1>2 DEF Schema, SoundContract
<1>4. CASE Generate
  <2>1. stage' = "normalizing" /\ here' = <<>> /\ visited' = {<<>>}
        /\ payload' = [path \in {<<>>} |-> Schema[path]]
    BY <1>4 DEF Generate
  <2>2. LeadsTo(<<>>, <<>>)
    BY RootIsPath, LeadsToItself
  <2>3. DOMAIN payload' = {<<>>} /\ Copied' = {<<>>}
    BY <2>1 DEF Copied
  <2>4. TypeOK' /\ (<<>> \in Copied)'
    BY <1>1, <1>2, <1>3, <2>1, <2>3 DEF IInv, TypeOK
  <2>5. Passed' /\ Returned'
    BY <2>1, <2>2, <2>3 DEF Passed, Returned
  <2>6. Verdicts' /\ VerdictIsExact' /\ Copies'
    BY <1>1, <1>2, <1>3, <2>1, <2>3 DEF IInv, Verdicts, VerdictIsExact, Copies
  <2> QED
    BY <2>4, <2>5, <2>6 DEF IInv
<1>5. CASE Send
  <2>1. /\ stage = "normalizing" /\ here = <<>> /\ Left = {} /\ stage' = "sent"
        /\ UNCHANGED <<parsed, contract, side, here, visited, payload>>
    BY <1>5 DEF Send, memory
  <2>2. TypeOK' /\ (<<>> \in Copied)' /\ Passed' /\ Returned'
    BY <1>1, <1>3, <2>1 DEF IInv, TypeOK, Copied, Passed, Returned, Children, Remote, InMap,
       TooDeep, IsFormat
  <2>3. Left' = Left
    BY <1>3, <2>1 DEF Left, Children
  <2>4. Verdicts' /\ VerdictIsExact' /\ Copies'
    BY <1>1, <1>3, <2>1, <2>3 DEF IInv, Verdicts, VerdictIsExact, Copies
  <2> QED
    BY <2>2, <2>4 DEF IInv
<1> QED
  BY <1>4, <1>5

LEMMA StutterKeeps == ASSUME IInv, UNCHANGED vars PROVE IInv'
<1>1. UNCHANGED <<parsed, contract, side, here, visited, payload, stage>>
  BY DEF vars
<1>2. Schema' = Schema /\ (\A path : Children(path)' = Children(path))
  BY <1>1 DEF Schema, Children
<1>3. Left' = Left /\ SoundContract' = SoundContract
  BY <1>1, <1>2 DEF Left, SoundContract
<1>4. TypeOK' /\ (<<>> \in Copied)' /\ Passed' /\ Returned'
  BY <1>1, <1>2 DEF IInv, TypeOK, Copied, Passed, Returned, Remote, InMap, TooDeep, IsFormat
<1>5. Verdicts' /\ VerdictIsExact' /\ Copies'
  BY <1>1, <1>2, <1>3 DEF IInv, Verdicts, VerdictIsExact, Copies
<1> QED
  BY <1>4, <1>5 DEF IInv

(* The inductive invariant of the walks (validateSchemaValue,              *)
(* normalizeSchemaValue): what was come to is sound and closed under       *)
(* parents, and complete below what the recursion has left.                *)
THEOREM CatalogSchemaInvariance == Spec => []IInv
<1>1. IInv /\ [Next]_vars => IInv'
  BY EnterKeeps, SkipKeeps, LeaveKeeps, WalkEnds, RequestKeeps, StutterKeeps DEF Next
<1> QED
  BY <1>1, InitiallyInv, PTL DEF Spec

------------------------------------------------------------------------------
(* Theorems                                                                *)

(* Type correctness, for all schemas and limits: the recursion is always   *)
(* in a value of the schema that it came to.                               *)
THEOREM CatalogSchemaTypeCorrect == Spec => []TypeOK
  BY CatalogSchemaInvariance, PTL DEF IInv

(* Accepted is exactly what is sound, in whatever order the maps come.     *)
THEOREM VerdictIsExactTheorem == Spec => []VerdictIsExact
  BY CatalogSchemaInvariance, PTL DEF IInv

LEMMA FormatFreeParent ==
  ASSUME NEW s, IsSchema(s), NEW path \in DOMAIN s \ {<<>>}
  PROVE  path \in FormatFree(s) <=>
           /\ Parent(path) \in FormatFree(s)
           /\ ~(s[Parent(path)] = "map" /\ KeyOf(path) = "format")
<1>1. path \in Paths /\ Parent(path) \in DOMAIN s
  BY DEF IsSchema, Paths
<1>2. /\ Len(path) \in Nat \ {0} /\ Parent(path) \in Paths /\ Len(Parent(path)) = Len(path) - 1
      /\ \A i \in 1..(Len(path) - 1) : Parent(path)[i] = path[i]
  BY <1>1, ParentProperties
<1>3. \A i \in 1..(Len(path) - 1) : SubSeq(Parent(path), 1, i - 1) = SubSeq(path, 1, i - 1)
  BY <1>1, <1>2, PrefixOfParent
<1> DEFINE Free(i) == path[i] = "format" => s[SubSeq(path, 1, i - 1)] # "map"
<1>4. Parent(path) \in FormatFree(s) <=> \A i \in 1..(Len(path) - 1) : Free(i)
  BY <1>1, <1>2, <1>3 DEF FormatFree
<1>5. path \in FormatFree(s) <=> \A i \in 1..Len(path) : Free(i)
  BY DEF FormatFree
<1>6. Free(Len(path)) <=> ~(s[Parent(path)] = "map" /\ KeyOf(path) = "format")
  BY DEF KeyOf, Parent
<1> HIDE DEF Free
<1>7. \A i \in 1..Len(path) : i \in 1..(Len(path) - 1) \/ i = Len(path)
  BY <1>2
<1>8. Len(path) \in 1..Len(path) /\ \A i \in 1..(Len(path) - 1) : i \in 1..Len(path)
  BY <1>2
<1> QED
  BY <1>4, <1>5, <1>6, <1>7, <1>8

LEMMA SentIsExact == ASSUME IInv PROVE PayloadIsExact
<1>1. contract = parsed
  BY DEF IInv, Copies
<1> SUFFICES ASSUME stage = "sent"
             PROVE  payload = [path \in FormatFree(contract.output) |-> contract.output[path]]
  BY <1>1 DEF PayloadIsExact
<1>2. /\ TypeOK /\ Returned /\ <<>> \in Copied /\ here = <<>> /\ Left = {}
      /\ Schema = contract.output /\ IsSchema(Schema) /\ SoundContract
      /\ Copied = DOMAIN payload /\ payload = [path \in DOMAIN payload |-> Schema[path]]
  BY SchemaTypes DEF IInv, Verdicts, VerdictIsExact, TypeOK, Copied, Copies
<1>3. <<>> \in DOMAIN Schema
  BY <1>2 DEF SoundContract, SoundSchema, IsSchema
<1> DEFINE Kept == FormatFree(Schema)
<1>4. Kept \subseteq DOMAIN Schema /\ DOMAIN Schema \subseteq Paths /\ <<>> \in Kept
  BY <1>2, <1>3, SchemaTypes DEF FormatFree
<1>5. \A path \in visited \ {<<>>} :
        Parent(path) \in Copied /\ (path \notin Copied <=> IsFormat(path))
  BY DEF IInv, Passed
<1>6. Copied \subseteq visited /\ Copied \subseteq DOMAIN Schema
  BY <1>2, <1>3, CopiedTypes DEF TypeOK
<1>7. \A path \in Copied \ {<<>>} :
        Parent(path) \in Copied /\ (Parent(path) \in Kept => path \in Kept)
  BY <1>2, <1>5, <1>6, FormatFreeParent DEF IsFormat, InMap
<1>8. \A path \in Kept \ {<<>>} :
        Parent(path) \in Kept /\ (Parent(path) \in Copied => path \in Copied)
  <2> SUFFICES ASSUME NEW path \in Kept \ {<<>>}
               PROVE  Parent(path) \in Kept /\ (Parent(path) \in Copied => path \in Copied)
    OBVIOUS
  <2>1. Parent(path) \in Kept /\ ~IsFormat(path)
    BY <1>2, <1>4, FormatFreeParent DEF IsFormat, InMap
  <2>2. ASSUME Parent(path) \in Copied PROVE path \in visited
    BY <1>2, <1>4, <2>2, AllReturned, ParentInSchema
  <2> QED
    BY <1>5, <2>1, <2>2
<1> HIDE DEF Kept
<1>9. Copied \subseteq Kept
  BY <1>4, <1>6, <1>7, Spread
<1>10. Kept \subseteq Copied
  BY <1>2, <1>4, <1>8, Spread
<1> QED
  BY <1>2, <1>9, <1>10 DEF Kept

(* Every request carries all and only what is not under a key "format" of  *)
(* the contract as it was parsed, and leaves the contract as it was.       *)
THEOREM PayloadIsExactTheorem == Spec => []PayloadIsExact
  BY CatalogSchemaInvariance, SentIsExact, PTL

------------------------------------------------------------------------------
(* A walk ends                                                             *)

(* What is left of a walk: a value that was not visited costs the way      *)
(* there and the way back, the value the recursion is in the way back.     *)
Unvisited == DOMAIN Schema \ visited
StepsLeft == 2 * Cardinality(Unvisited) + Len(here)

Walking == stage \in {"validating", "normalizing"}

WalkShrinks ==
  Walking /\ stage' = stage /\ side' = side => StepsLeft' < StepsLeft

(* A child that is visited is one value less.                              *)
LEMMA OneLess ==
  ASSUME TypeOK, NEW child \in Left, visited' = visited \cup {child}, Schema' = Schema
  PROVE  /\ Cardinality(Unvisited) \in Nat
         /\ Cardinality(Unvisited') = Cardinality(Unvisited) - 1
<1>1. IsFiniteSet(DOMAIN Schema)
  BY SchemaTypes DEF IsSchema
<1>2. IsFiniteSet(Unvisited) /\ Cardinality(Unvisited) \in Nat
  BY <1>1, FS_Subset, FS_CardinalityType DEF Unvisited
<1>3. child \in Unvisited /\ Unvisited' = Unvisited \ {child}
  BY ChildTypes DEF Unvisited
<1> QED
  BY <1>2, <1>3, FS_RemoveElement

(* Every step of a walk leaves less to do, or ends the walk.               *)
LEMMA StepsShrink ==
  ASSUME IInv, Next
  PROVE  WalkShrinks
<1> USE DEF IInv, WalkShrinks
<1>1. here \in Paths /\ Len(here) \in Nat
  BY SchemaTypes DEF Paths
<1>2. ASSUME NEW child \in Left, ValidateChild(child) \/ CopyChild(child)
      PROVE  WalkShrinks
  <2>1. /\ here' = child /\ visited' = visited \cup {child}
        /\ UNCHANGED <<contract, side>>
    BY <1>2 DEF ValidateChild, CopyChild, Enter, memory
  <2>2. Schema' = Schema
    BY <2>1 DEF Schema
  <2>3. Len(here) = Len(child) - 1 /\ Len(child) \in Nat
    BY ChildTypes, ParentProperties
  <2>4. Cardinality(Unvisited) \in Nat /\ Cardinality(Unvisited') = Cardinality(Unvisited) - 1
    BY <2>1, <2>2, OneLess
  <2> QED
    BY <2>1, <2>3, <2>4 DEF StepsLeft
<1>3. ASSUME NEW child \in Left, SkipChild(child)
      PROVE  WalkShrinks
  <2>1. here' = here /\ visited' = visited \cup {child} /\ Schema' = Schema
    BY <1>3 DEF SkipChild, Schema, memory
  <2>2. Cardinality(Unvisited) \in Nat /\ Cardinality(Unvisited') = Cardinality(Unvisited) - 1
    BY <2>1, OneLess
  <2> QED
    BY <1>1, <2>1, <2>2 DEF StepsLeft
<1>4. CASE Leave
  <2>1. here # <<>> /\ here' = Parent(here) /\ UNCHANGED <<contract, side, visited>>
    BY <1>4 DEF Leave, memory
  <2>2. Unvisited' = Unvisited /\ Len(here') = Len(here) - 1
    BY <1>1, <2>1, ParentProperties DEF Unvisited, Schema
  <2>3. Cardinality(Unvisited) \in Nat
    <3>1. IsFiniteSet(DOMAIN Schema)
      BY SchemaTypes DEF IsSchema
    <3> QED
      BY <3>1, FS_Subset, FS_CardinalityType DEF Unvisited
  <2> QED
    BY <1>1, <2>2, <2>3 DEF StepsLeft
<1>5. CASE RefuseSchema \/ InputValidated \/ OutputValidated \/ RefuseContract \/ Generate \/ Send
  BY <1>5 DEF RefuseSchema, InputValidated, OutputValidated, RefuseContract, Refuse,
              AllValidated, Generate, Send, Walking
<1> QED
  BY <1>2, <1>3, <1>4, <1>5 DEF Next

(* The recursions over a schema (validateSchemaValue, normalizeSchemaValue)*)
(* end after at most two steps for each value, in whatever order the maps  *)
(* come: no step of a walk leaves as much to do as there was.              *)
THEOREM WalkShrinksTheorem == Spec => [][WalkShrinks]_vars
<1>1. IInv /\ Next => WalkShrinks
  BY StepsShrink
<1> QED
  BY <1>1, CatalogSchemaInvariance, PTL DEF Spec

------------------------------------------------------------------------------
(* The catalog                                                             *)

LEMMA DocumentTypes ==
  ASSUME NEW d, IsDocument(d)
  PROVE  /\ Len(d.functionContracts) \in Nat /\ Len(d.agents) \in Nat
         /\ DOMAIN d.functionContracts = 1..Len(d.functionContracts)
         /\ DOMAIN d.agents = 1..Len(d.agents)
         /\ DOMAIN d = {"header", "contractVersion", "functionContracts", "agents"}
<1>1. /\ d = [header |-> d.header, contractVersion |-> d.contractVersion,
              functionContracts |-> d.functionContracts, agents |-> d.agents]
      /\ d.functionContracts \in Seq(Range(d.functionContracts))
      /\ d.agents \in Seq(Range(d.agents))
  BY DEF IsDocument
<1>2. Len(d.functionContracts) \in Nat /\ DOMAIN d.functionContracts = 1..Len(d.functionContracts)
  BY <1>1, LenProperties
<1>3. Len(d.agents) \in Nat /\ DOMAIN d.agents = 1..Len(d.agents)
  BY <1>1, LenProperties
<1> QED
  BY <1>1, <1>2, <1>3

LEMMA ListOfItsElements ==
  ASSUME NEW n \in Nat, NEW S, NEW list \in [1..n -> S]
  PROVE  list \in Seq(Range(list)) /\ Len(list) = n
<1>1. list \in [1..n -> Range(list)]
  BY DEF Range
<1> QED
  BY <1>1

(* Another list of contracts, or another list of agents, of one length.    *)
LEMMA ContractsReplaced ==
  ASSUME IsDocument(document), NEW S, NEW list \in [DOMAIN Listed -> S],
         \A i \in DOMAIN Listed : IsContract(list[i]),
         document' = [document EXCEPT !.functionContracts = list]
  PROVE  /\ IsDocument(document') /\ Listed' = list /\ Len(list) = Len(Listed)
         /\ document'.header = document.header
         /\ document'.contractVersion = document.contractVersion /\ Agents' = Agents
<1> DEFINE d == document
           e == document'
<1>1. Len(Listed) \in Nat /\ DOMAIN Listed = 1..Len(Listed)
  BY DocumentTypes DEF Listed
<1>2. IsDocument(d) /\ e = [d EXCEPT !.functionContracts = list]
  OBVIOUS
<1> HIDE DEF d, e
<1>3. /\ d = [header |-> d.header, contractVersion |-> d.contractVersion,
              functionContracts |-> d.functionContracts, agents |-> d.agents]
  BY <1>2 DEF IsDocument
<1>4. /\ e = [header |-> d.header, contractVersion |-> d.contractVersion,
              functionContracts |-> list, agents |-> d.agents]
  BY <1>2, <1>3
<1>5. /\ e.functionContracts = list
      /\ e.header = d.header /\ e.contractVersion = d.contractVersion /\ e.agents = d.agents
  BY <1>4
<1>6. list \in Seq(Range(list)) /\ Len(list) = Len(Listed)
  BY <1>1, ListOfItsElements
<1>7. IsDocument(e)
  BY <1>2, <1>4, <1>5, <1>6 DEF IsDocument
<1> QED
  BY <1>5, <1>6, <1>7 DEF d, e, Listed, Agents

LEMMA AgentsReplaced ==
  ASSUME IsDocument(document), NEW S, NEW list \in [DOMAIN Agents -> S],
         \A i \in DOMAIN Agents : IsAgent(list[i]),
         document' = [document EXCEPT !.agents = list]
  PROVE  /\ IsDocument(document') /\ Agents' = list /\ Len(list) = Len(Agents)
         /\ document'.header = document.header
         /\ document'.contractVersion = document.contractVersion /\ Listed' = Listed
<1> DEFINE d == document
           e == document'
<1>1. Len(Agents) \in Nat /\ DOMAIN Agents = 1..Len(Agents)
  BY DocumentTypes DEF Agents
<1>2. IsDocument(d) /\ e = [d EXCEPT !.agents = list]
  OBVIOUS
<1> HIDE DEF d, e
<1>3. /\ d = [header |-> d.header, contractVersion |-> d.contractVersion,
              functionContracts |-> d.functionContracts, agents |-> d.agents]
  BY <1>2 DEF IsDocument
<1>4. /\ e = [header |-> d.header, contractVersion |-> d.contractVersion,
              functionContracts |-> d.functionContracts, agents |-> list]
  BY <1>2, <1>3
<1>5. /\ e.agents = list /\ e.header = d.header /\ e.contractVersion = d.contractVersion
      /\ e.functionContracts = d.functionContracts
  BY <1>4
<1>6. list \in Seq(Range(list)) /\ Len(list) = Len(Agents)
  BY <1>1, ListOfItsElements
<1>7. IsDocument(e)
  BY <1>2, <1>4, <1>5, <1>6 DEF IsDocument
<1> QED
  BY <1>5, <1>6, <1>7 DEF d, e, Listed, Agents

(* What the loops write into an entry, and what they leave alone.          *)
LEMMA VersionedProperties ==
  ASSUME NEW c, IsContract(c)
  PROVE  /\ IsContract(Versioned(c)) /\ Versioned(c).version = document.contractVersion
         /\ Versioned(c).code = c.code /\ Versioned(c).format = c.format
         /\ Versioned(c).sound = c.sound
<1>1. c = [code |-> c.code, format |-> c.format, sound |-> c.sound, version |-> c.version]
  BY DEF IsContract
<1>2. Versioned(c) = [code |-> c.code, format |-> c.format, sound |-> c.sound,
                      version |-> document.contractVersion]
  BY <1>1 DEF Versioned
<1> QED
  BY <1>2 DEF IsContract

LEMMA CompletedProperties ==
  ASSUME NEW a, IsAgent(a)
  PROVE  /\ IsAgent(Completed(a)) /\ Completed(a).code = a.code
         /\ Completed(a).functionCode = a.functionCode /\ Completed(a).role = a.role
         /\ Completed(a).dependencies = a.dependencies /\ Completed(a).sound = a.sound
         /\ Completed(a).contract = [code |-> a.functionCode,
                                     format |-> contracts[a.functionCode].format]
<1> DEFINE own == [code |-> a.functionCode, format |-> contracts[a.functionCode].format]
<1> DEFINE root == (a.role = "root")
<1>1. a = [code |-> a.code, functionCode |-> a.functionCode, role |-> a.role,
           dependencies |-> a.dependencies, sound |-> a.sound,
           contract |-> a.contract, aggregate |-> a.aggregate]
      /\ a.code \in Nat /\ a.sound \in BOOLEAN
  BY DEF IsAgent
<1>2. Completed(a) = [a EXCEPT !.contract = own, !.aggregate = root]
  BY DEF Completed
<1> HIDE DEF own, root
<1>3. Completed(a) = [code |-> a.code, functionCode |-> a.functionCode, role |-> a.role,
                      dependencies |-> a.dependencies, sound |-> a.sound,
                      contract |-> own, aggregate |-> root]
  BY <1>1, <1>2
<1> QED
  BY <1>1, <1>3 DEF IsAgent, own

LEMMA InitiallyParse == ParseInit => ParseIInv
<1>1. SUFFICES ASSUME ParseInit PROVE ParseIInv
  OBVIOUS
<1>2. /\ IsDocument(document) /\ DOMAIN contracts = {} /\ codes = {} /\ index = 1
      /\ pass = "contracts"
  BY <1>1, DocumentsAssumption DEF ParseInit
<1>3. Len(Listed) \in Nat /\ Len(Agents) \in Nat
  BY <1>2, DocumentTypes DEF Listed, Agents
<1>4. ContractsSeen = 0 /\ AgentsSeen = 0 /\ 1..0 = {}
  BY <1>2 DEF ContractsSeen, AgentsSeen
<1>5. ParseTypeOK
  BY <1>2, <1>3 DEF ParseTypeOK
<1> QED
  BY <1>2, <1>3, <1>4, <1>5 DEF ParseIInv, ContractsFiled, AgentsCompleted

(* The document has the types it is said to have, and the lists are lists. *)
LEMMA ParseTypes ==
  ASSUME ParseTypeOK
  PROVE  /\ Len(Listed) \in Nat /\ Len(Agents) \in Nat /\ index \in Nat \ {0}
         /\ DOMAIN Listed = 1..Len(Listed) /\ DOMAIN Agents = 1..Len(Agents)
         /\ Listed \in [1..Len(Listed) -> Range(Listed)]
         /\ Agents \in [1..Len(Agents) -> Range(Agents)]
         /\ \A i \in 1..Len(Listed) : IsContract(Listed[i])
         /\ \A i \in 1..Len(Agents) : IsAgent(Agents[i])
<1>1. IsDocument(document)
  BY DEF ParseTypeOK
<1>2. /\ Len(Listed) \in Nat /\ Len(Agents) \in Nat
      /\ DOMAIN Listed = 1..Len(Listed) /\ DOMAIN Agents = 1..Len(Agents)
  BY <1>1, DocumentTypes DEF Listed, Agents
<1>3. Listed \in Seq(Range(Listed)) /\ Agents \in Seq(Range(Agents))
  BY <1>1 DEF IsDocument, Listed, Agents
<1>4. /\ \A i \in 1..Len(Listed) : IsContract(Listed[i])
      /\ \A i \in 1..Len(Agents) : IsAgent(Agents[i])
  BY <1>1, <1>2 DEF IsDocument, Listed, Agents
<1>5. index \in Nat \ {0}
  BY <1>2 DEF ParseTypeOK
<1> QED
  BY <1>2, <1>3, <1>4, <1>5, LenProperties

LEMMA ParseContractSound == ASSUME ParseIInv, ParseContract PROVE ParseIInv'
<1> DEFINE entry == Listed[index]
           list == [Listed EXCEPT ![index] = Versioned(entry)]
<1>1. ParseTypeOK /\ ContractsFiled /\ AgentsCompleted
  BY DEF ParseIInv, ParseContract
<1>2. /\ pass = "contracts" /\ index \in 1..Len(Listed) /\ ContractIsValid(entry)
      /\ document' = [document EXCEPT !.functionContracts = list]
      /\ contracts' = Filed(Versioned(entry)) /\ index' = index + 1
      /\ codes' = codes /\ pass' = pass
  <2>1. index \in Nat \ {0} /\ Len(Listed) \in Nat
    BY <1>1, ParseTypes
  <2>2. document' = [document EXCEPT !.functionContracts[index] = Versioned(document.functionContracts[index])]
    BY DEF ParseContract
  <2>3. document' = [document EXCEPT !.functionContracts = list]
    BY <2>2 DEF Listed
  <2> QED
    BY <2>1, <2>3 DEF ParseContract
<1>3. /\ IsContract(entry) /\ IsContract(Versioned(entry))
      /\ Versioned(entry).version = document.contractVersion
      /\ Versioned(entry).code = entry.code /\ Versioned(entry).sound = entry.sound
  BY <1>1, <1>2, ParseTypes, VersionedProperties
<1>4. /\ Len(Listed) \in Nat /\ DOMAIN Listed = 1..Len(Listed) /\ Len(Agents) \in Nat
      /\ Listed \in [1..Len(Listed) -> Range(Listed)]
      /\ \A i \in 1..Len(Listed) : IsContract(Listed[i])
  BY <1>1, ParseTypes
<1> HIDE DEF entry
<1>5. /\ list \in [DOMAIN Listed -> Range(Listed) \cup {Versioned(entry)}]
      /\ list[index] = Versioned(entry)
      /\ \A i \in 1..Len(Listed) : i # index => list[i] = Listed[i]
  BY <1>2, <1>4
<1> HIDE DEF list
<1>6. \A i \in DOMAIN Listed : IsContract(list[i])
  BY <1>3, <1>4, <1>5
<1>7. /\ IsDocument(document') /\ Listed' = list /\ Len(Listed') = Len(Listed)
      /\ document'.contractVersion = document.contractVersion /\ Agents' = Agents
  <2> DEFINE S == Range(Listed) \cup {Versioned(entry)}
  <2>1. IsDocument(document)
    BY <1>1 DEF ParseTypeOK
  <2>2. list \in [DOMAIN Listed -> S]
    BY <1>5
  <2>3. document' = [document EXCEPT !.functionContracts = list]
    BY <1>2
  <2> HIDE DEF S
  <2>4. /\ IsDocument(document') /\ Listed' = list /\ Len(list) = Len(Listed)
        /\ document'.contractVersion = document.contractVersion /\ Agents' = Agents
    BY <1>6, <2>1, <2>2, <2>3, ContractsReplaced
  <2> QED
    BY <2>4
<1>8. /\ DOMAIN contracts' = DOMAIN contracts \cup {entry.code}
      /\ contracts'[entry.code] = Versioned(entry)
      /\ \A code \in DOMAIN contracts : code # entry.code => contracts'[code] = contracts[code]
  BY <1>2, <1>3 DEF Filed
<1>9. entry.sound /\ entry.code \notin DOMAIN contracts
  BY <1>2 DEF ContractIsValid
<1>10. ParseTypeOK'
  <2>1. index' \in 1..(Len(Listed') + Len(Agents') + 1)
    BY <1>2, <1>4, <1>7
  <2>2. \A code \in DOMAIN contracts' :
          IsContract(contracts'[code]) /\ contracts'[code].code = code
    BY <1>1, <1>3, <1>8 DEF ParseTypeOK
  <2>3. codes' \subseteq Nat /\ pass' \in {"contracts", "agents", "sorting", "parsed", "refused"}
    BY <1>1, <1>2 DEF ParseTypeOK
  <2> QED
    BY <1>7, <2>1, <2>2, <2>3 DEF ParseTypeOK
<1>11. ContractsSeen = index - 1 /\ ContractsSeen' = index /\ AgentsSeen = 0 /\ AgentsSeen' = 0
  BY <1>2 DEF ContractsSeen, AgentsSeen
<1>12. /\ 1..index = (1..(index - 1)) \cup {index} /\ index \in 0..Len(Listed)
       /\ \A i \in 1..(index - 1) : i # index /\ i \in 1..Len(Listed)
  BY <1>2, <1>4
<1>13. /\ DOMAIN contracts = {Listed[i].code : i \in 1..(index - 1)}
       /\ \A i \in 1..(index - 1) :
            /\ Listed[i].sound /\ Listed[i].version = document.contractVersion
            /\ contracts[Listed[i].code] = Listed[i]
       /\ \A i, j \in 1..(index - 1) : Listed[i].code = Listed[j].code => i = j
  BY <1>1, <1>11 DEF ContractsFiled
<1>14. \A i \in 1..(index - 1) : list[i] = Listed[i] /\ Listed[i].code \in DOMAIN contracts
  BY <1>5, <1>12, <1>13
<1>15. DOMAIN contracts' = {list[i].code : i \in 1..index}
  BY <1>3, <1>5, <1>8, <1>12, <1>13, <1>14
<1>16. \A i \in 1..index :
         /\ list[i].sound /\ list[i].version = document.contractVersion
         /\ contracts'[list[i].code] = list[i]
  <2>1. ASSUME NEW i \in 1..(index - 1)
        PROVE  /\ list[i].sound /\ list[i].version = document.contractVersion
               /\ contracts'[list[i].code] = list[i]
    <3>1. list[i] = Listed[i] /\ Listed[i].code \in DOMAIN contracts
      BY <1>14
    <3>2. contracts'[Listed[i].code] = contracts[Listed[i].code]
      BY <1>8, <1>9, <3>1
    <3> QED
      BY <1>13, <3>1, <3>2
  <2>2. /\ list[index].sound /\ list[index].version = document.contractVersion
        /\ contracts'[list[index].code] = list[index]
    BY <1>3, <1>5, <1>8, <1>9
  <2> QED
    BY <1>12, <2>1, <2>2
<1>17. \A i, j \in 1..index : list[i].code = list[j].code => i = j
  BY <1>3, <1>5, <1>9, <1>12, <1>13, <1>14
<1>18. ContractsFiled'
  BY <1>7, <1>11, <1>12, <1>15, <1>16, <1>17 DEF ContractsFiled
<1>19. AgentsCompleted'
  <2>1. 1..0 = {}
    OBVIOUS
  <2>2. codes' = {} /\ 0 \in 0..Len(Agents')
    BY <1>1, <1>2, <1>4, <1>7, <1>11, <2>1 DEF AgentsCompleted
  <2> QED
    BY <1>11, <2>1, <2>2 DEF AgentsCompleted
<1> QED
  BY <1>2, <1>10, <1>18, <1>19 DEF ParseIInv

(* A step that leaves the document and the contracts alone.                *)
LEMMA ParsePassSound ==
  ASSUME ParseIInv, ContractsParsed \/ AgentsParsed
  PROVE  ParseIInv'
<1>1. ParseTypeOK /\ ContractsFiled /\ AgentsCompleted
  BY DEF ParseIInv, ContractsParsed, AgentsParsed
<1>2. /\ document' = document /\ contracts' = contracts /\ codes' = codes
      /\ Listed' = Listed /\ Agents' = Agents
  BY DEF ContractsParsed, AgentsParsed, Listed, Agents
<1>3. /\ Len(Listed) \in Nat /\ Len(Agents) \in Nat
  BY <1>1, ParseTypes
<1>4. /\ ContractsSeen' = ContractsSeen /\ AgentsSeen' = AgentsSeen
      /\ index' \in 1..(Len(Listed) + Len(Agents) + 1)
      /\ pass' \in {"agents", "sorting"}
      /\ document.header /\ DOMAIN contracts # {}
  <2>1. CASE ContractsParsed
    BY <1>2, <1>3, <2>1 DEF ContractsParsed, ContractsSeen, AgentsSeen
  <2>2. CASE AgentsParsed
    BY <1>1, <1>2, <1>3, <2>2 DEF AgentsParsed, ContractsSeen, AgentsSeen, ParseTypeOK, ParseIInv
  <2> QED
    BY <2>1, <2>2
<1>5. ParseTypeOK'
  BY <1>1, <1>2, <1>4 DEF ParseTypeOK
<1>6. ContractsFiled'
  BY <1>1, <1>2, <1>4 DEF ContractsFiled
<1>7. AgentsCompleted'
  BY <1>1, <1>2, <1>4 DEF AgentsCompleted, DependencyIsValid, RoleIsValid
<1> QED
  BY <1>2, <1>4, <1>5, <1>6, <1>7 DEF ParseIInv

(* An entry that does not pass is an offence of the document.              *)
LEMMA RefuseContractsDeserved == ASSUME ParseIInv, RefuseContracts PROVE ~WellFormed(document)
<1> DEFINE list == document.functionContracts
<1>1. ParseTypeOK /\ ContractsFiled
  BY DEF ParseIInv, RefuseContracts
<1>2. SUFFICES ASSUME WellFormed(document) PROVE FALSE
  OBVIOUS
<1>3. /\ document.header /\ {list[i].code : i \in DOMAIN list} # {}
      /\ \A i \in DOMAIN list : list[i].sound
      /\ \A i, j \in DOMAIN list : list[i].code = list[j].code => i = j
  BY <1>2 DEF WellFormed
<1>4. /\ Len(Listed) \in Nat /\ index \in Nat \ {0} /\ DOMAIN Listed = 1..Len(Listed)
      /\ ContractsSeen = index - 1 /\ Listed = list
  BY <1>1, ParseTypes DEF RefuseContracts, ContractsSeen, Listed
<1> HIDE DEF list
<1>5. DOMAIN contracts = {list[i].code : i \in 1..(index - 1)}
  BY <1>1, <1>4 DEF ContractsFiled
<1>6. CASE index <= Len(Listed) /\ ~ContractIsValid(Listed[index])
  <2>1. index \in DOMAIN list /\ \A i \in 1..(index - 1) : i \in DOMAIN list /\ i # index
    BY <1>4, <1>6
  <2>2. PICK i \in 1..(index - 1) : list[index].code = list[i].code
    BY <1>3, <1>4, <1>5, <1>6, <2>1 DEF ContractIsValid
  <2> QED
    BY <1>3, <2>1, <2>2
<1>7. CASE index = Len(Listed) + 1 /\ DOMAIN contracts = {}
  <2>1. DOMAIN list = 1..(index - 1)
    BY <1>4, <1>7
  <2> QED
    BY <1>3, <1>5, <1>7, <2>1
<1> QED
  BY <1>3, <1>6, <1>7 DEF RefuseContracts

LEMMA RefuseAgentsDeserved == ASSUME ParseIInv, RefuseAgents PROVE ~WellFormed(document)
<1> DEFINE list == document.functionContracts
           provided == {list[i].code : i \in DOMAIN list}
           agents == document.agents
<1>1. ParseTypeOK /\ ContractsFiled /\ AgentsCompleted
  BY DEF ParseIInv, RefuseAgents
<1>2. SUFFICES ASSUME WellFormed(document) PROVE FALSE
  OBVIOUS
<1>3. /\ \A i, j \in DOMAIN agents : agents[i].code = agents[j].code => i = j
      /\ \A i \in DOMAIN agents :
           /\ agents[i].sound /\ agents[i].functionCode \in provided
           /\ agents[i].role \in {"root", "specialist"}
           /\ agents[i].role = "root" <=> agents[i].dependencies # {}
           /\ \A dependency \in agents[i].dependencies :
                dependency.sound /\ dependency.functionCode \in provided
  BY <1>2 DEF WellFormed
<1>4. /\ Len(Agents) \in Nat /\ index \in Nat \ {0} /\ DOMAIN Agents = 1..Len(Agents)
      /\ AgentsSeen = index - 1 /\ Agents = agents /\ index <= Len(Agents)
      /\ ~AgentIsValid(Agents[index])
      /\ ContractsSeen = Len(Listed) /\ Listed = list /\ DOMAIN Listed = 1..Len(Listed)
  BY <1>1, ParseTypes DEF RefuseAgents, AgentsSeen, ContractsSeen, Agents, Listed
<1>5. DOMAIN contracts = provided
  BY <1>1, <1>4 DEF ContractsFiled
<1>6. codes = {agents[i].code : i \in 1..(index - 1)}
  BY <1>1, <1>4 DEF AgentsCompleted
<1> HIDE DEF list, agents, provided
<1>7. index \in DOMAIN agents /\ \A i \in 1..(index - 1) : i \in DOMAIN agents /\ i # index
  BY <1>4
<1>8. agents[index].code \notin codes
  BY <1>3, <1>6, <1>7
<1>9. RoleIsValid(agents[index])
  BY <1>3, <1>7 DEF RoleIsValid
<1>10. \A dependency \in agents[index].dependencies : DependencyIsValid(dependency)
  BY <1>3, <1>5, <1>7 DEF DependencyIsValid
<1> QED
  BY <1>3, <1>4, <1>5, <1>7, <1>8, <1>9, <1>10 DEF AgentIsValid

LEMMA RefuseSound == ASSUME ParseIInv, RefuseContracts \/ RefuseAgents PROVE ParseIInv'
<1>1. ~WellFormed(document)
  BY RefuseContractsDeserved, RefuseAgentsDeserved
<1>2. ParseTypeOK
  BY DEF ParseIInv
<1>3. /\ pass' = "refused" /\ document' = document /\ contracts' = contracts
      /\ codes' = codes /\ index' = index /\ Listed' = Listed /\ Agents' = Agents
  BY DEF RefuseContracts, RefuseAgents, RefuseDocument, Listed, Agents
<1>4. ParseTypeOK'
  BY <1>2, <1>3 DEF ParseTypeOK
<1> QED
  BY <1>1, <1>3, <1>4 DEF ParseIInv

LEMMA ParseAgentSound == ASSUME ParseIInv, ParseAgent PROVE ParseIInv'
<1> DEFINE entry == Agents[index]
           list == [Agents EXCEPT ![index] = Completed(entry)]
<1>1. /\ ParseTypeOK /\ ContractsFiled /\ AgentsCompleted
      /\ document.header /\ DOMAIN contracts # {}
  BY DEF ParseIInv, ParseAgent
<1>2. /\ pass = "agents" /\ index \in 1..Len(Agents) /\ AgentIsValid(entry)
      /\ document' = [document EXCEPT !.agents = list]
      /\ contracts' = contracts /\ index' = index + 1
      /\ codes' = codes \cup {entry.code} /\ pass' = pass
  <2>1. index \in Nat \ {0} /\ Len(Agents) \in Nat
    BY <1>1, ParseTypes
  <2>2. document' = [document EXCEPT !.agents[index] = Completed(document.agents[index])]
    BY DEF ParseAgent
  <2>3. document' = [document EXCEPT !.agents = list]
    BY <2>2 DEF Agents
  <2> QED
    BY <2>1, <2>3 DEF ParseAgent
<1>3. /\ IsAgent(entry) /\ IsAgent(Completed(entry))
      /\ Completed(entry).code = entry.code /\ Completed(entry).role = entry.role
      /\ Completed(entry).functionCode = entry.functionCode
      /\ Completed(entry).dependencies = entry.dependencies
      /\ Completed(entry).sound = entry.sound
      /\ Completed(entry).contract = [code |-> entry.functionCode,
                                      format |-> contracts[entry.functionCode].format]
  <2>1. IsAgent(entry)
    BY <1>1, <1>2, ParseTypes
  <2> HIDE DEF entry
  <2> QED
    BY <2>1, CompletedProperties
<1>4. /\ Len(Agents) \in Nat /\ DOMAIN Agents = 1..Len(Agents) /\ Len(Listed) \in Nat
      /\ Agents \in [1..Len(Agents) -> Range(Agents)]
      /\ \A i \in 1..Len(Agents) : IsAgent(Agents[i])
  BY <1>1, ParseTypes
<1> HIDE DEF entry
<1>5. /\ list \in [DOMAIN Agents -> Range(Agents) \cup {Completed(entry)}]
      /\ list[index] = Completed(entry)
      /\ \A i \in 1..Len(Agents) : i # index => list[i] = Agents[i]
  BY <1>2, <1>4
<1> HIDE DEF list
<1>6. \A i \in DOMAIN Agents : IsAgent(list[i])
  BY <1>3, <1>4, <1>5
<1>7. /\ IsDocument(document') /\ Agents' = list /\ Len(Agents') = Len(Agents)
      /\ document'.header = document.header
      /\ document'.contractVersion = document.contractVersion /\ Listed' = Listed
  <2> DEFINE S == Range(Agents) \cup {Completed(entry)}
  <2>1. IsDocument(document)
    BY <1>1 DEF ParseTypeOK
  <2>2. list \in [DOMAIN Agents -> S]
    BY <1>5
  <2>3. document' = [document EXCEPT !.agents = list]
    BY <1>2
  <2> HIDE DEF S
  <2>4. /\ IsDocument(document') /\ Agents' = list /\ Len(list) = Len(Agents)
        /\ document'.header = document.header
        /\ document'.contractVersion = document.contractVersion /\ Listed' = Listed
    BY <1>6, <2>1, <2>2, <2>3, AgentsReplaced
  <2> QED
    BY <2>4
<1>8. /\ entry.sound /\ entry.functionCode \in DOMAIN contracts /\ entry.code \notin codes
      /\ RoleIsValid(entry) /\ \A dependency \in entry.dependencies : DependencyIsValid(dependency)
  BY <1>2 DEF AgentIsValid
<1>9. ParseTypeOK'
  <2>1. index' \in 1..(Len(Listed') + Len(Agents') + 1)
    BY <1>2, <1>4, <1>7
  <2>2. entry.code \in Nat
    BY <1>3 DEF IsAgent
  <2> QED
    BY <1>1, <1>2, <1>7, <2>1, <2>2 DEF ParseTypeOK
<1>10. /\ ContractsSeen = Len(Listed) /\ ContractsSeen' = Len(Listed)
       /\ AgentsSeen = index - 1 /\ AgentsSeen' = index
  BY <1>2, <1>7 DEF ContractsSeen, AgentsSeen
<1>11. ContractsFiled'
  BY <1>1, <1>2, <1>7, <1>10 DEF ContractsFiled
<1>12. /\ 1..index = (1..(index - 1)) \cup {index} /\ index \in 0..Len(Agents)
       /\ \A i \in 1..(index - 1) : i # index /\ i \in 1..Len(Agents)
  BY <1>2, <1>4
<1> DEFINE Done(a) ==
             /\ a.sound /\ a.functionCode \in DOMAIN contracts
             /\ RoleIsValid(a) /\ \A dependency \in a.dependencies : DependencyIsValid(dependency)
             /\ a.contract = [code |-> a.functionCode, format |-> contracts[a.functionCode].format]
<1>13. /\ codes = {Agents[i].code : i \in 1..(index - 1)}
       /\ \A i \in 1..(index - 1) : Done(Agents[i])
       /\ \A i, j \in 1..(index - 1) : Agents[i].code = Agents[j].code => i = j
  BY <1>1, <1>10 DEF AgentsCompleted
<1>14. \A i \in 1..(index - 1) : list[i] = Agents[i] /\ Agents[i].code \in codes
  BY <1>5, <1>12, <1>13
<1>15. Done(list[index])
  BY <1>3, <1>5, <1>8 DEF RoleIsValid
<1> HIDE DEF Done
<1>16. \A i \in 1..index : Done(list[i])
  BY <1>12, <1>13, <1>14, <1>15
<1>17. codes' = {list[i].code : i \in 1..index}
  BY <1>2, <1>3, <1>5, <1>12, <1>13, <1>14
<1>18. \A i, j \in 1..index : list[i].code = list[j].code => i = j
  BY <1>3, <1>5, <1>8, <1>12, <1>13, <1>14
<1>19. AgentsCompleted'
  <2>1. AgentsSeen' \in 0..Len(Agents')
    BY <1>7, <1>10, <1>12
  <2>2. codes' = {Agents'[i].code : i \in 1..AgentsSeen'}
    BY <1>7, <1>10, <1>17
  <2>3. \A i, j \in 1..AgentsSeen' : Agents'[i].code = Agents'[j].code => i = j
    BY <1>7, <1>10, <1>18
  <2>4. ASSUME NEW i \in 1..AgentsSeen'
        PROVE  /\ Agents'[i].sound /\ Agents'[i].functionCode \in DOMAIN contracts'
               /\ RoleIsValid(Agents[i])'
               /\ \A dependency \in Agents'[i].dependencies : DependencyIsValid(dependency)'
               /\ Agents'[i].contract = [code |-> Agents'[i].functionCode,
                     format |-> contracts'[Agents'[i].functionCode].format]
    <3>1. Done(Agents'[i])
      BY <1>7, <1>10, <1>16, <2>4
    <3> QED
      BY <1>2, <3>1 DEF Done, RoleIsValid, DependencyIsValid
  <2> QED
    BY <2>1, <2>2, <2>3, <2>4 DEF AgentsCompleted
<1> QED
  BY <1>1, <1>2, <1>7, <1>9, <1>11, <1>19 DEF ParseIInv

(* The sort leaves the map alone, and what it holds is still all there is. *)
LEMMA CatalogSortSound == ASSUME ParseIInv, Sort PROVE ParseIInv'
<1>1. /\ ParseTypeOK /\ ContractsFiled /\ AgentsCompleted
      /\ document.header /\ DOMAIN contracts # {}
  BY DEF ParseIInv, Sort
<1>2. PICK order \in Bijection(DOMAIN Listed, DOMAIN Listed) :
        document' = [document EXCEPT !.functionContracts =
                       [i \in DOMAIN Listed |-> Listed[order[i]]]]
  BY DEF Sort
<1>3. /\ order \in [DOMAIN Listed -> DOMAIN Listed]
      /\ \A i, j \in DOMAIN Listed : order[i] = order[j] => i = j
      /\ \A k \in DOMAIN Listed : \E i \in DOMAIN Listed : order[i] = k
  BY <1>2 DEF Bijection, Injection, Surjection, IsInjective
<1> DEFINE list == [i \in DOMAIN Listed |-> Listed[order[i]]]
<1>4. /\ pass = "sorting" /\ pass' = "parsed" /\ contracts' = contracts /\ codes' = codes
      /\ index' = index
  BY DEF Sort
<1>5. /\ Len(Listed) \in Nat /\ DOMAIN Listed = 1..Len(Listed) /\ Len(Agents) \in Nat
      /\ Listed \in [1..Len(Listed) -> Range(Listed)]
      /\ \A i \in 1..Len(Listed) : IsContract(Listed[i])
  BY <1>1, ParseTypes
<1>6. /\ list \in [DOMAIN Listed -> Range(Listed)]
      /\ \A i \in DOMAIN Listed : list[i] = Listed[order[i]] /\ order[i] \in DOMAIN Listed
  BY <1>3, <1>5
<1>7. document' = [document EXCEPT !.functionContracts = list]
  BY <1>2
<1> HIDE DEF list
<1>8. \A i \in DOMAIN Listed : IsContract(list[i])
  BY <1>5, <1>6
<1>9. /\ IsDocument(document') /\ Listed' = list /\ Len(Listed') = Len(Listed)
      /\ document'.header = document.header
      /\ document'.contractVersion = document.contractVersion /\ Agents' = Agents
  <2>1. IsDocument(document)
    BY <1>1 DEF ParseTypeOK
  <2> DEFINE S == Range(Listed)
  <2>2. list \in [DOMAIN Listed -> S]
    BY <1>6
  <2> HIDE DEF S
  <2>3. /\ IsDocument(document') /\ Listed' = list /\ Len(list) = Len(Listed)
        /\ document'.header = document.header
        /\ document'.contractVersion = document.contractVersion /\ Agents' = Agents
    BY <1>7, <1>8, <2>1, <2>2, ContractsReplaced
  <2> QED
    BY <2>3
<1>10. ParseTypeOK'
  BY <1>1, <1>4, <1>9 DEF ParseTypeOK
<1>11. /\ ContractsSeen = Len(Listed) /\ ContractsSeen' = Len(Listed)
       /\ AgentsSeen = Len(Agents) /\ AgentsSeen' = Len(Agents)
  BY <1>4, <1>9 DEF ContractsSeen, AgentsSeen
<1>12. /\ DOMAIN contracts = {Listed[i].code : i \in DOMAIN Listed}
       /\ \A i \in DOMAIN Listed :
            /\ Listed[i].sound /\ Listed[i].version = document.contractVersion
            /\ contracts[Listed[i].code] = Listed[i]
       /\ \A i, j \in DOMAIN Listed : Listed[i].code = Listed[j].code => i = j
  BY <1>1, <1>5, <1>11 DEF ContractsFiled
<1>13. DOMAIN contracts = {list[i].code : i \in DOMAIN Listed}
  BY <1>3, <1>6, <1>12
<1>14. \A i \in DOMAIN Listed :
         /\ list[i].sound /\ list[i].version = document.contractVersion
         /\ contracts[list[i].code] = list[i]
  BY <1>6, <1>12
<1>15. \A i, j \in DOMAIN Listed : list[i].code = list[j].code => i = j
  BY <1>3, <1>6, <1>12
<1>16. ContractsFiled'
  <2>1. 1..ContractsSeen' = DOMAIN Listed /\ ContractsSeen' \in 0..Len(Listed')
    BY <1>5, <1>9, <1>11
  <2>2. DOMAIN contracts' = {Listed'[i].code : i \in 1..ContractsSeen'}
    BY <1>4, <1>9, <1>13, <2>1
  <2>3. \A i \in 1..ContractsSeen' :
          /\ Listed'[i].sound /\ Listed'[i].version = document'.contractVersion
          /\ contracts'[Listed'[i].code] = Listed'[i]
    BY <1>4, <1>9, <1>14, <2>1
  <2>4. \A i, j \in 1..ContractsSeen' : Listed'[i].code = Listed'[j].code => i = j
    BY <1>9, <1>15, <2>1
  <2> QED
    BY <2>1, <2>2, <2>3, <2>4 DEF ContractsFiled
<1>17. AgentsCompleted'
  BY <1>1, <1>4, <1>9, <1>11 DEF AgentsCompleted, RoleIsValid, DependencyIsValid
<1> QED
  BY <1>1, <1>4, <1>9, <1>10, <1>16, <1>17 DEF ParseIInv

(* Whatever the document: what Parse has gone through is valid, and its    *)
(* map and its set hold that and nothing else.                             *)
THEOREM ParseInvariance == ParseSpec => []ParseIInv
<1>1. ParseInit => ParseIInv
  BY InitiallyParse
<1>2. ParseIInv /\ [ParseNext]_parseVars => ParseIInv'
  <2>1. ASSUME ParseIInv, UNCHANGED parseVars PROVE ParseIInv'
    <3>1. /\ document' = document /\ contracts' = contracts /\ codes' = codes
          /\ index' = index /\ pass' = pass /\ Listed' = Listed /\ Agents' = Agents
      BY <2>1 DEF parseVars, Listed, Agents
    <3>2. ContractsSeen' = ContractsSeen /\ AgentsSeen' = AgentsSeen
      BY <3>1 DEF ContractsSeen, AgentsSeen
    <3>3. ParseTypeOK'
      BY <2>1, <3>1 DEF ParseTypeOK, ParseIInv
    <3>4. pass # "refused" => ContractsFiled'
      BY <2>1, <3>1, <3>2 DEF ParseIInv, ContractsFiled
    <3>5. pass # "refused" => AgentsCompleted'
      BY <2>1, <3>1, <3>2 DEF ParseIInv, AgentsCompleted, RoleIsValid, DependencyIsValid
    <3> QED
      BY <2>1, <3>1, <3>3, <3>4, <3>5 DEF ParseIInv
  <2> QED
    BY <2>1, ParseContractSound, ParsePassSound, RefuseSound, ParseAgentSound, CatalogSortSound
       DEF ParseNext
<1> QED
  BY <1>1, <1>2, PTL DEF ParseSpec

(* Type correctness, for all documents.                                    *)
THEOREM ParseTypeCorrect == ParseSpec => []ParseTypeOK
<1>1. ParseIInv => ParseTypeOK
  BY DEF ParseIInv
<1> QED
  BY <1>1, ParseInvariance, PTL

LEMMA WhenParsed ==
  ASSUME ParseIInv, pass = "parsed"
  PROVE  /\ DOMAIN Listed = 1..Len(Listed) /\ DOMAIN Agents = 1..Len(Agents)
         /\ document.header
         /\ DOMAIN contracts = {Listed[i].code : i \in 1..Len(Listed)} /\ DOMAIN contracts # {}
         /\ \A i \in 1..Len(Listed) :
              /\ Listed[i].sound /\ Listed[i].version = document.contractVersion
              /\ contracts[Listed[i].code] = Listed[i]
         /\ \A i, j \in 1..Len(Listed) : Listed[i].code = Listed[j].code => i = j
         /\ \A i \in 1..Len(Agents) :
              /\ Agents[i].sound /\ Agents[i].functionCode \in DOMAIN contracts
              /\ RoleIsValid(Agents[i])
              /\ \A dependency \in Agents[i].dependencies : DependencyIsValid(dependency)
              /\ Agents[i].contract = [code |-> Agents[i].functionCode,
                                       format |-> contracts[Agents[i].functionCode].format]
         /\ \A i, j \in 1..Len(Agents) : Agents[i].code = Agents[j].code => i = j
<1>1. /\ ParseTypeOK /\ ContractsFiled /\ AgentsCompleted
      /\ document.header /\ DOMAIN contracts # {}
  BY DEF ParseIInv
<1>2. ContractsSeen = Len(Listed) /\ AgentsSeen = Len(Agents)
  BY DEF ContractsSeen, AgentsSeen
<1>3. DOMAIN Listed = 1..Len(Listed) /\ DOMAIN Agents = 1..Len(Agents)
  BY <1>1, ParseTypes
<1> QED
  BY <1>1, <1>2, <1>3 DEF ContractsFiled, AgentsCompleted

(* In every parsed catalog the definition of an agent agrees with its      *)
(* contract and its version, after the sort too.                           *)
THEOREM DefinitionsMatchContractsTheorem == ParseSpec => []DefinitionsMatchContracts
<1>1. ASSUME ParseIInv, pass = "parsed", NEW i \in 1..Len(Agents)
      PROVE  \E j \in 1..Len(Listed) :
               /\ Agents[i].contract = [code |-> Listed[j].code, format |-> Listed[j].format]
               /\ Agents[i].functionCode = Listed[j].code
               /\ Listed[j].version = document.contractVersion
  <2>1. PICK j \in 1..Len(Listed) : Agents[i].functionCode = Listed[j].code
    BY <1>1, WhenParsed
  <2>2. Agents[i].contract = [code |-> Listed[j].code, format |-> contracts[Listed[j].code].format]
    BY <1>1, <2>1, WhenParsed
  <2>3. contracts[Listed[j].code] = Listed[j] /\ Listed[j].version = document.contractVersion
    BY <1>1, WhenParsed
  <2> QED
    BY <2>1, <2>2, <2>3
<1>2. ParseIInv => DefinitionsMatchContracts
  BY <1>1 DEF DefinitionsMatchContracts
<1> QED
  BY <1>2, ParseInvariance, PTL

(* Parse lets a document through exactly when the whole of it is           *)
(* well-formed, for documents of any size and in any order.                *)
THEOREM ParseIsExactTheorem == ParseSpec => []ParseIsExact
<1>1. ASSUME ParseIInv, pass = "parsed" PROVE WellFormed(document)
  <2> DEFINE provided == {document.functionContracts[i].code :
                            i \in DOMAIN document.functionContracts}
  <2>1. Listed = document.functionContracts /\ Agents = document.agents
    BY DEF Listed, Agents
  <2>2. DOMAIN contracts = provided /\ provided # {}
    <3>1. /\ DOMAIN Listed = 1..Len(Listed) /\ DOMAIN contracts # {}
          /\ DOMAIN contracts = {Listed[i].code : i \in 1..Len(Listed)}
      BY <1>1, WhenParsed
    <3> QED
      BY <2>1, <3>1
  <2>3. /\ document.header
        /\ \A i \in DOMAIN Listed : Listed[i].sound
        /\ \A i, j \in DOMAIN Listed : Listed[i].code = Listed[j].code => i = j
        /\ \A i, j \in DOMAIN Agents : Agents[i].code = Agents[j].code => i = j
    BY <1>1, WhenParsed
  <2> HIDE DEF provided
  <2>4. \A i \in DOMAIN Agents :
          /\ Agents[i].sound /\ Agents[i].functionCode \in provided
          /\ Agents[i].role \in {"root", "specialist"}
          /\ Agents[i].role = "root" <=> Agents[i].dependencies # {}
          /\ \A dependency \in Agents[i].dependencies :
               dependency.sound /\ dependency.functionCode \in provided
    BY <1>1, <2>2, WhenParsed DEF RoleIsValid, DependencyIsValid
  <2> QED
    BY <2>1, <2>2, <2>3, <2>4 DEF WellFormed, provided
<1>2. ParseIInv => ParseIsExact
  BY <1>1 DEF ParseIsExact, ParseIInv
<1> QED
  BY <1>2, ParseInvariance, PTL
==============================================================================
