---------------------------- MODULE CatalogSchema ----------------------------
(***************************************************************************)
(* The JSON schemas of one function contract: validateFunctionContract of  *)
(* catalog.go walks through both when the catalog is parsed, and           *)
(* normalizeSchemaForOpenAI copies the output schema without "format" for  *)
(* every request to OpenAI.  Both walks are recursions over Go maps, so    *)
(* the children of a value come in any order, and the first offence found  *)
(* ends the validation.                                                    *)
(*                                                                         *)
(* A schema is a function from paths to values: "map", "list" or a scalar, *)
(* and has no paths when it is missing.  A step of a path is the key in a  *)
(* map or the index in a list.  `here' is the path of the value the        *)
(* recursion is in.  The bytes of a schema are counted as values.          *)
(***************************************************************************)
EXTENDS Naturals, Sequences, FiniteSets

CONSTANTS
  Contracts,       \* function contracts: response format, input and output schema
  MaxSchemaDepth,
  MaxSchemaSize    \* maxSchemaBytes

Parent(path) == SubSeq(path, 1, Len(path) - 1)
KeyOf(path) == path[Len(path)]

IsSchema(s) ==
  /\ DOMAIN s \subseteq Seq(STRING) /\ IsFiniteSet(DOMAIN s)
  /\ DOMAIN s = {} \/ <<>> \in DOMAIN s
  /\ \A path \in DOMAIN s \ {<<>>} :
       Parent(path) \in DOMAIN s /\ s[Parent(path)] \in {"map", "list"}

ASSUME ContractsAssumption ==
  \A c \in Contracts :
    /\ c = [format |-> c.format, input |-> c.input, output |-> c.output]
    /\ IsSchema(c.input) /\ IsSchema(c.output)
ASSUME LimitsAssumption == MaxSchemaDepth \in Nat \ {0} /\ MaxSchemaSize \in Nat

VARIABLES
  parsed,    \* the contract as agents.yaml has it
  contract,  \* the contract in memory, which is validated, then used
  side,      \* which of its schemas is walked through
  here,      \* path of the value the recursion is in
  visited,   \* paths that were come to
  payload,   \* the copy that goes into a request
  stage      \* where the contract is

memory == <<parsed, contract>>

vars == <<parsed, contract, side, here, visited, payload, stage>>

Schema == contract[side]

Children(path) == {child \in DOMAIN Schema : child # <<>> /\ Parent(child) = path}

Left == Children(here) \ visited

References == {"$ref", "$dynamicRef"}

(* isLocalReference: a string that begins with "#".                        *)
IsLocalReference(value) == value = "#local"

InMap(path) == Schema[Parent(path)] = "map"

Remote(path) ==
  InMap(path) /\ KeyOf(path) \in References /\ ~IsLocalReference(Schema[path])

(* The root is validated with depth 1.                                     *)
DeepFromZero(path) == Len(path) > MaxSchemaDepth
TooDeep(path) == Len(path) + 1 > MaxSchemaDepth

(* json.Marshal has no number for what YAML calls .inf.                    *)
Encodable(s) == \A path \in DOMAIN s : s[path] # ".inf"

Fits ==
  /\ DOMAIN Schema # {} /\ Encodable(Schema)
  /\ Cardinality(DOMAIN Schema) <= MaxSchemaSize

------------------------------------------------------------------------------
(* matchesResponseFormat                                                   *)

TypeIs(s, path, type) ==
  Append(path, "type") \in DOMAIN s /\ s[Append(path, "type")] = type

ContainsRequired(s, path, name) ==
  \E entry \in DOMAIN s \ {<<>>} :
    Parent(entry) = Append(path, "required") /\ s[Parent(entry)] = "list" /\ s[entry] = name

MatchesStructuredSchema(s) ==
  LET property(name) == <<"properties", name>>
      item == <<"properties", "sections", "items">>
  IN  /\ TypeIs(s, <<>>, "object")
      /\ ContainsRequired(s, <<>>, "title") /\ ContainsRequired(s, <<>>, "sections")
      /\ TypeIs(s, property("title"), "string") /\ TypeIs(s, property("sections"), "array")
      /\ TypeIs(s, item, "object")
      /\ ContainsRequired(s, item, "label") /\ ContainsRequired(s, item, "value")
      /\ TypeIs(s, item \o property("label"), "string")

MatchesResponseFormat(format, s) ==
  \/ format \in {"TEXT", "MARKDOWN"} /\ TypeIs(s, <<>>, "string")
  \/ format = "STRUCTURED" /\ MatchesStructuredSchema(s)
  \/ format = "JSON"

------------------------------------------------------------------------------
(* The walks                                                               *)

Init ==
  /\ parsed \in Contracts /\ contract = parsed
  /\ side = "input" /\ stage = "validating"
  /\ here = <<>> /\ visited = {<<>>} /\ payload = <<>>

Enter(child) ==
  /\ here' = child /\ visited' = visited \cup {child}
  /\ UNCHANGED <<memory, side, stage>>

(* The recursion returns to the map or list that contains the value.       *)
Leave ==
  /\ stage \in {"validating", "normalizing"} /\ here # <<>> /\ Left = {}
  /\ here' = Parent(here)
  /\ UNCHANGED <<memory, side, visited, payload, stage>>

ValidateChild(child) ==
  /\ stage = "validating" /\ Fits
  /\ ~Remote(child) /\ ~TooDeep(child)
  /\ Enter(child) /\ UNCHANGED payload

Refuse ==
  /\ stage' = "refused"
  /\ UNCHANGED <<memory, side, here, visited, payload>>

RefuseSchema ==
  /\ stage = "validating"
  /\ ~Fits \/ \E child \in Left : Remote(child) \/ TooDeep(child)
  /\ Refuse

AllValidated == stage = "validating" /\ Fits /\ here = <<>> /\ Left = {}

InputValidated ==
  /\ AllValidated /\ side = "input"
  /\ TypeIs(Schema, <<>>, "object")
  /\ side' = "output" /\ visited' = {<<>>}
  /\ UNCHANGED <<memory, here, payload, stage>>

OutputValidated ==
  /\ AllValidated /\ side = "output"
  /\ MatchesResponseFormat(contract.format, Schema)
  /\ stage' = "accepted"
  /\ UNCHANGED <<memory, side, here, visited, payload>>

RefuseContract ==
  /\ AllValidated
  /\ \/ side = "input" /\ ~TypeIs(Schema, <<>>, "object")
     \/ side = "output" /\ ~MatchesResponseFormat(contract.format, Schema)
  /\ Refuse

(* A specialist's request to OpenAI, and the next one.                     *)
Generate ==
  /\ stage \in {"accepted", "sent"}
  /\ stage' = "normalizing" /\ here' = <<>> /\ visited' = {<<>>}
  /\ payload' = [path \in {<<>>} |-> Schema[path]]
  /\ UNCHANGED <<memory, side>>

IsFormat(path) == InMap(path) /\ KeyOf(path) = "format"

DeleteChild(child) ==
  /\ stage = "normalizing" /\ IsFormat(child)
  /\ LET kept == {path \in DOMAIN Schema :
                    ~(Len(path) >= Len(child) /\ SubSeq(path, 1, Len(child)) = child)}
     IN  contract' = [contract EXCEPT ![side] = [path \in kept |-> Schema[path]]]
  /\ UNCHANGED <<parsed, side, here, visited, payload, stage>>
SkipChild(child) ==
  /\ stage = "normalizing" /\ IsFormat(child)
  /\ visited' = visited \cup {child}
  /\ UNCHANGED <<memory, side, here, payload, stage>>

CopyChild(child) ==
  /\ stage = "normalizing" /\ ~IsFormat(child)
  /\ payload' = [path \in DOMAIN payload \cup {child} |->
                   IF path = child THEN Schema[path] ELSE payload[path]]
  /\ Enter(child)

Send ==
  /\ stage = "normalizing" /\ here = <<>> /\ Left = {}
  /\ stage' = "sent"
  /\ UNCHANGED <<memory, side, here, visited, payload>>

Next ==
  \/ Leave \/ RefuseSchema \/ InputValidated \/ OutputValidated \/ RefuseContract
  \/ Generate \/ Send
  \/ \E child \in Left : ValidateChild(child) \/ SkipChild(child) \/ CopyChild(child)

Spec == Init /\ [][Next]_vars

------------------------------------------------------------------------------
(* Properties                                                              *)

(* The recursion is in a value of the schema that it came to.              *)
TypeOK ==
  /\ contract \in Contracts /\ side \in {"input", "output"}
  /\ here \in visited /\ visited \subseteq DOMAIN Schema \cup {<<>>}
  /\ DOMAIN payload \subseteq visited /\ (stage = "normalizing" => here \in DOMAIN payload)
  /\ stage \in {"validating", "refused", "accepted", "normalizing", "sent"}
  /\ stage \in {"accepted", "normalizing", "sent"} => side = "output"

SoundSchema(s) ==
  /\ DOMAIN s # {} /\ Encodable(s) /\ Cardinality(DOMAIN s) <= MaxSchemaSize
  /\ \A path \in DOMAIN s \ {<<>>} :
       /\ Len(path) < MaxSchemaDepth
       /\ s[Parent(path)] = "map" /\ KeyOf(path) \in References => IsLocalReference(s[path])

SoundContract ==
  /\ SoundSchema(contract.input) /\ TypeIs(contract.input, <<>>, "object")
  /\ SoundSchema(contract.output) /\ MatchesResponseFormat(contract.format, contract.output)

(* In whatever order the maps are walked through, a contract is refused    *)
(* when one of its schemas is missing, too large, too deep, refers to the  *)
(* outside or does not fit the response format, and accepted otherwise: no *)
(* part of a schema escapes the validation, and a catalog loads always or  *)
(* never (catalog.go 210-258).                                             *)
VerdictIsExact ==
  /\ stage \in {"accepted", "normalizing", "sent"} => SoundContract
  /\ stage = "refused" => ~SoundContract

(* What is not under a key "format".                                       *)
FormatFree(s) ==
  {path \in DOMAIN s :
     \A i \in 1..Len(path) : path[i] = "format" => s[SubSeq(path, 1, i - 1)] # "map"}

(* Every request carries the whole output schema but for the values with a *)
(* key "format", at every level, in maps in lists too, as often as the     *)
(* contract is used; and the contract itself, which every request shares   *)
(* and which keeps its formats, stays as it was parsed (openai_client.go   *)
(* 134-156; HANDOFF.md:81-82).                                             *)
PayloadIsExact ==
  /\ contract = parsed
  /\ stage = "sent" =>
       payload = [path \in FormatFree(parsed.output) |-> parsed.output[path]]
==============================================================================
