--------------------------- MODULE MCCatalogSchema ---------------------------
(***************************************************************************)
(* A structured contract as they are in agents.yaml, and contracts with an *)
(* offence in the input or in the output schema, or without one of them;   *)
(* the deepest value that is allowed, and one below.                       *)
(***************************************************************************)
EXTENDS CatalogSchema, TLC

object == (<<>> :> "map") @@ (<<"type">> :> "object")
string == (<<>> :> "map") @@ (<<"type">> :> "string")
array == (<<>> :> "map") @@ (<<"type">> :> "array")
uri == string @@ (<<"format">> :> "uri")

(* The schema t below the path p of a schema.                              *)
At(p, t) ==
  [path \in {p \o q : q \in DOMAIN t} |-> t[SubSeq(path, Len(p) + 1, Len(path))]]
Of(p, value) == p :> value

Properties(name, t) == Of(<<"properties">>, "map") @@ At(<<"properties", name>>, t)
Required(a, b) ==
  Of(<<"required">>, "list") @@ Of(<<"required", "0">>, a) @@ Of(<<"required", "1">>, b)

section == object @@ Required("label", "value")
           @@ Properties("label", string) @@ Properties("value", uri)
sections == array @@ At(<<"items">>, section)
structured == object @@ Required("title", "sections")
              @@ Properties("title", string) @@ Properties("sections", sections)
optional == object @@ Of(<<"required">>, "list") @@ Of(<<"required", "0">>, "title")
            @@ Properties("title", string) @@ Properties("sections", sections)

input == object @@ Of(<<"$ref">>, "#local") @@ Of(<<"anyOf">>, "list")
         @@ At(<<"anyOf", "0">>, uri) @@ Of(<<"anyOf", "1">>, "#local")
remote == input @@ Of(<<"anyOf", "2">>, "map") @@ Of(<<"anyOf", "2", "$dynamicRef">>, "remote")
Not(s) == object @@ At(<<"not">>, s)
nested == input @@ At(<<"anyOf", "2">>, Not(Not(Not(object))))
deep == input @@ At(<<"anyOf", "2">>, Not(Not(Not(Not(object)))))
indexed == object @@ Of(<<"$ref">>, "map") @@ Of(<<"enum">>, "list") @@ Of(<<"enum", "0">>, "remote")
missing == <<>>
infinite == object @@ Of(<<"maximum">>, ".inf")
large == structured @@ At(<<"properties", "more">>, structured)

Contract(format, in, out) == [format |-> format, input |-> in, output |-> out]

MCContracts ==
  {Contract("STRUCTURED", input, structured), Contract("STRUCTURED", object, optional),
   Contract("STRUCTURED", input, uri),
   Contract("TEXT", nested, uri), Contract("MARKDOWN", object, object),
   Contract("HTML", object, string), Contract("JSON", object, At(<<>>, input))}
  \cup {Contract("JSON", s, uri) : s \in {string, missing, infinite, remote, deep, indexed, large}}
  \cup {Contract("JSON", object, s) : s \in {missing, infinite, remote, deep, indexed, large}}
==============================================================================
