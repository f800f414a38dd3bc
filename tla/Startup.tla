------------------------------- MODULE Startup -------------------------------
(***************************************************************************)
(* From the configuration to a serving process, and the catalog bootstrap  *)
(* that advertises the same agents: cmd/demo-agent with config.Load and    *)
(* app.New, cmd/catalog-bootstrap with bootstrap.New and renderManifest.   *)
(* The process may be stopped and started again with another               *)
(* configuration, before or after the agents were registered.              *)
(*                                                                         *)
(* The text of a URL is a record of what the checks look at.  A "?" with   *)
(* nothing behind it is a tail of its own: net/url gives such a text no    *)
(* query, and writes the "?" again.  Durations are signed words that wrap. *)
(* Reading files, the order of the checks and their messages are left out. *)
(***************************************************************************)
EXTENDS Integers

CONSTANTS
  Files,         \* contents of the configuration file
  Flags,         \* overrides of the command line, "" or 0 when absent
  Environments,  \* environment variables
  Texts,         \* texts of callback URLs and of the bootstrap's origins
  NoText,        \* DEMO_AGENT_PUBLIC_BASE_URL is not set
  Codes,         \* agents of the catalog, which both commands embed
  Terms,         \* their price and payTo
  Second,        \* time.Second in nanoseconds
  Half           \* half of the values of a word: 2^63 in the code

ExecutionGraphMaxDepth == 5

AnyText ==
  [scheme : {"http", "https", "ftp"}, upperScheme : BOOLEAN,
   host : {"", "api", "other"}, upperHost : BOOLEAN,
   user : BOOLEAN, tail : {"", "/", "/path", "?", "?query", "#fragment"}]

ASSUME InputsAssumption ==
  /\ Files \subseteq [host : STRING, port : Int, mode : STRING, model : STRING,
                      facilitator : AnyText, seconds : Int, depth : Int,
                      origins : SUBSET AnyText]
  /\ Flags \subseteq [host : STRING, port : Int, mode : STRING]
  /\ Environments \subseteq [mode : STRING, key : STRING,
                             publicBaseURL : AnyText \cup {NoText}]
  /\ Texts \subseteq AnyText /\ NoText \notin AnyText

ASSUME WordAssumption == Second \in Nat \ {0} /\ Half \in Nat \ {0}

VARIABLES
  server,      \* the server process: "down", "loaded" or "serving"
  input,       \* the file, flags and environment of its last start
  config,      \* what Load made of them
  allowed,     \* allowedOrigins of the callback client
  routes,      \* the priced routes of the payment middleware
  call,        \* the last callback that was let through
  advertised   \* AgentStore: the manifests, and the origin they were rendered with

vars == <<server, input, config, allowed, routes, call, advertised>>

NoCall == [url |-> NoText, callPath |-> 0, timeout |-> 0]
NoManifests == [origin |-> NoText, manifest |-> <<>>]

------------------------------------------------------------------------------
(* Texts of URLs                                                           *)

Blank(string) == string \in {"", " "}

TrimRightSlash(text) ==
  IF text # NoText /\ text.tail = "/" THEN [text EXCEPT !.tail = ""] ELSE text

(* Parsing a text and writing it again.                                    *)
Rewritten(text) == [text EXCEPT !.upperScheme = FALSE]

(* The condition of validateCallbackOrigin.  ParseRequestURI knows of no   *)
(* fragments: it refuses a host with a "#".                                *)
OriginWithAnyPath(text) ==
  /\ text.scheme \in {"http", "https"}
  /\ text.host # "" /\ ~text.user
  /\ text.tail \notin {"?query", "#fragment"}
ValidateCallbackOrigin(text) ==
  /\ text.scheme \in {"http", "https"}
  /\ text.host # "" /\ ~text.user
  /\ text.tail \in {"", "?"}

ValidatePublicBaseURL(text) == ValidateCallbackOrigin(text)

ValidateFacilitatorURL(text) ==
  /\ text.scheme \in {"http", "https"}
  /\ text.host # "" /\ ~text.user
  /\ text.tail # "#fragment"

(* parseExactOrigin checks the same again, and lowers the host.            *)
IsExactOrigin(text) ==
  /\ text.scheme \in {"http", "https"}
  /\ text.host # "" /\ ~text.user
  /\ text.tail \in {"", "?"}
ParseExactOrigin(text) == [Rewritten(text) EXCEPT !.upperHost = FALSE]

(* parseBaseURL of the bootstrap.                                          *)
IsBaseURL(text) == IsExactOrigin(TrimRightSlash(text))
ParseBaseURL(text) == Rewritten(TrimRightSlash(text))

------------------------------------------------------------------------------
(* Durations                                                               *)

(* The signed word with the bits of x.                                     *)
Wrap(x) == ((x + Half) % (2 * Half)) - Half

PerDepthTimeout(file) == Wrap(file.seconds * Second)
InvocationTimeout(file) == Wrap(PerDepthTimeout(file) * ExecutionGraphMaxDepth)

(* The quotient invocationTimeout / perDepthTimeout is the depth.  Of a    *)
(* positive by a negative number it is not positive.                       *)
TimeoutIsPositive(file) == PerDepthTimeout(file) > 0 /\ InvocationTimeout(file) > 0
TimeoutIsValid(file) ==
  /\ PerDepthTimeout(file) > 0 /\ InvocationTimeout(file) > 0
  /\ \E rest \in 0..(PerDepthTimeout(file) - 1) :
       InvocationTimeout(file) = ExecutionGraphMaxDepth * PerDepthTimeout(file) + rest

(* callbackTimeout, for a call path of the given length.                   *)
CallbackTimeout(length) ==
  Wrap(config.perDepth * (ExecutionGraphMaxDepth - length + 1))

------------------------------------------------------------------------------
(* config.Load                                                             *)

Inputs == [file : Files, flags : Flags, environment : Environments]

Host(in) == IF in.flags.host # "" THEN in.flags.host ELSE in.file.host
Port(in) == IF in.flags.port # 0 THEN in.flags.port ELSE in.file.port
AgentMode(in) ==
  CASE in.flags.mode # "" -> in.flags.mode
    [] in.flags.mode = "" /\ ~Blank(in.environment.mode) -> in.environment.mode
    [] OTHER -> in.file.mode
PublicBaseURL(in) == TrimRightSlash(in.environment.publicBaseURL)

ListenerIsAcceptable(in) ==
  /\ ~Blank(Host(in)) /\ Port(in) \in 1..65535
  /\ PublicBaseURL(in) # NoText => ValidatePublicBaseURL(PublicBaseURL(in))

ModeIsAcceptable(in) ==
  /\ AgentMode(in) \in {"fixture", "openai"}
  /\ AgentMode(in) = "openai" => ~Blank(in.environment.key) /\ in.file.model # ""

PaymentIsAcceptable(file) ==
  /\ ValidateFacilitatorURL(file.facilitator)
  /\ file.seconds > 0 /\ file.depth = ExecutionGraphMaxDepth
  /\ TimeoutIsValid(file)

CallbackIsAcceptable(file) ==
  file.origins # {} /\ \A text \in file.origins : ValidateCallbackOrigin(text)

Acceptable(in) ==
  /\ ListenerIsAcceptable(in) /\ ModeIsAcceptable(in)
  /\ PaymentIsAcceptable(in.file) /\ CallbackIsAcceptable(in.file)

Configuration(in) ==
  [host |-> Host(in), port |-> Port(in), publicBaseURL |-> PublicBaseURL(in),
   mode |-> AgentMode(in), origins |-> in.file.origins,
   perDepth |-> PerDepthTimeout(in.file), invocation |-> InvocationTimeout(in.file)]

Init ==
  /\ server = "down" /\ input \in Inputs /\ config = Configuration(input)
  /\ allowed = {} /\ routes = <<>>
  /\ call = NoCall /\ advertised = NoManifests

(* After a configuration that is not accepted the process is down again.   *)
Load(in) ==
  /\ server = "down"
  /\ Acceptable(in)
  /\ server' = "loaded" /\ input' = in /\ config' = Configuration(in)
  /\ UNCHANGED <<allowed, routes, call, advertised>>

------------------------------------------------------------------------------
(* app.New: the callback client and the payment middleware                 *)

AllowedOrigins == {ParseExactOrigin(text) : text \in config.origins}

NewAccepts ==
  /\ \A text \in config.origins : IsExactOrigin(text)
  /\ AllowedOrigins # {} /\ config.perDepth > 0

(* Without a public base URL the middleware takes the URL of the request.  *)
Resource(base, code) ==
  IF base = NoText THEN NoText ELSE [base |-> TrimRightSlash(base), code |-> code]

Routes ==
  [code \in Codes |-> [resource |-> Resource(config.publicBaseURL, code),
                       terms |-> Terms[code]]]

New ==
  /\ server = "loaded"
  /\ NewAccepts
  /\ server' = "serving" /\ allowed' = AllowedOrigins /\ routes' = Routes
  /\ UNCHANGED <<input, config, call, advertised>>

(* The operator stops the process, or it crashes: nothing of it is kept.   *)
Stop ==
  /\ server = "serving"
  /\ server' = "down" /\ allowed' = {} /\ routes' = <<>> /\ call' = NoCall
  /\ UNCHANGED <<input, config, advertised>>

(* validateCallbackURL                                                     *)
Origin(url) == ParseExactOrigin([url EXCEPT !.tail = ""])

HostIsAllowed(url) ==
  /\ ~url.user /\ url.tail \notin {"?query", "#fragment"} /\ url.host # ""
  /\ \E origin \in allowed : origin.host = url.host
ValidateCallbackURL(url) ==
  /\ ~url.user /\ url.tail \notin {"?query", "#fragment"} /\ url.host # ""
  /\ url.scheme \in {"http", "https"}
  /\ Origin(url) \in allowed

(* A request has a dependency called; a refused one leaves no trace.       *)
Callback(url, length) ==
  /\ server = "serving"
  /\ ValidateCallbackURL(url)
  /\ call' = [url |-> url, callPath |-> length, timeout |-> CallbackTimeout(length)]
  /\ UNCHANGED <<server, input, config, allowed, routes, advertised>>

------------------------------------------------------------------------------
(* catalog-bootstrap: both of its flags, then the manifests (their         *)
(* registration is the subject of CatalogBootstrap, which lets no later    *)
(* run replace them).                                                      *)

EndpointUntrimmed(store, demo, code) == [base |-> Rewritten(demo), code |-> code]
Endpoint(store, demo, code) == [base |-> ParseBaseURL(demo), code |-> code]

RenderManifest(store, demo) ==
  [code \in Codes |-> [endpoint |-> Endpoint(store, demo, code), payment |-> Terms[code]]]

Bootstrap(store, demo) ==
  /\ advertised = NoManifests
  /\ IsBaseURL(store) /\ IsBaseURL(demo)
  /\ advertised' = [origin |-> demo, manifest |-> RenderManifest(store, demo)]
  /\ UNCHANGED <<server, input, config, allowed, routes, call>>

Next ==
  \/ \E in \in Inputs : Load(in)
  \/ New \/ Stop
  \/ \E url \in Texts, length \in 1..ExecutionGraphMaxDepth : Callback(url, length)
  \/ \E store, demo \in Texts : Bootstrap(store, demo)

Spec == Init /\ [][Next]_vars

------------------------------------------------------------------------------
(* Properties                                                              *)

Durations == -Half..(Half - 1)

(* A started process works under a configuration that was accepted.        *)
TypeOK ==
  /\ server \in {"down", "loaded", "serving"}
  /\ input \in Inputs /\ config = Configuration(input)
  /\ config.perDepth \in Durations /\ config.invocation \in Durations
  /\ allowed \subseteq AnyText
  /\ server = "serving" => allowed = AllowedOrigins /\ routes = Routes
  /\ call # NoCall => call.url \in Texts /\ call.callPath \in 1..ExecutionGraphMaxDepth

(* What Load accepts, the constructors behind it accept too, although they *)
(* check origins and timeouts by themselves: an operator who got past the  *)
(* configuration does not meet an error of the callback client.            *)
AcceptedConfigurationServes == server = "loaded" => NewAccepts

SameOrigin(s, t) ==
  s.scheme = t.scheme /\ s.host = t.host

(* Authorization and payment of a callback go to a scheme and host of the  *)
(* running configuration only, and no credentials in its URL, whatever the *)
(* case and the tail of the URL and whatever configuration the process ran *)
(* under before.                                                           *)
OnlyConfiguredOrigins ==
  call # NoCall =>
    ~call.url.user /\ \E text \in input.file.origins : SameOrigin(call.url, text)

(* No multiple of the timeout per depth that the process arms has wrapped  *)
(* around: it is exact at every depth, positive, and within that of the    *)
(* invocation.  (That the timeout per depth is what the file says is       *)
(* another matter: BudgetIsAsConfigured.)                                  *)
DeadlinesAreExact ==
  /\ server # "down" =>
       config.perDepth > 0 /\ config.invocation = ExecutionGraphMaxDepth * config.perDepth
  /\ call # NoCall =>
       /\ call.timeout = config.perDepth * (ExecutionGraphMaxDepth - call.callPath + 1)
       /\ call.timeout > 0 /\ call.timeout <= config.invocation

(* Whoever gives both commands the same origin, with or without the slash  *)
(* and with a scheme in lower case, has the process ask for payment of the *)
(* very resource, at the very terms, that AgentStore lists.                *)
AdvertisedAsServed ==
  \A code \in DOMAIN advertised.manifest :
    server = "serving" =>
      /\ routes[code].terms = advertised.manifest[code].payment
      /\ (input.environment.publicBaseURL = advertised.origin /\ ~advertised.origin.upperScheme)
           => routes[code].resource = advertised.manifest[code].endpoint

(* "payment aggregate invocation timeout is invalid" is what Load says of  *)
(* a product that does not fit: a node's budget would be the configured    *)
(* number of seconds.  It does not hold: the seconds wrap before.          *)
BudgetIsAsConfigured ==
  server # "down" => config.perDepth = input.file.seconds * Second
==============================================================================
