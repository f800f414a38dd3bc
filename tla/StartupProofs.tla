---------------------------- MODULE StartupProofs ----------------------------
(***************************************************************************)
(* For every set of configurations, every width of a word and every length *)
(* of a second: the types of Startup, that its constructors accept what    *)
(* Load accepts, that only configured origins are called, that timeouts    *)
(* are exact, and that AgentStore lists what the process serves.           *)
(***************************************************************************)
EXTENDS Startup, TLAPS

------------------------------------------------------------------------------
(* Words                                                                   *)

LEMMA Doubled == Half \in Int /\ Half > 0 /\ 2 * Half \in Int /\ 2 * Half > 0
  BY WordAssumption

LEMMA RemainderRange ==
  ASSUME NEW a \in Int, NEW b \in Int, b > 0
  PROVE  a % b \in 0..(b - 1)
  OBVIOUS

LEMMA RemainderDiffers ==
  ASSUME NEW a \in Int, NEW b \in Int, b > 0
  PROVE  \E k \in Int : a % b = a + b * k
<1>1. a \div b \in Int /\ -(a \div b) \in Int /\ a % b \in Int
  OBVIOUS
<1>2. a = b * (a \div b) + (a % b)
  OBVIOUS
<1>3. b * (-(a \div b)) = -(b * (a \div b)) /\ b * (a \div b) \in Int
  BY <1>1
<1>4. a % b = a + b * (-(a \div b))
  BY <1>1, <1>2, <1>3
<1> QED
  BY <1>1, <1>4

LEMMA NoMultipleBetween ==
  ASSUME NEW b \in Int, b > 0, NEW k \in Int, -b < b * k, b * k < b
  PROVE  k = 0
  OBVIOUS

LEMMA WrapRange == ASSUME NEW x \in Int PROVE Wrap(x) \in Durations
<1>1. (x + Half) % (2 * Half) \in 0..((2 * Half) - 1)
  BY Doubled, RemainderRange
<1> QED
  BY <1>1, Doubled DEF Wrap, Durations

LEMMA WrapDiffers ==
  ASSUME NEW x \in Int
  PROVE  \E k \in Int : Wrap(x) = x + (2 * Half) * k
<1>1. PICK k \in Int : (x + Half) % (2 * Half) = x + Half + (2 * Half) * k
  BY Doubled, RemainderDiffers
<1>2. (2 * Half) * k \in Int
  BY Doubled
<1> QED
  BY <1>1, <1>2, Doubled DEF Wrap

(* Two words with the same bits, less than a word apart, are one word.     *)
LEMMA WrapIsNear ==
  ASSUME NEW x \in Int, -(2 * Half) < Wrap(x) - x, Wrap(x) - x < 2 * Half
  PROVE  Wrap(x) = x
<1>1. PICK k \in Int : Wrap(x) = x + (2 * Half) * k
  BY WrapDiffers
<1>2. (2 * Half) * k \in Int
  BY Doubled
<1>3. -(2 * Half) < (2 * Half) * k /\ (2 * Half) * k < 2 * Half
  BY <1>1, <1>2, Doubled
<1>4. k = 0
  BY <1>3, Doubled, NoMultipleBetween
<1> QED
  BY <1>1, <1>4, Doubled

LEMMA WrapExact == ASSUME NEW x \in Durations PROVE Wrap(x) = x
<1>1. x \in Int /\ Wrap(x) \in Durations
  BY Doubled, WrapRange DEF Durations
<1>2. -(2 * Half) < Wrap(x) - x /\ Wrap(x) - x < 2 * Half
  BY <1>1, Doubled DEF Durations
<1> QED
  BY <1>1, <1>2, WrapIsNear
------------------------------------------------------------------------------
(* Timeouts                                                                *)

LEMMA DurationsOfFile ==
  ASSUME NEW file \in Files
  PROVE  PerDepthTimeout(file) \in Durations /\ InvocationTimeout(file) \in Durations
<1>1. file.seconds * Second \in Int
  BY InputsAssumption, WordAssumption
<1>2. PerDepthTimeout(file) \in Durations
  BY <1>1, WrapRange DEF PerDepthTimeout
<1>3. PerDepthTimeout(file) * ExecutionGraphMaxDepth \in Int
  BY <1>2, Doubled DEF Durations, ExecutionGraphMaxDepth
<1> QED
  BY <1>2, <1>3, WrapRange DEF InvocationTimeout

(* The check of the quotient leaves no room for a product that wrapped.    *)
LEMMA ProductIsExact ==
  ASSUME NEW file \in Files, TimeoutIsValid(file)
  PROVE  /\ PerDepthTimeout(file) > 0
         /\ InvocationTimeout(file) = ExecutionGraphMaxDepth * PerDepthTimeout(file)
<1> DEFINE p == PerDepthTimeout(file)
<1> DEFINE inv == InvocationTimeout(file)
<1>1. p \in Int /\ inv \in Int /\ 0 < p /\ p < Half
  BY Doubled, DurationsOfFile DEF Durations, TimeoutIsValid
<1>2. PICK rest \in 0..(p - 1) : inv = 5 * p + rest
  BY DEF TimeoutIsValid, ExecutionGraphMaxDepth
<1>3. inv = Wrap(p * 5)
  BY DEF InvocationTimeout, ExecutionGraphMaxDepth
<1>4. p * 5 \in Int /\ -(2 * Half) < Wrap(p * 5) - p * 5 /\ Wrap(p * 5) - p * 5 < 2 * Half
  <2> HIDE DEF p, inv
  <2> QED
    BY <1>1, <1>2, <1>3, Doubled
<1>5. inv = p * 5
  BY <1>3, <1>4, WrapIsNear
<1> QED
  BY <1>1, <1>5 DEF ExecutionGraphMaxDepth

LEMMA TimeoutsAreExact ==
  ASSUME NEW p \in Durations, NEW inv \in Durations, p > 0, inv = ExecutionGraphMaxDepth * p,
         NEW length \in 1..ExecutionGraphMaxDepth
  PROVE  LET timeout == Wrap(p * (ExecutionGraphMaxDepth - length + 1))
         IN  /\ timeout = p * (ExecutionGraphMaxDepth - length + 1)
             /\ timeout > 0 /\ timeout <= inv
<1> DEFINE timeout == p * (ExecutionGraphMaxDepth - length + 1)
<1>1. p \in Int /\ inv \in Int /\ inv = 5 * p /\ inv < Half
  BY Doubled DEF Durations, ExecutionGraphMaxDepth
<1>2. timeout \in Int /\ timeout > 0 /\ timeout <= inv
  <2>1. length = 1 \/ length = 2 \/ length = 3 \/ length = 4 \/ length = 5
    BY DEF ExecutionGraphMaxDepth
  <2> QED
    BY <1>1, <2>1 DEF ExecutionGraphMaxDepth
<1>3. timeout \in Durations
  BY <1>1, <1>2, Doubled DEF Durations
<1> QED
  BY <1>2, <1>3, WrapExact

------------------------------------------------------------------------------
(* The inductive invariant: a process that is past Load runs under an      *)
(* accepted configuration, a callback was let through by this process, and *)
(* the manifests were rendered with an origin.                             *)

Admitted ==
  call # NoCall =>
    /\ server = "serving" /\ call.url \in AnyText /\ ValidateCallbackURL(call.url)
    /\ call.callPath \in 1..ExecutionGraphMaxDepth
    /\ call.timeout = CallbackTimeout(call.callPath)

Rendered ==
  advertised # NoManifests =>
    /\ advertised.origin \in AnyText
    /\ \E store \in Texts : advertised.manifest = RenderManifest(store, advertised.origin)

IInv ==
  /\ TypeOK
  /\ server # "down" => Acceptable(input)
  /\ Admitted /\ Rendered

LEMMA ConfigurationTypes ==
  ASSUME NEW in \in Inputs
  PROVE  /\ Configuration(in).perDepth = PerDepthTimeout(in.file)
         /\ Configuration(in).invocation = InvocationTimeout(in.file)
         /\ Configuration(in).origins = in.file.origins
         /\ Configuration(in).publicBaseURL = PublicBaseURL(in)
         /\ Configuration(in).perDepth \in Durations
         /\ Configuration(in).invocation \in Durations
         /\ in.file \in Files /\ in.file.origins \subseteq AnyText
<1>1. in.file \in Files
  BY DEF Inputs
<1>2. in.file.origins \subseteq AnyText
  BY <1>1, InputsAssumption
<1> QED
  BY <1>1, <1>2, DurationsOfFile DEF Configuration

LEMMA ParsedOriginType ==
  ASSUME NEW text \in AnyText
  PROVE  /\ ParseExactOrigin(text) \in AnyText
         /\ ParseExactOrigin(text).scheme = text.scheme
         /\ ParseExactOrigin(text).host = text.host
         /\ ParseExactOrigin(text).tail = text.tail
  BY DEF ParseExactOrigin, Rewritten, AnyText

LEMMA InitiallyInv == Init => IInv
<1> SUFFICES ASSUME Init PROVE IInv
  OBVIOUS
<1>1. TypeOK
  BY ConfigurationTypes DEF Init, TypeOK
<1> QED
  BY <1>1 DEF Init, IInv, Admitted, Rendered

LEMMA StepKeepsInv == ASSUME IInv, [Next]_vars PROVE IInv'
<1> USE DEF IInv
<1>1. ASSUME NEW in \in Inputs, Load(in) PROVE IInv'
  <2>1. config' = Configuration(in) /\ input' = in /\ server' = "loaded" /\ server = "down"
        /\ Acceptable(in) /\ UNCHANGED <<allowed, routes, call, advertised>>
    BY <1>1 DEF Load
  <2>2. call = NoCall
    BY <2>1 DEF Admitted
  <2>3. TypeOK'
    BY <2>1, <2>2, ConfigurationTypes DEF TypeOK
  <2>4. Admitted' /\ Rendered'
    BY <2>1, <2>2 DEF Admitted, Rendered
  <2> QED
    BY <2>1, <2>3, <2>4
<1>2. CASE New
  <2>1. server = "loaded" /\ server' = "serving" /\ allowed' = AllowedOrigins /\ routes' = Routes
        /\ UNCHANGED <<input, config, call, advertised>>
    BY <1>2 DEF New
  <2>2. call = NoCall
    BY <2>1 DEF Admitted
  <2>3. AllowedOrigins \subseteq AnyText
    BY ConfigurationTypes, ParsedOriginType DEF TypeOK, AllowedOrigins
  <2>4. AllowedOrigins' = AllowedOrigins /\ Routes' = Routes
    BY <2>1 DEF AllowedOrigins, Routes
  <2>5. TypeOK'
    BY <2>1, <2>2, <2>3, <2>4 DEF TypeOK
  <2>6. Admitted' /\ Rendered'
    BY <2>1, <2>2 DEF Admitted, Rendered
  <2> QED
    BY <2>1, <2>5, <2>6
<1>3. CASE Stop
  BY <1>3 DEF Stop, TypeOK, Admitted, Rendered
<1>4. ASSUME NEW url \in Texts, NEW length \in 1..ExecutionGraphMaxDepth, Callback(url, length)
      PROVE  IInv'
  <2>1. server = "serving" /\ ValidateCallbackURL(url)
        /\ call' = [url |-> url, callPath |-> length, timeout |-> CallbackTimeout(length)]
        /\ UNCHANGED <<server, input, config, allowed, routes, advertised>>
    BY <1>4 DEF Callback
  <2>2. url \in AnyText
    BY InputsAssumption
  <2>3. ValidateCallbackURL(url)' /\ CallbackTimeout(length)' = CallbackTimeout(length)
    BY <2>1 DEF ValidateCallbackURL, CallbackTimeout
  <2>4. AllowedOrigins' = AllowedOrigins /\ Routes' = Routes
    BY <2>1 DEF AllowedOrigins, Routes
  <2>5. TypeOK'
    BY <2>1, <2>4 DEF TypeOK
  <2>6. call'.url = url /\ call'.callPath = length /\ call'.timeout = CallbackTimeout(length)
    BY <2>1
  <2>7. Admitted'
    BY <2>1, <2>2, <2>3, <2>6 DEF Admitted
  <2> QED
    BY <2>1, <2>5, <2>7 DEF Rendered
<1>5. ASSUME NEW store \in Texts, NEW demo \in Texts, Bootstrap(store, demo)
      PROVE  IInv'
  <2>1. advertised' = [origin |-> demo, manifest |-> RenderManifest(store, demo)]
        /\ UNCHANGED <<server, input, config, allowed, routes, call>>
    BY <1>5 DEF Bootstrap
  <2>2. demo \in AnyText
    BY InputsAssumption
  <2>3. Rendered'
    BY <2>1, <2>2 DEF Rendered
  <2>4. AllowedOrigins' = AllowedOrigins /\ Routes' = Routes
    BY <2>1 DEF AllowedOrigins, Routes
  <2>5. TypeOK'
    BY <2>1, <2>4 DEF TypeOK
  <2>6. Admitted'
    BY <2>1 DEF Admitted, ValidateCallbackURL, CallbackTimeout
  <2> QED
    BY <2>1, <2>3, <2>5, <2>6
<1>6. CASE UNCHANGED vars
  BY <1>6 DEF vars, TypeOK, Admitted, Rendered, AllowedOrigins, Routes, ValidateCallbackURL,
     CallbackTimeout
<1> QED
  BY <1>1, <1>2, <1>3, <1>4, <1>5, <1>6 DEF Next

(* The inductive invariant of starts and restarts: the process runs under  *)
(* an input that Load accepted, and what was called or rendered was let    *)
(* through by the checks of the code.                                      *)
THEOREM StartupInvariance == Spec => []IInv
  BY InitiallyInv, StepKeepsInv, PTL DEF Spec

------------------------------------------------------------------------------
(* Theorems                                                                *)

(* The types, and that a serving process works with the origins and routes *)
(* of its own configuration.                                               *)
THEOREM StartupTypeCorrect == Spec => []TypeOK
  BY StartupInvariance, PTL DEF IInv

LEMMA AcceptedParts ==
  ASSUME NEW in, Acceptable(in)
  PROVE  /\ in.file.origins # {}
         /\ \A text \in in.file.origins : ValidateCallbackOrigin(text)
         /\ TimeoutIsValid(in.file)
  BY DEF Acceptable, PaymentIsAcceptable, CallbackIsAcceptable

LEMMA LoadedIsAccepted == ASSUME IInv PROVE AcceptedConfigurationServes
<1> SUFFICES ASSUME server = "loaded" PROVE NewAccepts
  BY DEF AcceptedConfigurationServes
<1>1. /\ Acceptable(input) /\ input \in Inputs
      /\ config.origins = input.file.origins /\ config.perDepth = PerDepthTimeout(input.file)
  BY ConfigurationTypes DEF IInv, TypeOK
<1>2. \A text \in config.origins : IsExactOrigin(text)
  BY <1>1, AcceptedParts DEF ValidateCallbackOrigin, IsExactOrigin
<1>3. AllowedOrigins # {}
  BY <1>1, AcceptedParts DEF AllowedOrigins
<1>4. config.perDepth > 0
  BY <1>1, AcceptedParts DEF TimeoutIsValid
<1> QED
  BY <1>2, <1>3, <1>4 DEF NewAccepts

(* The constructors of app.New accept every configuration that Load does.  *)
THEOREM AcceptedConfigurationServesTheorem == Spec => []AcceptedConfigurationServes
  BY StartupInvariance, LoadedIsAccepted, PTL

LEMMA AdmittedIsConfigured == ASSUME IInv PROVE OnlyConfiguredOrigins
<1> SUFFICES ASSUME call # NoCall
             PROVE  ~call.url.user /\ \E text \in input.file.origins : SameOrigin(call.url, text)
  BY DEF OnlyConfiguredOrigins
<1>1. call.url \in AnyText /\ ~call.url.user /\ Origin(call.url) \in AllowedOrigins
  BY DEF IInv, Admitted, ValidateCallbackURL, TypeOK
<1>2. PICK text \in config.origins : Origin(call.url) = ParseExactOrigin(text)
  BY <1>1 DEF AllowedOrigins
<1>3. text \in input.file.origins /\ text \in AnyText
  BY <1>2, ConfigurationTypes DEF IInv, TypeOK
<1>4. [call.url EXCEPT !.tail = ""] \in AnyText
      /\ [call.url EXCEPT !.tail = ""].scheme = call.url.scheme
      /\ [call.url EXCEPT !.tail = ""].host = call.url.host
  BY <1>1 DEF AnyText
<1>5. call.url.scheme = text.scheme /\ call.url.host = text.host
  BY <1>2, <1>3, <1>4, ParsedOriginType DEF Origin
<1> QED
  BY <1>1, <1>3, <1>5 DEF SameOrigin

(* Callbacks go to origins of the running configuration only, with no      *)
(* credentials in their URLs.                                              *)
THEOREM OnlyConfiguredOriginsTheorem == Spec => []OnlyConfiguredOrigins
  BY StartupInvariance, AdmittedIsConfigured, PTL

LEMMA AcceptedIsExact == ASSUME IInv PROVE DeadlinesAreExact
<1>1. ASSUME server # "down"
      PROVE  /\ config.perDepth > 0
             /\ config.invocation = ExecutionGraphMaxDepth * config.perDepth
  <2>1. input.file \in Files /\ TimeoutIsValid(input.file)
        /\ config.perDepth = PerDepthTimeout(input.file)
        /\ config.invocation = InvocationTimeout(input.file)
    BY <1>1, ConfigurationTypes, AcceptedParts DEF IInv, TypeOK
  <2> QED
    BY <2>1, ProductIsExact
<1>2. ASSUME call # NoCall
      PROVE  /\ call.timeout = config.perDepth * (ExecutionGraphMaxDepth - call.callPath + 1)
             /\ call.timeout > 0 /\ call.timeout <= config.invocation
  <2>1. /\ server # "down" /\ call.callPath \in 1..ExecutionGraphMaxDepth
        /\ call.timeout = Wrap(config.perDepth * (ExecutionGraphMaxDepth - call.callPath + 1))
        /\ config.perDepth \in Durations /\ config.invocation \in Durations
    BY <1>2 DEF IInv, Admitted, CallbackTimeout, TypeOK
  <2> QED
    BY <1>1, <2>1, TimeoutsAreExact
<1> QED
  BY <1>1, <1>2 DEF DeadlinesAreExact

(* No multiple of the timeout per depth has wrapped around, whatever the   *)
(* width of a word.                                                        *)
THEOREM DeadlinesAreExactTheorem == Spec => []DeadlinesAreExact
  BY StartupInvariance, AcceptedIsExact, PTL

LEMMA ServedIsAdvertised == ASSUME IInv PROVE AdvertisedAsServed
<1> SUFFICES ASSUME NEW code \in DOMAIN advertised.manifest, server = "serving"
             PROVE  /\ routes[code].terms = advertised.manifest[code].payment
                    /\ (/\ input.environment.publicBaseURL = advertised.origin
                        /\ ~advertised.origin.upperScheme)
                         => routes[code].resource = advertised.manifest[code].endpoint
  BY DEF AdvertisedAsServed
<1>1. advertised # NoManifests
  BY DEF NoManifests
<1> DEFINE demo == advertised.origin
<1>2. PICK store \in Texts : advertised.manifest = RenderManifest(store, demo) /\ demo \in AnyText
  BY <1>1 DEF IInv, Rendered
<1>3. /\ code \in Codes /\ advertised.manifest[code].payment = Terms[code]
      /\ advertised.manifest[code].endpoint = [base |-> ParseBaseURL(demo), code |-> code]
  BY <1>2 DEF RenderManifest, Endpoint
<1>4. /\ routes[code].terms = Terms[code]
      /\ routes[code].resource = Resource(PublicBaseURL(input), code)
  BY <1>3, ConfigurationTypes DEF IInv, TypeOK, Routes
<1>5. ASSUME input.environment.publicBaseURL = demo, ~demo.upperScheme
      PROVE  Resource(PublicBaseURL(input), code) = [base |-> ParseBaseURL(demo), code |-> code]
  <2>1. TrimRightSlash(demo) \in AnyText /\ TrimRightSlash(demo).tail # "/"
        /\ TrimRightSlash(demo).upperScheme = FALSE
    <3>1. demo \in AnyText /\ demo # NoText /\ ~demo.upperScheme
      BY <1>2, <1>5, InputsAssumption
    <3> HIDE DEF demo
    <3>2. CASE demo.tail = "/"
      <4>1. TrimRightSlash(demo) = [demo EXCEPT !.tail = ""]
        BY <3>1, <3>2 DEF TrimRightSlash
      <4>2. [demo EXCEPT !.tail = ""].upperScheme = demo.upperScheme
            /\ [demo EXCEPT !.tail = ""].tail = "" /\ [demo EXCEPT !.tail = ""] \in AnyText
        BY <3>1 DEF AnyText
      <4>3. demo.upperScheme = FALSE
        BY <3>1 DEF AnyText
      <4> QED
        BY <4>1, <4>2, <4>3
    <3>3. CASE demo.tail # "/"
      BY <3>1, <3>3 DEF TrimRightSlash, AnyText
    <3> QED
      BY <3>2, <3>3
  <2>2. PublicBaseURL(input) = TrimRightSlash(demo)
    BY <1>5 DEF PublicBaseURL
  <2>3. PublicBaseURL(input) # NoText
        /\ TrimRightSlash(PublicBaseURL(input)) = TrimRightSlash(demo)
    BY <2>1, <2>2, InputsAssumption DEF TrimRightSlash
  <2>4. ParseBaseURL(demo) = TrimRightSlash(demo)
    BY <2>1 DEF ParseBaseURL, Rewritten, AnyText
  <2> QED
    BY <2>3, <2>4 DEF Resource
<1> QED
  BY <1>3, <1>4, <1>5

(* AgentStore lists the resources and the terms that the process serves.   *)
THEOREM AdvertisedAsServedTheorem == Spec => []AdvertisedAsServed
  BY StartupInvariance, ServedIsAdvertised, PTL

==============================================================================
