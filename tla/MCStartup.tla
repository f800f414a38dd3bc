------------------------------ MODULE MCStartup ------------------------------
(***************************************************************************)
(* One sound file, and each way to change one thing about it.  A word has  *)
(* 256 values and a second is 10 of them: with 2 seconds everything fits,  *)
(* with 6 the product wraps to a positive value, with 26 the seconds wrap  *)
(* to a small positive value, with 13 to a negative one.                   *)
(***************************************************************************)
EXTENDS Startup

CONSTANTS store, planner

MCCodes == {store, planner}
MCTerms == [code \in MCCodes |-> IF code = store THEN [price |-> 1] ELSE [price |-> 2]]

api == [scheme |-> "http", upperScheme |-> FALSE, host |-> "api", upperHost |-> FALSE,
        user |-> FALSE, tail |-> ""]
other == [api EXCEPT !.scheme = "https", !.host = "other"]
Odd == {[api EXCEPT !.scheme = "ftp"], [api EXCEPT !.host = ""], [api EXCEPT !.user = TRUE],
        [api EXCEPT !.tail = "?query"], [api EXCEPT !.tail = "#fragment"],
        [api EXCEPT !.tail = "/path"], [api EXCEPT !.tail = "/"]}
Spelled == {[api EXCEPT !.upperScheme = TRUE], [api EXCEPT !.upperHost = TRUE]}
empty == [api EXCEPT !.tail = "?"]
Base == {[api EXCEPT !.tail = tail] : tail \in {"/", "/path", "?query", "#fragment"}}

file == [host |-> "localhost", port |-> 8090, mode |-> "fixture", model |-> "gpt",
         facilitator |-> other, seconds |-> 2, depth |-> 5, origins |-> {api}]
MCFiles ==
  {file, [file EXCEPT !.host = " "], [file EXCEPT !.port = 0], [file EXCEPT !.port = 65536],
   [file EXCEPT !.mode = "openai"], [file EXCEPT !.mode = "openai", !.model = ""],
   [file EXCEPT !.mode = "both"], [file EXCEPT !.depth = 6]}
  \cup {[file EXCEPT !.facilitator = text] : text \in Odd}
  \cup {[file EXCEPT !.seconds = seconds] : seconds \in {-1, 0, 3, 6, 13, 26}}
  \cup {[file EXCEPT !.origins = origins] :
          origins \in {{}, {api, other}} \cup {{text, other} : text \in Odd \cup Spelled \cup {empty}}}

flags == [host |-> "", port |-> 0, mode |-> ""]
MCFlags == {flags, [flags EXCEPT !.host = "0.0.0.0", !.port = 9090],
            [flags EXCEPT !.mode = "openai"]}

environment == [mode |-> "", key |-> "", publicBaseURL |-> NoText]
MCEnvironments ==
  {environment, [environment EXCEPT !.mode = "openai"],
   [environment EXCEPT !.mode = "openai", !.key = "key"]}
  \cup {[environment EXCEPT !.publicBaseURL = text] : text \in Base \cup Spelled \cup {other}}

MCTexts == {api, other, [other EXCEPT !.host = "api"], [api EXCEPT !.user = TRUE]}
           \cup Base \cup Spelled

(* The checked-in flags and environment, and plain callbacks.              *)
PlainFlags == {flags}
PlainEnvironments == {environment}
PlainTexts == {api, other}
==============================================================================
