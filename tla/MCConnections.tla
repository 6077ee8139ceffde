--------------------------- MODULE MCConnections ----------------------------
(***************************************************************************)
(* Instances of the parts that make and use connections: the client of a   *)
(* connection, TLS, the settings of HTTP clients and the Kibana client.    *)
(* The parts do not meet here: a behaviour is one of "part", and the       *)
(* others stay in an initial state.                                        *)
(***************************************************************************)
EXTENDS Client, Sequences

CONSTANTS rootA, interA, caF, sys, leafA, leafI, leafF, leafS, c1, c2, Nil, Loaded

VARIABLES
  part,
  cfg, state, pools, rootCAs, host, chain, verifying, into, chains,
  subject, settings, clients, written, headers, sent, steps, resp, limit, got, body,
  config, made, kibana, version, request, call, items, answers, result, calls

-----------------------------------------------------------------------------
(* TLS: a CA, an intermediate one, a CA known by its fingerprint and one   *)
(* of the system, each with a leaf.                                        *)
MCCerts == {rootA, interA, caF, sys, leafA, leafI, leafF, leafS}
MCIsCA == [x \in MCCerts |-> x \in {rootA, interA, caF, sys}]
MCKeyOf == [x \in MCCerts |-> x]
Issuer(x) == CASE x = leafA -> rootA [] x = leafI -> interA [] x = leafF -> caF
               [] x = leafS -> sys [] x = interA -> rootA [] OTHER -> x
RECURSIVE MCChains(_, _, _)
MCChains(x, inter, roots) ==
  IF x \in roots THEN {<<x>>}
  ELSE IF Issuer(x) # x /\ Issuer(x) \in (inter \cup roots) /\ MCIsCA[Issuer(x)]
  THEN {<<x>> \o p : p \in MCChains(Issuer(x), inter \ {x}, roots)}
  ELSE {}
Host1 == <<"a", "x">>
MCNamesOf == [x \in MCCerts |->
  CASE x = leafA -> [dns |-> << <<"b", "x">>, <<"*", "X">> >>, ips |-> {}, cn |-> <<>>]
    [] x = leafI -> [dns |-> << <<"_!", "x">>, Host1 >>, ips |-> {<<"ip">>}, cn |-> <<"c">>]
    [] x = leafF -> [dns |-> <<>>, ips |-> {}, cn |-> Host1]
    [] x = leafS -> [dns |-> << <<>> >>, ips |-> {}, cn |-> <<"ip">>]
    [] OTHER -> [dns |-> <<>>, ips |-> {}, cn |-> <<>>]]
MCLowerOf == [X |-> "x", A |-> "a"]
Block(o, e, k) == [owner |-> o, encrypted |-> e, opens |-> k]
MCPresented == {<<>>, <<leafA>>, <<leafI, interA>>, <<leafI>>, <<leafF, caF>>, <<leafF>>, <<leafS, sys>>, <<leafF, leafA>>}
Base == [role |-> "client", enabled |-> TRUE, mode |-> "full", cas |-> {}, auth |-> "",
         certificate |-> <<>>, key |-> <<>>, pins |-> {}, fingerprint |-> Nil, hex |-> TRUE]
Src(o, cs) == [ok |-> o, certs |-> cs]
Pair == <<Block(1, FALSE, FALSE)>>
MCSettings ==
  {[Base EXCEPT !.mode = m, !.cas = s, !.pins = p, !.fingerprint = f] :
     m \in {"full", "certificate", "strict", "none"}, s \in {{}, {Src(TRUE, {rootA})}},
     p \in {{}, {interA, caF}}, f \in {Nil, caF, leafF}}
  \cup {[Base EXCEPT !.role = "server", !.mode = m, !.cas = s, !.pins = p, !.auth = a,
                    !.certificate = Pair, !.key = Pair] :
     m \in {"full", "strict", "none"}, s \in {{}, {Src(TRUE, {rootA})}},
     p \in {{}, {interA}}, a \in {"", "none", "optional", "required"}}
  \cup {[Base EXCEPT !.role = "server"], [Base EXCEPT !.enabled = FALSE],
        [Base EXCEPT !.cas = {Src(TRUE, {rootA}), Src(FALSE, {})}],
        [Base EXCEPT !.hex = FALSE, !.fingerprint = caF],
        [Base EXCEPT !.certificate = Pair], [Base EXCEPT !.certificate = Pair, !.key = <<Block(2, FALSE, FALSE)>>],
        [Base EXCEPT !.certificate = Pair, !.key = <<Block(1, TRUE, FALSE)>>],
        [Base EXCEPT !.certificate = Pair, !.key = <<Block(1, TRUE, FALSE), Block(1, TRUE, TRUE)>>]}
MCHostNames == {[name |-> Host1, ip |-> FALSE], [name |-> <<"ip">>, ip |-> TRUE]}

Tls == INSTANCE TLS WITH
  pc <- verifying,
  Certs <- MCCerts, IsCA <- MCIsCA, KeyOf <- MCKeyOf, NamesOf <- MCNamesOf, LowerOf <- MCLowerOf,
  BadLabels <- {"_!"}, SystemRoots <- {sys}, Chains <- MCChains, Presented <- MCPresented,
  Settings <- MCSettings, HostNames <- MCHostNames, Conns <- {c1, c2}

-----------------------------------------------------------------------------
(* HTTP: options in several orders, settings that load and that do not,    *)
(* and every small body, length and limit.                                 *)
Adds(a, t) == [kind |-> "HeaderRoundTripper", value |-> [agent |-> a, trace |-> t]]
Stats(s) == [kind |-> "IOStats", value |-> s]
BaseDialer(d) == [kind |-> "BaseDialer", value |-> d]
NoProxy == [kind |-> "NOProxy"]
NoEnvironment == [kind |-> "WithoutProxyEnvironmentVariables"]
MCOptions ==
  {<< >>, <<NoProxy>>, <<NoEnvironment, Stats("stats"), Adds("x", ""), Adds("y", "t")>>,
   <<Adds("z", ""), NoProxy, NoEnvironment>>,
   <<BaseDialer("pipe"), Stats(""), [kind |-> "Keepalive", value |-> [on |-> FALSE, idle |-> 5]],
     BaseDialer(""), [kind |-> "HTTP2Only", value |-> TRUE]>>}
Transport(t, u, d, l) == [timeout |-> t, url |-> u, disable |-> d, tls |-> l]
NoResponse == [length |-> 0, status |-> 200, body |-> 0, fails |-> FALSE]
NotWritten == [agent |-> "", trace |-> ""]

Http == INSTANCE HttpSettings WITH
  Literals <- {Transport("1s", "p", TRUE, ""), Transport("1s", "", FALSE, "bad")},
  Configs <- {Transport("", "q", FALSE, "ok"), Transport("bad", "q", FALSE, ""),
              Transport("2s", "bad", TRUE, ""), Transport("2s", "", TRUE, "bad"),
              Transport("2s", "", TRUE, "")},
  OptionLists <- MCOptions, Names <- {"agent", "trace"},
  Written <- {NotWritten, [NotWritten EXCEPT !.agent = "mine"]},
  Responses <- [length : -1 .. 3, status : {200, 204}, body : 0 .. 3, fails : BOOLEAN],
  Limits <- -1 .. 3, MaxSteps <- 4

-----------------------------------------------------------------------------
(* Kibana: credentials in every combination that is told apart, and        *)
(* answers of every kind the client tells apart.                           *)
NoneAdded == [n \in {"Authorization", "Content-Type", "Accept", "kbn-xsrf", "User-Agent",
                     "x-elastic-internal-origin"} |-> << >>]
Url(s, h, u, p, name, port, path) ==
  [scheme |-> s, hasUser |-> h, user |-> u, pass |-> p, host |-> name, port |-> port, path |-> path]
Plain == [url |-> Url("", FALSE, "", "", "h", "", << >>), protocol |-> "https", path |-> << >>, space |-> "",
  username |-> "", password |-> "", apiKey |-> "", token |-> "", headers |-> NoneAdded, ignoreVersion |-> TRUE]
WithUser == Url("http", TRUE, "url", "secret", "::1", "80", <<"kb">>)
MCConfigs ==
  {[Plain EXCEPT !.ignoreVersion = FALSE],
   [Plain EXCEPT !.url = WithUser, !.username = "u", !.password = "p", !.space = "x"],
   [Plain EXCEPT !.url = WithUser, !.apiKey = "k"],
   [Plain EXCEPT !.url = Url("http", TRUE, "", "", "", "", << >>), !.apiKey = "k", !.space = "x"],
   [Plain EXCEPT !.username = "u", !.apiKey = "k"],
   [Plain EXCEPT !.username = "u", !.token = "t", !.headers["Content-Type"] = <<"text/plain">>],
   [Plain EXCEPT !.apiKey = "k", !.headers["User-Agent"] = <<"other">>,
     !.headers["Authorization"] = <<[scheme |-> "Basic", user |-> "h", secret |-> "h"]>>]}
Answer(st, j, m, su, e, v, it) == [arrives |-> TRUE, readable |-> TRUE, status |-> st, json |-> j,
  message |-> m, success |-> su, errors |-> e, value |-> v, items |-> it]
MCAnswers ==
  {Answer(200, TRUE, FALSE, TRUE, FALSE, "8.1", <<"i", "j">>), Answer(200, TRUE, FALSE, FALSE, TRUE, "serverless", <<"i">>),
   Answer(200, FALSE, FALSE, FALSE, FALSE, "", << >>), Answer(200, TRUE, FALSE, FALSE, FALSE, "serverless", << >>),
   Answer(500, TRUE, FALSE, FALSE, FALSE, "w", <<"i">>), Answer(404, TRUE, TRUE, FALSE, FALSE, "", << >>),
   Answer(302, FALSE, FALSE, FALSE, FALSE, "", << >>),
   [Answer(200, TRUE, FALSE, TRUE, FALSE, "8.1", << >>) EXCEPT !.readable = FALSE],
   [Answer(0, FALSE, FALSE, FALSE, FALSE, "", << >>) EXCEPT !.arrives = FALSE]}

Kb == INSTANCE Kibana WITH
  conn <- kibana, sent <- request,
  Configs <- MCConfigs, Versions <- {"8.1"}, Answers <- MCAnswers, MaxCalls <- 1

-----------------------------------------------------------------------------
tlsVars == <<cfg, state, pools, rootCAs, host, chain, verifying, into, chains>>
httpVars == <<subject, settings, clients, written, headers, sent, steps, resp, limit, got, body>>
kibanaVars == <<config, made, kibana, version, request, call, items, answers, result, calls>>

(* The choices Init leaves open are fixed for the parts that do not run.   *)
ConnectionsInit ==
  /\ part \in {"client", "tls", "http", "kibana"}
  /\ Init
  /\ part # "tls" => cfg = Base /\ host = [c \in {c1, c2} |-> CHOOSE h \in MCHostNames : TRUE]
  /\ Tls!Init
  /\ subject \in IF part = "http" THEN {"client", "body"} ELSE {"client"}
  /\ part # "http" \/ subject = "body" =>
       settings = Http!DefaultHTTPTransportSettings /\ written = NotWritten
  /\ subject = "client" => resp = NoResponse /\ limit = 0
  /\ Http!Init
  /\ part # "kibana" => config = CHOOSE c \in MCConfigs : TRUE
  /\ Kb!Init

ConnectionsNext ==
  \/ part = "client" /\ Next /\ UNCHANGED <<part, tlsVars, httpVars, kibanaVars>>
  \/ part = "tls" /\ Tls!Next /\ UNCHANGED <<part, vars, httpVars, kibanaVars>>
  \/ part = "http" /\ Http!Next /\ UNCHANGED <<part, vars, tlsVars, kibanaVars>>
  \/ part = "kibana" /\ Kb!Next /\ UNCHANGED <<part, vars, tlsVars, httpVars>>

ConnectionsSpec ==
  /\ ConnectionsInit /\ [][ConnectionsNext]_<<part, vars, tlsVars, httpVars, kibanaVars>>
  /\ \A t \in Threads : /\ WF_vars(part = "client" /\ Running /\ Dial(t))
                         /\ SF_vars(part = "client" /\ Running /\ HandleError(t))

(* A TLS connection is accepted only with a chain to a CA of the settings, *)
(* or to the CA with the trusted fingerprint, that passes the checks of    *)
(* the mode; a peer that shows the CA with the trusted fingerprint is not  *)
(* refused for what other connections do; and settings are loaded as a     *)
(* whole or not at all (src/transport/tlscommon/tls_config.go, tls.go).    *)
PeersVerified == Tls!AcceptedIsVerified /\ Tls!TrustedIsAccepted /\ Tls!LoadedWhole

(* HTTP clients use the proxy and the dialers their settings and options   *)
(* ask for in whatever order the options come, keep the headers of their   *)
(* callers, and read the whole body or what the limit allows               *)
(* (src/transport/httpcommon/httpcommon.go).                               *)
ClientsAsAsked == Http!BuiltAsAsked /\ Http!HeadersKept /\ Http!ReadExact

(* Requests to Kibana carry credentials of one kind, operations return     *)
(* what the answers hold, and uninstall tokens stay at the places they     *)
(* were listed at (src/kibana/client.go, fleet.go).                        *)
AnswersTrue == Kb!CredentialsExclusive /\ Kb!AnswersReported /\ Kb!TokensInPlace
=============================================================================
