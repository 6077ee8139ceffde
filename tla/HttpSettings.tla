---------------------------- MODULE HttpSettings ----------------------------
(***************************************************************************)
(* The settings of HTTP clients (src/transport/httpcommon): settings are   *)
(* unpacked from configurations, clients are built from them with options, *)
(* requests go through the round trippers of a client, and the body of a   *)
(* response is read with a limit.  Texts are model values or members of    *)
(* small sets; "" is what is not set, "bad" what does not parse or load.   *)
(* A behaviour builds and uses clients, or reads one body.                 *)
(***************************************************************************)
EXTENDS Integers, Sequences
LOCAL INSTANCE SequencesExt

CONSTANTS
  Literals,     \* settings a program may have filled in by itself
  Configs,      \* the configurations to unpack: [timeout, url, disable, tls]
  OptionLists,  \* the options a client is built with
  Names,        \* names of headers
  Written,      \* the headers a caller may have set: name -> value or ""
  Responses,    \* [length, status, body, fails]: Content-Length or -1, what comes and how it ends
  Limits,       \* limits for ReadAllWithLimit
  MaxSteps      \* bound on Unpack, Client and RoundTrip

VARIABLES
  subject,   \* "client" or "body"
  settings,  \* HTTPTransportSettings
  clients,   \* the clients built: [from, opts, rt]
  written,   \* what the caller set in the request
  headers,   \* the headers of that request now
  sent,      \* the clients it was sent with, in order
  steps,
  resp, limit,  \* the arguments of ReadAllWithLimit
  got,       \* number of bytes read from the body
  body       \* "reading", "error" or "ok"

vars == <<subject, settings, clients, written, headers, sent, steps, resp, limit, got, body>>
bodyVars == <<resp, limit, got, body>>

DefaultHTTPTransportSettings == [timeout |-> "90s", url |-> "", disable |-> FALSE, tls |-> ""]

Init ==
  /\ subject \in {"client", "body"}
  /\ settings \in {DefaultHTTPTransportSettings} \cup Literals
  /\ clients = << >>
  /\ written \in Written
  /\ headers = written
  /\ sent = << >>
  /\ steps = 0
  /\ resp \in Responses
  /\ limit \in Limits
  /\ got = 0
  /\ body = "reading"

-----------------------------------------------------------------------------
(* NewHTTPClientProxySettings, through NewProxyURIFromString: "" is no URL.*)
ProxySettings(cfg) == [url |-> cfg.url, disable |-> cfg.disable]

(* Unpack: the timeout is kept if the configuration has none; the proxy    *)
(* and TLS are replaced.  On any error the settings stay as they were.     *)
Unpack(cfg) ==
  /\ LET timeout == IF cfg.timeout = "" THEN settings.timeout ELSE cfg.timeout
         proxy == ProxySettings(cfg)
         failed == timeout = "bad" \/ proxy.url = "bad" \/ cfg.tls = "bad"
     IN settings' = IF failed THEN settings
                    ELSE [timeout |-> timeout, url |-> proxy.url, disable |-> proxy.disable,
                          tls |-> cfg.tls]
  /\ UNCHANGED <<clients, written, headers, sent>>

-----------------------------------------------------------------------------
Of(kind, opts) == SelectSeq(opts, LAMBDA opt : opt.kind = kind)
LastOf(kind, opts, default) ==
  LET all == Of(kind, opts)
  IN IF all = << >> THEN default ELSE all[Len(all)].value

(* ProxyFunc: "none", "environment" or the URL. *)
ProxyFunc(s) == IF s.disable THEN "none" ELSE IF s.url = "" THEN "environment" ELSE s.url

(* The options that change the http.Transport. *)
applyTransport(s, t, opt) ==
  CASE opt.kind = "NOProxy" -> [t EXCEPT !.proxy = "none"]
    [] opt.kind = "WithoutProxyEnvironmentVariables" ->
         [t EXCEPT !.proxy = IF s.disable \/ s.url = "" THEN "none" ELSE @]
    [] opt.kind = "Keepalive" ->
         [t EXCEPT !.keepalive = opt.value.on,
                   !.idle = IF opt.value.idle = 0 THEN @ ELSE opt.value.idle]
    [] OTHER -> t

(* httpRoundTripper: a clone of the default transport, whose idle time is  *)
(* 90 s; the proxy of the settings; then the options, in order.            *)
httpRoundTripper(s, opts) ==
  FoldLeft(LAMBDA t, opt : applyTransport(s, t, opt),
           [proxy |-> ProxyFunc(s), keepalive |-> TRUE, idle |-> 90], opts)

(* WithIOStats: nothing without a statser. *)
applyDialer(d, opt) == IF opt.value = "" THEN d ELSE Append(d, opt.value)

(* RoundTripper: the base dialer is that of the last option, or the        *)
(* network; TLS is put on it before the options that wrap dialers; both    *)
(* dialers log.  The round trippers of the options are put around the      *)
(* transport in order, so that the last is the first to see a request.     *)
(* A dialer is written from the inside out.                                *)
RoundTripper(s, opts) ==
  LET base == LastOf("BaseDialer", opts, "")
      net == << IF base = "" THEN "net" ELSE base >>
      mods == Of("IOStats", opts)
      Wrap(d) == Append(FoldLeft(applyDialer, d, mods), "logging")
  IN [http2 |-> LastOf("HTTP2Only", opts, FALSE),
      dialer |-> Wrap(net),
      tlsDialer |-> Wrap(Append(net, "tls")),
      transport |-> httpRoundTripper(s, opts),
      wrappers |-> Of("HeaderRoundTripper", opts)]

(* Client: LoadTLSConfig fails for settings that do not load. *)
Client(opts) ==
  /\ clients' = IF settings.tls = "bad" THEN clients
                ELSE Append(clients, [from |-> settings, opts |-> opts,
                                      rt |-> RoundTripper(settings, opts)])
  /\ UNCHANGED <<settings, written, headers, sent>>

-----------------------------------------------------------------------------
(* headerRoundTripper.RoundTrip: sets what the request lacks, in the       *)
(* request itself.                                                         *)
AddHeaders(h, wrapper) == [n \in Names |-> IF h[n] = "" THEN wrapper.value[n] ELSE h[n]]

(* The request goes through the round trippers, the outermost first. *)
RoundTrip(c) ==
  /\ headers' = FoldLeft(AddHeaders, headers, Reverse(clients[c].rt.wrappers))
  /\ sent' = Append(sent, c)
  /\ UNCHANGED <<settings, clients, written>>

-----------------------------------------------------------------------------
(* ReadAllWithLimit: nothing is read for a length or a limit of 0 or for   *)
(* 204; too long a Content-Length is refused.                              *)
Refused == limit > 0 /\ resp.length > limit
Nothing == resp.length = 0 \/ limit = 0 \/ resp.status = 204

\* Mutation: the limit is not applied to a body of unknown length.
WantedUnlimited == IF resp.length >= 0 THEN resp.length ELSE resp.body

(* How many bytes it asks for: the Content-Length, or up to the limit. *)
Wanted ==
  CASE resp.length >= 0 -> resp.length
    [] resp.length < 0 /\ limit > 0 -> limit
    [] OTHER -> resp.body + 1

ReadBegins ==
  /\ got = 0
  /\ Nothing \/ Refused
  /\ body' = IF Nothing THEN "ok" ELSE "error"
  /\ UNCHANGED got

(* io.ReadFull and io.Copy: read after read, of some bytes each. *)
ReadSome(n) ==
  /\ ~(Nothing \/ Refused)
  /\ got + n <= resp.body
  /\ got + n <= Wanted
  /\ got' = got + n
  /\ UNCHANGED body

(* The end: as many bytes as wanted, or the body ends.  A known length     *)
(* that is not reached is an error; a connection that breaks is one unless *)
(* enough has been read.                                                   *)
ReadEnds ==
  /\ ~(Nothing \/ Refused)
  /\ got = Wanted \/ got = resp.body
  /\ body' = IF got = Wanted THEN "ok"
             ELSE IF resp.fails \/ resp.length >= 0 THEN "error" ELSE "ok"
  /\ UNCHANGED got

-----------------------------------------------------------------------------
UseClient ==
  /\ subject = "client"
  /\ steps < MaxSteps
  /\ steps' = steps + 1
  /\ \/ \E cfg \in Configs : Unpack(cfg)
     \/ \E opts \in OptionLists : Client(opts)
     \/ \E c \in DOMAIN clients : RoundTrip(c)
  /\ UNCHANGED <<subject, bodyVars>>

ReadAllWithLimit ==
  /\ subject = "body"
  /\ body = "reading"
  /\ ReadBegins \/ (\E n \in 1 .. resp.body : ReadSome(n)) \/ ReadEnds
  /\ UNCHANGED <<subject, settings, clients, written, headers, sent, steps, resp, limit>>

Next == UseClient \/ ReadAllWithLimit

Spec == Init /\ [][Next]_vars

-----------------------------------------------------------------------------
Has(opts, kind) == \E i \in DOMAIN opts : opts[i].kind = kind

(* A client uses the proxy its settings and options ask for, in whatever   *)
(* order the options come: none if the proxy is disabled or WithNOProxy is *)
(* given, the configured URL if there is one, and the environment only if  *)
(* neither WithoutProxyEnvironmentVariables nor the settings say           *)
(* otherwise; its connections, with and without TLS, go through the same   *)
(* wrappers; and settings whose TLS does not load make no client.          *)
BuiltAsAsked ==
  \A c \in DOMAIN clients :
    LET s == clients[c].from
        opts == clients[c].opts
        rt == clients[c].rt
    IN /\ rt.transport.proxy = "none" <=>
            \/ s.disable
            \/ Has(opts, "NOProxy")
            \/ s.url = "" /\ Has(opts, "WithoutProxyEnvironmentVariables")
       /\ rt.transport.proxy \in {"none", "environment", s.url}
       /\ rt.transport.proxy = "environment" => s.url = ""
       /\ Tail(Tail(rt.tlsDialer)) = Tail(rt.dialer)
       /\ Head(rt.tlsDialer) = Head(rt.dialer)
       /\ s.tls # "bad"

(* The value a client gives to a header that a request lacks: the last     *)
(* option that names it wins.                                              *)
Given(c, n) ==
  LET naming == SelectSeq(Of("HeaderRoundTripper", clients[c].opts), LAMBDA w : w.value[n] # "")
  IN IF naming = << >> THEN "" ELSE naming[Len(naming)].value[n]

(* However often and through however many clients a request is sent, what  *)
(* its caller set is never replaced; what it lacked is added by the first  *)
(* client that names it and then stays, as the round trippers write into   *)
(* the caller's request.                                                   *)
HeadersKept ==
  \A n \in Names :
    LET naming == SelectSeq(sent, LAMBDA c : Given(c, n) # "")
    IN headers[n] = IF written[n] # "" THEN written[n]
                    ELSE IF naming = << >> THEN "" ELSE Given(naming[1], n)

(* What ReadAllWithLimit returns without error: never more than the limit; *)
(* all of a body of known length, and of an unknown one all of it or what  *)
(* the limit allows, also if the connection breaks after that.             *)
ReadExact ==
  /\ limit >= 0 => got <= limit
  /\ body = "ok" /\ ~Nothing =>
       /\ resp.length >= 0 => got = resp.length
       /\ resp.length < 0 /\ limit > 0 /\ limit < resp.body => got = limit
       /\ resp.length < 0 /\ ~(limit > 0 /\ limit <= resp.body) => got = resp.body /\ ~resp.fails
  /\ body = "error" => Refused \/ resp.fails \/ resp.body < resp.length
=============================================================================
