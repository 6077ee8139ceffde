------------------------------- MODULE Kibana -------------------------------
(***************************************************************************)
(* The Kibana client (src/kibana): how a client is made from its settings, *)
(* what it puts into requests, how it reads answers, and the operations of *)
(* the Fleet API, those of several requests included.  Kibana itself is    *)
(* outside: an answer is any of Answers.  Texts are members of small sets, *)
(* "" the empty one; the value decoded from an answer is its "value".      *)
(***************************************************************************)
EXTENDS Integers, Sequences

CONSTANTS
  Configs,   \* the ClientConfigs: [url, protocol, path, space, username, password, apiKey,
             \*  token, headers, ignoreVersion], url being [scheme, hasUser, user, pass, host, port, path]
  Versions,  \* the values that version.New accepts
  Answers,   \* [arrives, readable, status, json, message, success, errors, value, items]
  MaxCalls   \* bound on the calls

VARIABLES
  config,    \* the settings
  made,      \* "new", "failed", "version" (readVersion is running) or "ready"
  conn,      \* Connection: [url, username, password]
  version,   \* client.Version, "" if not read
  sent,      \* the last request: [op, method, api, headers]
  call,      \* the operation of several requests that is running: [op, next, serverless]
  items,     \* r.Items of GetPolicyUninstallTokens
  answers,   \* the answers the running or last operation got
  result,    \* what the last operation returned: [op, err, value]
  calls

vars == <<config, made, conn, version, sent, call, items, answers, result, calls>>

Idle == [op |-> "", next |-> 0, serverless |-> FALSE]
NoResult == [op |-> "", err |-> FALSE, value |-> ""]
HeaderNames == {"Authorization", "Content-Type", "Accept", "kbn-xsrf", "User-Agent",
                "x-elastic-internal-origin"}
NoHeaders == [n \in HeaderNames |-> << >>]

Init ==
  /\ config \in Configs
  /\ made = "new"
  /\ conn = [url |-> config.url, username |-> "", password |-> ""]
  /\ version = ""
  /\ sent = [op |-> "", method |-> "", api |-> "", headers |-> NoHeaders]
  /\ call = Idle
  /\ items = << >>
  /\ answers = << >>
  /\ result = NoResult
  /\ calls = 0

-----------------------------------------------------------------------------
Or(a, b) == IF a = "" THEN b ELSE a

(* MakeURL: the defaults for what the URL lacks; the default path only if  *)
(* the URL has none.  An IPv6 address is put into brackets.                *)
MakeURL(defaultScheme, defaultPath, url, defaultPort) ==
  [url EXCEPT !.scheme = Or(@, Or(defaultScheme, "http")),
              !.host = IF @ = "" /\ url.port = "" THEN "localhost"
                       ELSE IF @ = "::1" THEN "[::1]" ELSE @,
              !.port = Or(@, defaultPort),
              !.path = IF @ = << >> THEN defaultPath ELSE @]

(* Validate: an API key excludes a user name and a password. *)
Validate(c) == ~(c.apiKey # "" /\ (c.username # "" \/ c.password # ""))

(* So it does if they are part of the URL. *)
CredentialsAllowed(u) == ~(u.hasUser /\ config.apiKey # "" /\ (u.user # "" \/ u.pass # ""))

(* NewClientWithConfigDefault: credentials in the URL replace those of the *)
(* settings and are taken out of the URL.                                  *)
NewClient ==
  /\ made = "new"
  /\ LET path == IF config.space = "" THEN config.path ELSE config.path \o <<"s", config.space>>
         u == MakeURL(config.protocol, path, config.url, "5601")
     IN IF ~(Validate(config) /\ CredentialsAllowed(u))
        THEN made' = "failed" /\ UNCHANGED conn
        ELSE /\ conn' = [url |-> [u EXCEPT !.hasUser = FALSE, !.user = "", !.pass = ""],
                         username |-> IF u.hasUser THEN u.user ELSE config.username,
                         password |-> IF u.hasUser THEN u.pass ELSE config.password]
             /\ made' = IF config.ignoreVersion THEN "ready" ELSE "version"
  /\ UNCHANGED <<config, version, sent, call, items, answers, result, calls>>

-----------------------------------------------------------------------------
Basic(user, password) == [scheme |-> "Basic", user |-> user, secret |-> password]
ApiKey(k) == [scheme |-> "ApiKey", user |-> "", secret |-> k]
Bearer(t) == [scheme |-> "Bearer", user |-> "", secret |-> t]

(* The credentials of a request: a service token wins over an API key, and *)
(* that over a user.                                                       *)
Authorization ==
  CASE config.token # "" -> <<Bearer(config.token)>>
    [] config.token = "" /\ config.apiKey # "" -> <<ApiKey(config.apiKey)>>
    [] config.token = "" /\ config.apiKey = "" /\ (conn.username # "" \/ conn.password # "") ->
         <<Basic(conn.username, conn.password)>>
    [] OTHER -> << >>

addHeaders(out, in) == [n \in HeaderNames |-> out[n] \o in[n]]

(* SendWithContext: the headers of the settings and of the call are added  *)
(* to the credentials; the content is JSON unless the first Content-Type   *)
(* is one of two others; the client of httpcommon adds the User-Agent if   *)
(* there is none.                                                          *)
SendWithContext(op, method, api, extra) ==
  LET h == addHeaders(addHeaders([NoHeaders EXCEPT !["Authorization"] = Authorization],
                                 config.headers), extra)
      type == IF h["Content-Type"] = << >> THEN "" ELSE Head(h["Content-Type"])
  IN [op |-> op, method |-> method, api |-> api,
      headers |-> [h EXCEPT !["Content-Type"] =
                              IF type \in {"multipart/form-data", "application/ndjson"} THEN @
                              ELSE <<"application/json">>,
                            !["Accept"] = <<"application/json">>,
                            !["kbn-xsrf"] = <<"1">>,
                            !["User-Agent"] = IF @ = << >> THEN <<"agent">> ELSE @]]

-----------------------------------------------------------------------------
(* extractError: an error unless the answer is JSON without a message. *)
extractError(a) == ~a.json \/ a.message

(* extractMessage: only an answer that says it failed, and with what. *)
extractMessage(a) == a.json /\ ~a.success /\ a.errors

(* Request: [err, status]. *)
Request(a) ==
  IF ~a.arrives \/ ~a.readable THEN [err |-> TRUE, status |-> 0]
  ELSE [err |-> IF a.status >= 300 THEN extractError(a) ELSE extractMessage(a),
        status |-> a.status]

Failed == [err |-> TRUE, value |-> ""]

\* Mutation: an answer is decoded whatever its status.
readAnyStatus(a) ==
  IF ~a.arrives \/ ~a.readable \/ ~a.json THEN Failed ELSE [err |-> FALSE, value |-> a.value]

(* readJSONResponse: an answer with another status than 200 decodes to     *)
(* nothing, and is an error if extractError makes one of it.               *)
readJSONResponse(a) ==
  CASE ~a.arrives \/ ~a.readable -> Failed
    [] a.arrives /\ a.readable /\ a.status # 200 -> [err |-> extractError(a), value |-> ""]
    [] OTHER -> IF a.json THEN [err |-> FALSE, value |-> a.value] ELSE Failed

-----------------------------------------------------------------------------
(* readVersion: an error status, no JSON or no version fails NewClient. *)
readVersion(a) ==
  LET r == Request(a)
  IN /\ made = "version"
     /\ sent' = SendWithContext("readVersion", "GET", "status", NoHeaders)
     /\ answers' = <<a>>
     /\ IF r.err \/ r.status >= 400 \/ ~a.json \/ a.value \notin Versions
        THEN made' = "failed" /\ UNCHANGED version
        ELSE made' = "ready" /\ version' = a.value
     /\ UNCHANGED <<config, conn, call, items, result, calls>>

(* An operation of the client begins. *)
Begins ==
  /\ made = "ready"
  /\ call = Idle
  /\ calls < MaxCalls
  /\ calls' = calls + 1
  /\ UNCHANGED <<config, made, conn, version>>

Returns(op, r) == result' = [op |-> op, err |-> r.err, value |-> r.value]

(* An operation of one request, whose answer Reader reads. *)
Fleet(op, method, api, Reader(_)) ==
  /\ Begins
  /\ \E a \in Answers :
       /\ sent' = SendWithContext(op, method, api, NoHeaders)
       /\ answers' = <<a>>
       /\ Returns(op, Reader(a))
  /\ UNCHANGED <<call, items>>

(* json.Marshal of a request that holds what JSON cannot express. *)
Unmarshallable(op) ==
  /\ Begins
  /\ answers' = << >>
  /\ Returns(op, Failed)
  /\ UNCHANGED <<sent, call, items>>

(* A status other than 200 is an error whatever the body says. *)
readOK(a) ==
  IF a.arrives /\ a.status = 200 /\ a.readable /\ a.json THEN [err |-> FALSE, value |-> a.value]
  ELSE Failed
readStatus(a) == [err |-> ~(a.arrives /\ a.status = 200), value |-> ""]
readEmpty(a) == [readJSONResponse(a) EXCEPT !.value = ""]

CreatePolicy ==
  \/ Fleet("CreatePolicy", "POST", "agent_policies", readJSONResponse)
  \/ Unmarshallable("CreatePolicy")
CreateDownloadSource == Fleet("CreateDownloadSource", "POST", "agent_download_sources", readOK)
GetPolicy == Fleet("GetPolicy", "GET", "agent_policies/id", readJSONResponse)
UpdatePolicy ==
  \/ Fleet("UpdatePolicy", "PUT", "agent_policies/id", readJSONResponse)
  \/ Unmarshallable("UpdatePolicy")
DeletePolicy == Fleet("DeletePolicy", "POST", "agent_policies/delete", readStatus)
CreateEnrollmentAPIKey ==
  Fleet("CreateEnrollmentAPIKey", "POST", "enrollment_api_keys", readJSONResponse)
ListAgents == Fleet("ListAgents", "GET", "agents", readJSONResponse)
GetAgent == Fleet("GetAgent", "GET", "agents/id", readJSONResponse)
UnEnrollAgent == Fleet("UnEnrollAgent", "POST", "agents/id/unenroll", readEmpty)
UpgradeAgent == Fleet("UpgradeAgent", "POST", "agents/id/upgrade", readEmpty)
ListFleetServerHosts == Fleet("ListFleetServerHosts", "GET", "fleet_server_hosts", readJSONResponse)
CreateFleetServerHosts ==
  Fleet("CreateFleetServerHosts", "POST", "fleet_server_hosts", readJSONResponse)
GetFleetServerHost == Fleet("GetFleetServerHost", "GET", "fleet_server_hosts/id", readJSONResponse)
InstallFleetPackage ==
  \/ Fleet("InstallFleetPackage", "POST", "package_policies", readJSONResponse)
  \/ Unmarshallable("InstallFleetPackage")
DeleteFleetPackage == Fleet("DeleteFleetPackage", "DELETE", "package_policies/id", readJSONResponse)
CreateFleetProxy == Fleet("CreateFleetProxy", "POST", "proxies", readJSONResponse)
GetUninstallToken == Fleet("GetUninstallToken", "GET", "uninstall_tokens/id", readJSONResponse)

-----------------------------------------------------------------------------
(* GetPolicyUninstallTokens: the list of tokens, without their values ...  *)
GetPolicyUninstallTokens ==
  /\ Begins
  /\ \E a \in Answers :
       LET r == readJSONResponse(a)
           listed == IF r.err \/ a.status # 200 THEN << >> ELSE a.items
       IN /\ sent' = SendWithContext("GetPolicyUninstallTokens", "GET", "uninstall_tokens?", NoHeaders)
          /\ answers' = <<a>>
          /\ items' = [i \in DOMAIN listed |-> [id |-> listed[i], token |-> ""]]
          /\ IF r.err \/ listed = << >>
             THEN Returns("GetPolicyUninstallTokens", [r EXCEPT !.value = ""]) /\ UNCHANGED call
             ELSE call' = [Idle EXCEPT !.op = "tokens", !.next = 1] /\ UNCHANGED result

(* ... then each token; the item is replaced by what was decoded, which is *)
(* nothing for an answer that is neither 200 nor an error.                 *)
TokenResolved(i, r, a) ==
  CASE r.err -> items
    [] ~r.err /\ a.status = 200 -> [items EXCEPT ![i].token = a.value]
    [] OTHER -> [items EXCEPT ![i] = [id |-> "", token |-> ""]]

ResolveToken ==
  /\ call.op = "tokens"
  /\ \E a \in Answers :
       LET r == readJSONResponse(a)
       IN /\ sent' = SendWithContext("GetUninstallToken", "GET", "uninstall_tokens/id", NoHeaders)
          /\ answers' = Append(answers, a)
          /\ items' = TokenResolved(call.next, r, a)
          /\ IF r.err \/ call.next = Len(items)
             THEN /\ call' = Idle
                  /\ Returns("GetPolicyUninstallTokens", [r EXCEPT !.value = ""])
             ELSE call' = [call EXCEPT !.next = @ + 1] /\ UNCHANGED result
  /\ UNCHANGED <<config, made, conn, version, calls>>

(* KibanaIsServerless: [err, yes]; the API key is sent once more. *)
KibanaIsServerless(a) ==
  LET r == Request(a)
      failed == r.err \/ r.status > 300 \/ ~a.json
  IN [err |-> failed, yes |-> ~failed /\ a.value = "serverless"]
KeyOnceMore ==
  [NoHeaders EXCEPT !["Authorization"] =
     IF config.apiKey = "" THEN << >> ELSE <<ApiKey(config.apiKey)>>]

(* ImportMultiPartFormFile: asks whether Kibana is serverless, taking a    *)
(* failure for no ...                                                      *)
ImportMultiPartFormFile ==
  /\ Begins
  /\ \E a \in Answers :
       /\ sent' = SendWithContext("KibanaIsServerless", "GET", "status", KeyOnceMore)
       /\ answers' = <<a>>
       /\ call' = [Idle EXCEPT !.op = "import", !.serverless = KibanaIsServerless(a).yes]
  /\ UNCHANGED <<items, result>>

(* ... and sends the file. *)
SendFile ==
  /\ call.op = "import"
  /\ \E a \in Answers :
       LET r == Request(a)
           origin == IF call.serverless THEN <<"elastic-agent-libs">> ELSE << >>
       IN /\ sent' = SendWithContext("ImportMultiPartFormFile", "POST", "import",
                       [NoHeaders EXCEPT !["Content-Type"] = <<"multipart/form-data">>,
                                         !["x-elastic-internal-origin"] = origin])
          /\ answers' = Append(answers, a)
          /\ Returns("ImportMultiPartFormFile", [err |-> r.err \/ r.status >= 300, value |-> ""])
  /\ call' = Idle
  /\ UNCHANGED <<config, made, conn, version, items, calls>>

-----------------------------------------------------------------------------
Next ==
  \/ NewClient \/ (\E a \in Answers : readVersion(a))
  \/ CreatePolicy \/ CreateDownloadSource \/ GetPolicy \/ UpdatePolicy \/ DeletePolicy
  \/ CreateEnrollmentAPIKey
  \/ ListAgents \/ GetAgent \/ UnEnrollAgent \/ UpgradeAgent
  \/ ListFleetServerHosts \/ CreateFleetServerHosts \/ GetFleetServerHost
  \/ InstallFleetPackage \/ DeleteFleetPackage \/ CreateFleetProxy
  \/ GetUninstallToken \/ GetPolicyUninstallTokens \/ ResolveToken
  \/ ImportMultiPartFormFile \/ SendFile

Spec == Init /\ [][Next]_vars

-----------------------------------------------------------------------------
(* Every request of a client carries the credentials of its settings, and  *)
(* of one kind only: the token, else the API key, else the user of the     *)
(* URL, else that of the settings, followed by nothing but the             *)
(* Authorization header the settings ask for and the key once more; none   *)
(* of them is part of the URL.  A file is sent as multipart unless the     *)
(* settings themselves have a Content-Type.                                *)
CredentialsExclusive ==
  sent.op # "" =>
    LET c == config
        auth == sent.headers["Authorization"]
        own == Len(auth) - Len(c.headers["Authorization"])
        user == IF c.url.hasUser THEN c.url.user ELSE c.username
        pass == IF c.url.hasUser THEN c.url.pass ELSE c.password
    IN /\ ~(c.apiKey # "" /\ (user # "" \/ pass # ""))
       /\ own >= 0
       /\ own > 0 => auth[1] = IF c.token # "" THEN Bearer(c.token)
                               ELSE IF c.apiKey # "" THEN ApiKey(c.apiKey)
                               ELSE Basic(user, pass)
       /\ own = 0 => c.token = "" /\ c.apiKey = "" /\ user = "" /\ pass = ""
       /\ conn.url.user = "" /\ conn.url.pass = ""
       /\ sent.op = "ImportMultiPartFormFile" /\ c.headers["Content-Type"] = << >> =>
            sent.headers["Content-Type"] = <<"multipart/form-data">>

(* What an operation returns comes from its answers: a value only from an  *)
(* answer with status 200, and no error only if every request was answered *)
(* with success or, the one gap of extractError, with JSON that has no     *)
(* message.                                                                *)
AnswersReported ==
  call = Idle /\ result.op # "" =>
    LET last == answers[Len(answers)]
    IN /\ result.value # "" => last.status = 200 /\ last.json /\ last.arrives
       /\ ~result.err => /\ last.arrives
                         /\ last.status < 300 \/ (last.json /\ ~last.message)

(* The tokens that were listed keep their places: each item is as listed,  *)
(* or has the value of its own answer, or is empty after an answer that is *)
(* neither 200 nor an error; without an error none is left as listed.      *)
TokensInPlace ==
  result.op = "GetPolicyUninstallTokens" /\ call = Idle /\ Len(answers) > 1 =>
    \A i \in DOMAIN items :
      LET asked == i + 1 \in DOMAIN answers
      IN \/ items[i].token = "" /\ items[i].id = answers[1].items[i] /\ result.err
            /\ i + 1 >= Len(answers)
         \/ /\ asked
            /\ items[i] = IF answers[i + 1].status = 200
                          THEN [id |-> answers[1].items[i], token |-> answers[i + 1].value]
                          ELSE [id |-> "", token |-> ""]
=============================================================================
