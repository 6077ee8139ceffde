-------------------------------- MODULE TLS ---------------------------------
(***************************************************************************)
(* TLS settings and the verification of peers (src/transport/tlscommon):   *)
(* the settings are loaded, for a client or for a server, and then several *)
(* connections are verified at the same time.                              *)
(*                                                                         *)
(* BuildModuleClientConfig copies the TLSConfig for each host but not the  *)
(* pool of CAs it points to.  When ca_trusted_fingerprint is set, every    *)
(* verification of a host looks for that CA in the peer's chain and adds   *)
(* it to the pool of the host, which it creates if there is none, without  *)
(* a lock.  Certificates are model values; building chains is left to      *)
(* crypto/x509.                                                            *)
(***************************************************************************)
EXTENDS Integers, Sequences

CONSTANTS
  Certs,         \* all certificates
  IsCA,          \* Certs -> BOOLEAN
  KeyOf,         \* Certs -> the fingerprint of the public key
  NamesOf,       \* Certs -> [dns : the DNS names in order, ips : addresses, cn : the common name]
  LowerOf,       \* the labels that change in lower case, and what they become
  BadLabels,     \* the labels with a character no host name has
  SystemRoots,   \* the CAs of the operating system
  Chains(_, _, _),  \* x509 Verify: the chains of a leaf over intermediates to roots
  Presented,     \* the sequences of certificates peers present
  Settings,      \* the settings the user may have written
  HostNames,     \* the hosts to connect to
  Conns,         \* the connections
  Nil,           \* no pool
  Loaded         \* the pool made from certificate_authorities

VARIABLES
  cfg,      \* the settings
  state,    \* "new", "disabled", "error", "loaded" or "crashed"
  pools,    \* the contents of the pools of CAs; a connection owns the one it makes
  rootCAs,  \* RootCAs (for a server ClientCAs) of the copy for each host
  host,     \* the host of each connection
  chain,    \* the certificates the peer presented
  pc,       \* where each verification is
  into,     \* the pool an AddCert writes to
  chains    \* VerifiedChains: what the handshake itself has verified

vars == <<cfg, state, pools, rootCAs, host, chain, pc, into, chains>>
connVars == <<host, chain, pc, into, chains>>

Pools == Conns \cup {Loaded}
Client == cfg.role = "client"

Init ==
  /\ cfg \in Settings
  /\ state = "new"
  /\ pools = [p \in Pools |-> {}]
  /\ rootCAs = [h \in HostNames |-> Nil]
  /\ host \in [Conns -> HostNames]
  /\ chain = [c \in Conns |-> <<>>]
  /\ pc = [c \in Conns |-> "idle"]
  /\ into = [c \in Conns |-> Nil]
  /\ chains = [c \in Conns |-> {}]

-----------------------------------------------------------------------------
(* Loading the settings.                                                   *)

(* ReadPEMFile: the blocks that can be decrypted; the others are dropped.  *)
ReadPEMFile(blocks) == SelectSeq(blocks, LAMBDA b : ~b.encrypted \/ b.opens)

(* LoadCertificate with CertificateConfig.Validate: no certificate and no  *)
(* key, or a certificate and the key that belongs to it.                   *)
LoadCertificate(certificate, key) ==
  LET cert == ReadPEMFile(certificate)
      secret == ReadPEMFile(key)
  IN IF certificate = <<>> /\ key = <<>> THEN "none"
     ELSE IF certificate # <<>> /\ key # <<>> /\ cert # <<>> /\ secret # <<>>
             /\ cert[1].owner = secret[1].owner THEN "pair"
     ELSE "error"

(* LoadCertificateAuthorities: one source that cannot be read or holds no  *)
(* certificate is an error of the whole.                                   *)
LoadCertificateAuthorities(cas) ==
  [ok |-> \A s \in cas : s.ok, pool |-> UNION {s.certs : s \in {x \in cas : x.ok}}]

(* ServerConfig.Unpack: CAs without client_authentication mean "required"; *)
(* LoadTLSServerConfig: otherwise the default is "none".                   *)
ClientAuth ==
  IF cfg.auth # "" THEN cfg.auth ELSE IF cfg.cas # {} THEN "required" ELSE "none"

(* Validate: a server that is enabled has a certificate.                   *)
Valid == Client \/ cfg.certificate # <<>>

(* LoadTLSConfig or LoadTLSServerConfig, then BuildModuleClientConfig or   *)
(* BuildServerConfig for every host.                                       *)
Load ==
  LET cas == LoadCertificateAuthorities(cfg.cas)
      cert == LoadCertificate(cfg.certificate, cfg.key)
  IN /\ state = "new"
     /\ IF ~cfg.enabled THEN state' = "disabled" /\ UNCHANGED <<pools, rootCAs>>
        ELSE IF ~Valid \/ ~cas.ok \/ cert = "error"
        THEN state' = "error" /\ UNCHANGED <<pools, rootCAs>>
        ELSE /\ state' = "loaded"
             /\ pools' = [pools EXCEPT ![Loaded] = cas.pool]
             /\ rootCAs' = [h \in HostNames |-> IF cfg.cas = {} THEN Nil ELSE Loaded]
     /\ UNCHANGED <<cfg, connVars>>

-----------------------------------------------------------------------------
(* Verifying a connection.                                                 *)

Roots(h) == IF rootCAs[h] = Nil THEN SystemRoots ELSE pools[rootCAs[h]]
Intermediates(certs) == {certs[k] : k \in 2 .. Len(certs)}

Go(c, place) == pc' = [pc EXCEPT ![c] = place]
Running(c, place) == state = "loaded" /\ pc[c] = place

(* verifyCAPin: some certificate of some verified chain has a pinned key.  *)
verifyCAPin(found) ==
  \E path \in found : \E k \in DOMAIN path : KeyOf[path[k]] \in cfg.pins

(* toLowerCaseASCII, by labels; a trailing dot is an empty last label.     *)
toLowerCaseASCII(name) ==
  [k \in DOMAIN name |-> IF name[k] \in DOMAIN LowerOf THEN LowerOf[name[k]] ELSE name[k]]

trimDot(name) ==
  IF name # <<>> /\ name[Len(name)] = "" THEN SubSeq(name, 1, Len(name) - 1) ELSE name

(* matchHostnames: "*" stands for one label, the first.                    *)
matchHostnames(pattern, name) ==
  LET p == toLowerCaseASCII(pattern)
      h == toLowerCaseASCII(trimDot(name))
  IN /\ p # <<>> /\ h # <<>>
     /\ Len(p) = Len(h)
     /\ \A k \in DOMAIN p : (k = 1 /\ p[k] = "*") \/ p[k] = h[k]

(* validHostname of a pattern.                                             *)
validHostname(name) ==
  /\ name # <<>>
  /\ \A k \in DOMAIN name :
       (k = 1 /\ name[k] = "*") \/ name[k] \notin BadLabels \cup {"", "*"}

(* verifyHostname: an address is looked up among the addresses and then in *)
(* the common name, a name among the DNS names, or in the common name when *)
(* there are none.  The first name that matches decides.                   *)
FirstMatchIsValid(dns, name) ==
  \E k \in DOMAIN dns :
    /\ matchHostnames(dns[k], name) /\ validHostname(dns[k])
    /\ \A j \in 1 .. k - 1 : ~matchHostnames(dns[j], name)

verifyHostname(cert, h) ==
  LET names == NamesOf[cert]
      none == names.dns \in {<<>>, << <<>> >>}
      dns == IF none /\ names.cn # <<>> THEN <<names.cn>> ELSE names.dns
  IN \/ h.name = <<>>
     \/ h.ip /\ h.name \in names.ips \cup {names.cn}
     \/ ~h.ip /\ FirstMatchIsValid(dns, h.name)

(* VerifyHostname of crypto/x509, which never looks at the common name.    *)
VerifyHostname(cert, h) ==
  \/ h.ip /\ h.name \in NamesOf[cert].ips
  \/ ~h.ip /\ \E k \in DOMAIN NamesOf[cert].dns :
                 /\ matchHostnames(NamesOf[cert].dns[k], h.name)
                 /\ validHostname(NamesOf[cert].dns[k])

(* What the handshake verifies by itself: a client with InsecureSkipVerify *)
(* FALSE (strict), a server according to ClientAuth.                       *)
Verifies == (Client /\ cfg.mode = "strict")
            \/ (~Client /\ ClientAuth \in {"optional", "required"})

(* A pool is a Go map: a write that meets another access may crash the     *)
(* process.                                                                *)
Writes(d) == pc[d] = "adding" /\ cfg.fingerprint \notin pools[into[d]]

Access(c, p, writes) ==
  IF \E d \in Conns \ {c} : /\ pc[d] = "adding" /\ into[d] = p
                            /\ writes \/ Writes(d)
  THEN state' \in {"loaded", "crashed"} ELSE UNCHANGED state

Handshake(c) ==
  /\ Running(c, "idle")
  /\ \E certs \in Presented :
       LET given == IF ~Client /\ ClientAuth = "none" THEN <<>> ELSE certs
           roots == IF cfg.cas = {} THEN SystemRoots ELSE pools[Loaded]
           found == IF given = <<>> \/ ~Verifies THEN {}
                    ELSE Chains(given[1], Intermediates(given), roots)
           bad == \/ Verifies /\ given # <<>>
                       /\ (found = {} \/ (Client /\ ~VerifyHostname(given[1], host[c])))
                  \/ given = <<>> /\ (Client \/ ClientAuth = "required")
           done == cfg.mode = "none" \/ (cfg.mode = "strict" /\ cfg.pins = {})
           trust == Client /\ cfg.fingerprint # Nil
       IN /\ chain' = [chain EXCEPT ![c] = given]
          /\ chains' = [chains EXCEPT ![c] = found]
          /\ Go(c, IF bad THEN "refused" ELSE IF done THEN "accepted"
                   ELSE IF trust THEN "trust" ELSE "verify")
  /\ IF Verifies THEN Access(c, Loaded, FALSE) ELSE UNCHANGED state
  /\ UNCHANGED <<cfg, pools, rootCAs, host, into>>

\* Mutation: a leaf with the fingerprint is trusted too.
matchesAny(c) == \E k \in DOMAIN chain[c] : chain[c][k] = cfg.fingerprint

(* trustRootCA: the certificate with the fingerprint, if it is a CA.  The  *)
(* fingerprint is decoded only now.                                        *)
matchesCA(c) ==
  \E k \in DOMAIN chain[c] : chain[c][k] = cfg.fingerprint /\ IsCA[chain[c][k]]

Trust(c) ==
  /\ Running(c, "trust")
  /\ Go(c, IF ~cfg.hex THEN "refused"
           ELSE IF ~matchesCA(c) THEN "verify"
           ELSE IF rootCAs[host[c]] = Nil THEN "create" ELSE "add")
  /\ UNCHANGED <<cfg, state, pools, rootCAs, host, chain, into, chains>>

Create(c) ==
  /\ Running(c, "create")
  /\ rootCAs' = [rootCAs EXCEPT ![host[c]] = c]
  /\ Go(c, "add")
  /\ UNCHANGED <<cfg, state, pools, host, chain, into, chains>>

AddBegins(c) ==
  /\ Running(c, "add")
  /\ into' = [into EXCEPT ![c] = rootCAs[host[c]]]
  /\ Access(c, into'[c], cfg.fingerprint \notin pools[into'[c]])
  /\ Go(c, "adding")
  /\ UNCHANGED <<cfg, pools, rootCAs, host, chain, chains>>

AddEnds(c) ==
  /\ Running(c, "adding")
  /\ pools' = [pools EXCEPT ![into[c]] = @ \cup {cfg.fingerprint}]
  /\ Go(c, "verify")
  /\ UNCHANGED <<cfg, state, rootCAs, host, chain, into, chains>>

(* The rest of the functions of makeVerifyConnection and                   *)
(* makeVerifyServerConnection, with verifyCertsWithOpts.                   *)
verifiedChains(c) ==
  IF cfg.mode = "strict" THEN chains[c]
  ELSE Chains(chain[c][1], Intermediates(chain[c]), Roots(host[c]))

Passes(c) ==
  IF chain[c] = <<>> THEN ~Client /\ cfg.mode # "strict"
  ELSE /\ verifiedChains(c) # {}
       /\ cfg.pins = {} \/ verifyCAPin(verifiedChains(c))
       /\ Client /\ cfg.mode = "full" => verifyHostname(chain[c][1], host[c])

Verify(c) ==
  /\ Running(c, "verify")
  /\ Go(c, IF Passes(c) THEN "accepted" ELSE "refused")
  /\ IF cfg.mode # "strict" /\ chain[c] # <<>>
     THEN Access(c, rootCAs[host[c]], FALSE) ELSE UNCHANGED state
  /\ UNCHANGED <<cfg, pools, rootCAs, host, chain, into, chains>>

Next ==
  \/ Load
  \/ \E c \in Conns :
       \/ Handshake(c)
       \/ Trust(c)
       \/ Create(c)
       \/ AddBegins(c)
       \/ AddEnds(c)
       \/ Verify(c)

Spec == Init /\ [][Next]_vars

-----------------------------------------------------------------------------
(* The properties.                                                         *)

(* The CAs a connection may rest on: the configured ones, those of the     *)
(* system when none are configured, and the CA with the fingerprint.       *)
Given == IF cfg.cas = {} THEN SystemRoots ELSE UNION {s.certs : s \in cfg.cas}
Allowed == Given \cup {x \in Certs : IsCA[x] /\ x = cfg.fingerprint}

(* Every connection that is accepted has shown what its mode asks for, in  *)
(* whatever order the verifications share and change the pools             *)
(* (tls_config.go:209-365): a chain to a CA that is configured or has the  *)
(* trusted fingerprint (certificate, full, strict), a pinned key in such a *)
(* chain when there are pins, the name of the host (full); and a client    *)
(* has shown a certificate when the server requires one.                   *)
AcceptedIsVerified ==
  \A c \in Conns : pc[c] = "accepted" =>
    /\ chain[c] = <<>> => ~Client /\ ClientAuth # "required"
    /\ chain[c] # <<>> /\ cfg.mode # "none" =>
         \E roots \in SUBSET Allowed :
           LET found == Chains(chain[c][1], Intermediates(chain[c]), roots)
           IN /\ found # {}
              /\ cfg.pins = {} \/ verifyCAPin(found)
    /\ Client /\ cfg.mode = "full" => verifyHostname(chain[c][1], host[c])
    /\ Client /\ cfg.mode = "strict" => VerifyHostname(chain[c][1], host[c])

(* A peer whose chain leads to the CA with the trusted fingerprint is not  *)
(* refused because of other connections (trustRootCA, tls_config.go:209),  *)
(* when there is a pool from the beginning.  Without one, two connections  *)
(* to a host may each create it, and one finds the other's empty pool.     *)
Shows(c) ==
  LET found == Chains(chain[c][1], Intermediates(chain[c]), {cfg.fingerprint})
  IN /\ chain[c] # <<>> /\ matchesCA(c)
     /\ found # {}
     /\ cfg.pins = {} \/ verifyCAPin(found)
     /\ cfg.mode = "full" => verifyHostname(chain[c][1], host[c])

TrustedIsAccepted ==
  \A c \in Conns :
    Client /\ cfg.mode \in {"full", "certificate"} /\ cfg.cas # {}
      /\ cfg.fingerprint # Nil /\ pc[c] = "refused" => ~Shows(c)

(* Settings are used as a whole or not at all (LoadTLSConfig, config.go:45 *)
(* and LoadTLSServerConfig): every CA source is in the pool, and the       *)
(* certificate has its key.                                                *)
LoadedWhole ==
  state = "loaded" =>
    /\ \A s \in cfg.cas : s.ok /\ s.certs \subseteq pools[Loaded]
    /\ cfg.certificate # <<>> => LoadCertificate(cfg.certificate, cfg.key) = "pair"
=============================================================================
