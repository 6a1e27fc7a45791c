------------------------------- MODULE Guards -------------------------------
(***************************************************************************)
(* The guards of the HTTP layer that keep no state: what each middleware   *)
(* of security.rs, validation.rs and csrf.rs decides about a request.  Of  *)
(* a request only what some layer looks at is kept (Headers): text is      *)
(* reduced to the class the guard puts it in, an address or an origin is a *)
(* name.                                                                   *)
(***************************************************************************)
EXTENDS Integers, Sequences

CONSTANTS RequireHttps,    \* REQUIRE_HTTPS
          BodyLimit,       \* REQUEST_BODY_MAX_BYTES
          TrustProxy,      \* TRUST_PROXY
          TrustedProxies,  \* the addresses within TRUSTED_PROXY_CIDRS
          Whitelist,       \* ADMIN_WHITELIST_IPS
          AllowedOrigins,  \* the CORS origins, which csrf.rs takes over
          Addresses, Origins

Absent == "absent"         \* no such header
Malformed == "malformed"   \* not an address
Unknown == "unknown"       \* the server was started without connection info

Headers ==
  [method : {"GET", "POST", "PUT", "PATCH", "DELETE"},
   proto : {"http", "https", Absent},             \* x-forwarded-proto
   length : Nat, body : Nat,                      \* content-length (0: none) and the truth
   patterns : SUBSET {"query", "path"},           \* where suspicious patterns are
   content : {"json", "other", Absent},           \* does the type start with application/json?
   keyed : BOOLEAN,                               \* has it an Idempotency-Key?
   api_key : BOOLEAN, cookie : BOOLEAN,
   origin : Origins \cup {Absent}, referer : Origins \cup {Absent},
   peer : Addresses \cup {Unknown},
   forwarded : Seq(Addresses \cup {Malformed}), real_ip : Addresses \cup {Malformed, Absent}]

GuardsAssumption ==
  /\ RequireHttps \in BOOLEAN /\ TrustProxy \in BOOLEAN /\ BodyLimit \in Nat
  /\ TrustedProxies \cup Whitelist \subseteq Addresses /\ AllowedOrigins \subseteq Origins
  /\ {Malformed, Absent, Unknown} \cap (Addresses \cup Origins) = {}
-----------------------------------------------------------------------------
(* https_redirect_middleware: only what the load balancer marks as http *)
HttpsRedirects(h) == RequireHttps /\ h.proto = "http"

(* request_size_validation_middleware: the announced length, then the body *)
SizeAllows(h) == h.length =< BodyLimit /\ h.body =< BodyLimit

(* request_validation_middleware *)
UriAllows(h) == h.patterns = {}

(* content_type_validation_middleware *)
ContentTypeAllows(h) == h.method \in {"POST", "PUT", "PATCH"} => h.content = "json"

(* csrf_protection_middleware: a request with an API key or a safe method  *)
(* passes; an origin decides when there is one, a referer only for a       *)
(* request with cookies.                                                   *)
CsrfAllows(h) ==
  \/ h.api_key \/ h.method = "GET"
  \/ IF h.origin # Absent THEN h.origin \in AllowedOrigins
     ELSE h.cookie => h.referer \in AllowedOrigins \cup {Absent}

(* extract_client_ip_cidrs: the first well-formed forwarded address, then  *)
(* x-real-ip, when the peer is a proxy to be trusted; the peer otherwise   *)
ClientIp(h, trust, proxies) ==
  LET trusted == IF proxies # {} THEN h.peer \in proxies ELSE trust
      named == SelectSeq(h.forwarded, LAMBDA a : a # Malformed)
  IN
  CASE trusted /\ named # <<>> -> Head(named)
    [] trusted /\ named = <<>> /\ h.real_ip \in Addresses -> h.real_ip
    [] OTHER -> h.peer

(* ip_whitelist_middleware: an empty list allows everybody *)
WhitelistAllows(h) == Whitelist = {} \/ ClientIp(h, TrustProxy, {}) \in Whitelist

(* audit_logging_middleware cannot run without the address of the peer. *)
PeerKnown(h) == h.peer # Unknown
=============================================================================
