------------------------------ MODULE ClientConfig ------------------------------
(***************************************************************************)
(* The making of a client: BoxClientConfig is started by new or from_env,  *)
(* changed by its with_ methods and, since its fields are public, by plain *)
(* assignment, and BoxApi::new turns it into a client.  A step that fails  *)
(* consumes the configuration.  The timeouts, the response limit and the   *)
(* user agent, which only the HTTP client looks at, are one field, rest.   *)
(***************************************************************************)
EXTENDS RetryPolicy

CONSTANTS
  Urls,       \* the base URLs given
  Tokens,     \* the access tokens given, Blank among them
  Orgs,       \* the organizations given
  Rests,      \* the timeouts, limits and user agents given
  Policies,   \* the retry policies given, valid or not
  MaxEdits    \* bound: changes made to a configuration

Url(scheme, host, slashes) == [scheme |-> scheme, host |-> host, slashes |-> slashes]
DefaultUrl == Url("https", "ascii.dev", FALSE)
NoUrl == Url("none", "none", FALSE)     \* BOX_BASE_URL is not set or empty
Blank == "blank"                        \* a token that is empty or white space
NoToken == "no token"                   \* BOX_API_KEY is not set
NoOrg == "no org"                       \* BOX_ORG is not set or empty
DefaultRest == "default"
BadRest == "bad user agent"             \* reqwest builds no client with it
NoPolicy == [max_attempts |-> 0]
DefaultPolicy == CHOOSE p \in Policies : ValidPolicy(p)

ASSUME ConfigAssumption ==
  /\ \A u \in Urls : DOMAIN u = DOMAIN DefaultUrl /\ u.slashes \in BOOLEAN /\ u # NoUrl
  /\ Blank \in Tokens /\ NoToken \notin Tokens /\ NoOrg \notin Orgs
  /\ \E p \in Policies : ValidPolicy(p)
  /\ MaxEdits \in Nat

Ask(base, token, org) ==
  [base |-> base, token |-> token, org |-> org, rest |-> DefaultRest]
Config(asking, policy) ==
  [base |-> asking.base, token |-> asking.token, org |-> asking.org,
   rest |-> asking.rest, retry |-> policy]
Nothing == Config(Ask(NoUrl, NoToken, NoOrg), NoPolicy)

VARIABLES
  config,   \* the configuration in the caller's hands
  client,   \* what the client was made with
  edits,    \* changes made so far
  refused,  \* the URL that was last refused
  asked     \* what was last asked for; not in the code

vars == <<config, client, edits, refused, asked>>

(* trim_end_matches('/').                                                  *)
Trimmed(url) == [url EXCEPT !.slashes = FALSE]

Bases == Urls \cup {Trimmed(u) : u \in Urls} \cup {DefaultUrl}
Configs ==
  [base : Bases, token : Tokens, org : Orgs \cup {NoOrg}, rest : Rests \cup {DefaultRest},
   retry : Policies]
  \cup {Nothing}
Clients == {c \in Configs : ~c.base.slashes}

(* Configurations and clients are made of known values; a client's base    *)
(* URL does not end with a slash (BoxApi::new).                            *)
TypeOK ==
  /\ config \in Configs
  /\ client \in Clients
  /\ edits \in 0..MaxEdits
  /\ refused \in Urls \cup {NoUrl}
  /\ asked.base \in Urls \cup {DefaultUrl} /\ asked.token \in Tokens \cup {NoToken}
  /\ asked.org \in Orgs \cup {NoOrg} /\ asked.rest \in Rests \cup {DefaultRest}

Init ==
  /\ config = Nothing /\ client = Nothing /\ edits = 0
  /\ refused = NoUrl /\ asked = Ask(DefaultUrl, NoToken, NoOrg)

-----------------------------------------------------------------------------
(* Url::host_str puts brackets around an IPv6 address.                     *)
HostStr(url) == IF url.host = "::1" THEN "[::1]" ELSE url.host

(* The hosts Urls may name that start with 127.                            *)
Loopback127 == {"127.0.0.1", "127.0.0.2"}

ValidBasePath(url) ==
  \/ url.scheme = "https"
  \/ url.scheme = "http" /\ HostStr(url) \in {"localhost", "127.0.0.1", "::1"} \cup Loopback127

ValidToken(token) == token \notin {NoToken, Blank}

(* A bug: a bad BOX_BASE_URL is ignored.                                   *)
EnvBaseLenient(url) ==
  IF url # NoUrl /\ ValidBasePath(url) THEN Trimmed(url) ELSE DefaultUrl
(* from_env: the base URL it asks for, NoUrl if that is refused.           *)
EnvBase(url) ==
  CASE url = NoUrl -> DefaultUrl
    [] url # NoUrl /\ ValidBasePath(url) -> Trimmed(url)
    [] OTHER -> NoUrl

Fail == config' = Nothing

(* A configuration with this token, base URL and organization, unless one  *)
(* of them is refused.                                                     *)
Make(token, base, org) ==
  IF ValidToken(token) /\ base # NoUrl
  THEN config' = Config(Ask(base, token, org), DefaultPolicy) ELSE Fail

New(token) ==
  /\ config = Nothing
  /\ Make(token, DefaultUrl, NoOrg)
  /\ asked' = Ask(DefaultUrl, token, NoOrg)
  /\ UNCHANGED <<client, edits, refused>>

(* BOX_API_KEY, BOX_BASE_URL and BOX_ORG, in this order.                   *)
FromEnv(token, url, org) ==
  /\ config = Nothing
  /\ Make(token, EnvBase(url), org)
  /\ asked' = Ask(IF url = NoUrl THEN DefaultUrl ELSE url, token, org)
  /\ refused' = IF ValidToken(token) /\ EnvBase(url) = NoUrl THEN url ELSE refused
  /\ UNCHANGED <<client, edits>>

Edit == config # Nothing /\ edits < MaxEdits /\ edits' = edits + 1

WithBasePath(url) ==
  /\ Edit
  /\ asked' = [asked EXCEPT !.base = url]
  /\ \/ /\ ValidBasePath(url)
        /\ config' = [config EXCEPT !.base = Trimmed(url)]
        /\ UNCHANGED refused
     \/ /\ ~ValidBasePath(url)
        /\ Fail
        /\ refused' = url
  /\ UNCHANGED client

(* with_org, with_request_timeout and the other methods that take what they*)
(* are given, or an assignment to a field, which no method sees.           *)
Assign(field, value) ==
  /\ Edit
  /\ asked' = [asked EXCEPT ![field] = value]
  /\ config' = [config EXCEPT ![field] = value]
  /\ UNCHANGED <<client, refused>>

(* with_retry, or an assignment to config.retry or to a field of it.       *)
WithRetry(policy) ==
  /\ Edit
  /\ config' = [config EXCEPT !.retry = policy]
  /\ UNCHANGED <<client, refused, asked>>

(* A bug: the policy is trusted.                                           *)
AdmittedAlways(policy) == TRUE
(* RetryConfig::validate.                                                  *)
Admitted(policy) == ValidPolicy(policy)

(* BoxApi::new takes the configuration, which the caller may have cloned.  *)
NewClient ==
  /\ config # Nothing
  /\ \/ /\ Admitted(config.retry) /\ config.rest # BadRest
        /\ client' = [config EXCEPT !.base = Trimmed(config.base)]
        /\ UNCHANGED config
     \/ /\ ~Admitted(config.retry) \/ config.rest = BadRest
        /\ Fail
        /\ UNCHANGED client
  /\ UNCHANGED <<edits, refused, asked>>

Next ==
  \/ \E token \in Tokens : New(token) \/ Assign("token", token)
  \/ \E token \in Tokens \cup {NoToken}, url \in Urls \cup {NoUrl}, org \in Orgs \cup {NoOrg} :
       FromEnv(token, url, org)
  \/ \E url \in Urls : WithBasePath(url) \/ Assign("base", url)
  \/ \E org \in Orgs : Assign("org", org)
  \/ \E rest \in Rests : Assign("rest", rest)
  \/ \E policy \in Policies : WithRetry(policy)
  \/ NewClient

Spec == Init /\ [][Next]_vars

-----------------------------------------------------------------------------
(* A new client can run: in whatever order the configuration was put       *)
(* together, by checked methods or by assignment, its policy gives every   *)
(* request an attempt and its base URL joins with a path that begins with  *)
(* a slash (BoxApi::new; the unreachable! of execute_bytes).               *)
ClientsCanRun ==
  client # Nothing => ValidPolicy(client.retry) /\ ~client.base.slashes

(* A client never talks to another service, on behalf of another user or   *)
(* organization, or with other limits than the ones last asked for: what   *)
(* was refused does not leave the value before it, or the default, in force*)
(* (from_env, with_base_path).                                             *)
TalksToTheChosenService ==
  [][client' # client =>
       client' = Config([asked EXCEPT !.base = Trimmed(@)], client'.retry)]_vars

(* "http only allowed for localhost", says the error of config.rs:163, and *)
(* the hosts listed above it include the IPv6 loopback address: no http    *)
(* URL of the local host is refused.                                       *)
LocalhostMayUseHttp ==
  ~(refused.scheme = "http" /\ refused.host \in {"localhost", "127.0.0.1", "::1"})

=============================================================================
