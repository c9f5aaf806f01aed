--------------------------- MODULE ClientConfigProofs ---------------------------
(***************************************************************************)
(* For all URLs, tokens and policies, and however a configuration is put   *)
(* together: a client can run, and talks to the service last asked for.    *)
(***************************************************************************)
EXTENDS ClientConfig, TLAPS

Askings ==
  [base : Urls \cup {DefaultUrl}, token : Tokens \cup {NoToken},
   org : Orgs \cup {NoOrg}, rest : Rests \cup {DefaultRest}]

(* What was asked for is what the configuration has, up to the slashes     *)
(* that BoxApi::new drops.                                                 *)
AskedInv ==
  /\ asked \in Askings
  /\ config # Nothing =>
       /\ config.token = asked.token /\ config.org = asked.org /\ config.rest = asked.rest
       /\ Trimmed(config.base) = Trimmed(asked.base)

ConfigInv == TypeOK /\ AskedInv /\ ClientsCanRun

-----------------------------------------------------------------------------
LEMMA UrlFacts ==
  /\ \A u \in Urls \cup {DefaultUrl, NoUrl} :
       /\ ~Trimmed(u).slashes
       /\ Trimmed(Trimmed(u)) = Trimmed(u)
  /\ Trimmed(DefaultUrl) = DefaultUrl /\ Trimmed(NoUrl) = NoUrl
<1>1. \A u \in Urls \cup {DefaultUrl, NoUrl} : "slashes" \in DOMAIN u
  BY ConfigAssumption DEF DefaultUrl, NoUrl, Url
<1>2. ASSUME NEW u \in Urls \cup {DefaultUrl, NoUrl}
      PROVE  ~Trimmed(u).slashes /\ Trimmed(Trimmed(u)) = Trimmed(u)
  BY <1>1 DEF Trimmed
<1>3. Trimmed(DefaultUrl) = DefaultUrl /\ Trimmed(NoUrl) = NoUrl
  <2>1. ASSUME NEW scheme, NEW host
        PROVE  Trimmed(Url(scheme, host, FALSE)) = Url(scheme, host, FALSE)
    <3> DEFINE u == Url(scheme, host, FALSE)
    <3>1. u \in [scheme : {scheme}, host : {host}, slashes : {FALSE}]
      BY DEF Url
    <3> HIDE DEF u
    <3>2. [u EXCEPT !.slashes = FALSE] = u
      BY <3>1
    <3> QED
      BY <3>2 DEF Trimmed, u
  <2> QED
    BY <2>1 DEF DefaultUrl, NoUrl
<1> QED
  BY <1>2, <1>3

(* The URLs of configurations.                                             *)
LEMMA BaseFacts ==
  ASSUME NEW u \in Bases \cup {NoUrl}
  PROVE  /\ Trimmed(u) \in Bases \cup {NoUrl} /\ ~Trimmed(u).slashes
         /\ Trimmed(Trimmed(u)) = Trimmed(u)
         /\ u \in Bases => Trimmed(u) \in Bases
<1>1. CASE u \in Urls \cup {DefaultUrl, NoUrl}
  BY <1>1, UrlFacts DEF Bases
<1>2. ASSUME NEW v \in Urls, u = Trimmed(v)
      PROVE  Trimmed(u) = u /\ ~u.slashes /\ u \in Bases
  BY <1>2, UrlFacts DEF Bases
<1> QED
  BY <1>1, <1>2 DEF Bases

Made ==
  [base : Bases, token : Tokens, org : Orgs \cup {NoOrg}, rest : Rests \cup {DefaultRest},
   retry : Policies]

LEMMA ConfigFacts ==
  /\ Configs = Made \cup {Nothing}
  /\ Nothing.base = NoUrl /\ ~NoUrl.slashes /\ Nothing.token = NoToken
  /\ Nothing \notin Made
  /\ DefaultPolicy \in Policies /\ MaxEdits \in Nat /\ NoUrl \notin Urls
<1>1. Nothing.base = NoUrl /\ ~NoUrl.slashes /\ Nothing.token = NoToken
  BY DEF Nothing, Config, Ask, NoUrl, Url
<1>2. Nothing \notin Made
  BY <1>1, ConfigAssumption DEF Made
<1>3. DefaultPolicy \in Policies
  BY ConfigAssumption, Zenon DEF DefaultPolicy
<1> QED
  BY <1>1, <1>2, <1>3, ConfigAssumption DEF Configs, Made

LEMMA ConfigBegins == Init => ConfigInv
<1> SUFFICES ASSUME Init
             PROVE  ConfigInv
  OBVIOUS
<1>1. asked \in Askings
  BY DEF Init, Askings, Ask
<1>2. config = Nothing /\ client = Nothing /\ edits = 0 /\ refused = NoUrl
  BY DEF Init
<1>3. TypeOK
  BY <1>1, <1>2, ConfigFacts DEF TypeOK, Clients, Askings
<1> QED
  BY <1>1, <1>2, <1>3 DEF ConfigInv, AskedInv, ClientsCanRun

(* What leaves the client alone keeps the rest of the invariant.           *)
LEMMA MakingKeeps ==
  ASSUME ConfigInv, UNCHANGED client, edits' \in 0..MaxEdits,
         refused' \in Urls \cup {NoUrl}, asked' \in Askings, config' \in Configs,
         config' # Nothing =>
           /\ config'.token = asked'.token /\ config'.org = asked'.org
           /\ config'.rest = asked'.rest
           /\ Trimmed(config'.base) = Trimmed(asked'.base)
  PROVE  ConfigInv'
<1>1. TypeOK'
  BY DEF ConfigInv, TypeOK, Askings
<1> QED
  BY <1>1 DEF ConfigInv, AskedInv, ClientsCanRun

(* A fresh configuration is the one asked for.                             *)
LEMMA MadeKeeps ==
  ASSUME ConfigInv, NEW token \in Tokens \cup {NoToken}, NEW base \in Bases \cup {NoUrl},
         NEW org \in Orgs \cup {NoOrg}, NEW url \in Urls \cup {DefaultUrl},
         Make(token, base, org), asked' = Ask(url, token, org),
         base # NoUrl => Trimmed(base) = Trimmed(url),
         UNCHANGED <<client, edits>>, refused' \in Urls \cup {NoUrl}
  PROVE  ConfigInv'
<1>1. asked' \in Askings
  BY DEF Ask, Askings
<1>2. CASE config' = Nothing
  BY <1>1, <1>2, MakingKeeps, ConfigFacts DEF ConfigInv, TypeOK
<1>3. CASE /\ ValidToken(token) /\ base # NoUrl
           /\ config' = Config(Ask(base, token, org), DefaultPolicy)
  <2>1. token \in Tokens /\ base \in Bases /\ DefaultPolicy \in Policies
    BY <1>3, ConfigFacts DEF ValidToken
  <2>2. config' = [base |-> base, token |-> token, org |-> org, rest |-> DefaultRest,
                   retry |-> DefaultPolicy]
    BY <1>3 DEF Config, Ask
  <2>3. config' \in Configs
    BY <2>1, <2>2, ConfigFacts DEF Made
  <2>4. /\ asked'.token = token /\ asked'.org = org /\ asked'.base = url
        /\ asked'.rest = DefaultRest
    BY DEF Ask
  <2> QED
    BY <1>1, <1>3, <2>2, <2>3, <2>4, MakingKeeps DEF ConfigInv, TypeOK
<1> QED
  BY <1>2, <1>3 DEF Make, Fail

LEMMA NewKeeps ==
  ASSUME ConfigInv, NEW token \in Tokens, New(token)
  PROVE  ConfigInv'
<1>1. DefaultUrl \in Bases
  BY DEF Bases
<1> QED
  BY <1>1, MadeKeeps DEF New, ConfigInv, TypeOK

LEMMA FromEnvKeeps ==
  ASSUME ConfigInv, NEW token \in Tokens \cup {NoToken}, NEW url \in Urls \cup {NoUrl},
         NEW org \in Orgs \cup {NoOrg}, FromEnv(token, url, org)
  PROVE  ConfigInv'
<1> DEFINE chosen == IF url = NoUrl THEN DefaultUrl ELSE url
<1>1. chosen \in Urls \cup {DefaultUrl}
  OBVIOUS
<1>2. /\ EnvBase(url) \in Bases \cup {NoUrl}
      /\ EnvBase(url) # NoUrl => Trimmed(EnvBase(url)) = Trimmed(chosen)
  <2>1. CASE url = NoUrl
    BY <2>1 DEF EnvBase, Bases
  <2>2. CASE url # NoUrl /\ ValidBasePath(url)
    BY <2>2, UrlFacts DEF EnvBase, Bases
  <2>3. CASE url # NoUrl /\ ~ValidBasePath(url)
    BY <2>3 DEF EnvBase
  <2> QED
    BY <2>1, <2>2, <2>3
<1>3. refused' \in Urls \cup {NoUrl}
  BY <1>2, UrlFacts DEF FromEnv, ConfigInv, TypeOK
<1>4. asked' = Ask(chosen, token, org) /\ Make(token, EnvBase(url), org)
      /\ UNCHANGED <<client, edits>>
  BY DEF FromEnv
<1> HIDE DEF chosen
<1> QED
  BY <1>1, <1>2, <1>3, <1>4, MadeKeeps

LEMMA EditFacts ==
  ASSUME ConfigInv, Edit
  PROVE  /\ config \in Made /\ config # Nothing /\ edits' \in 0..MaxEdits
         /\ config.token = asked.token /\ config.org = asked.org /\ config.rest = asked.rest
         /\ Trimmed(config.base) = Trimmed(asked.base) /\ asked \in Askings
         /\ refused \in Urls \cup {NoUrl}
<1>1. edits' \in 0..MaxEdits
  BY ConfigFacts DEF Edit, ConfigInv, TypeOK
<1> QED
  BY <1>1, ConfigFacts DEF Edit, ConfigInv, TypeOK, AskedInv

LEMMA WithBasePathKeeps ==
  ASSUME ConfigInv, NEW url \in Urls, WithBasePath(url)
  PROVE  ConfigInv'
<1>1. Edit /\ asked' = [asked EXCEPT !.base = url] /\ UNCHANGED client
  BY DEF WithBasePath
<1>2. /\ config \in Made /\ config # Nothing /\ edits' \in 0..MaxEdits
      /\ config.token = asked.token /\ config.org = asked.org /\ config.rest = asked.rest
      /\ asked \in Askings /\ refused \in Urls \cup {NoUrl}
  BY <1>1, EditFacts
<1>3. /\ asked' \in Askings /\ asked'.base = url
      /\ asked'.token = asked.token /\ asked'.org = asked.org /\ asked'.rest = asked.rest
  BY <1>1, <1>2 DEF Askings
<1>4. CASE config' = [config EXCEPT !.base = Trimmed(url)] /\ UNCHANGED refused
  <2>1. Trimmed(url) \in Bases /\ Trimmed(Trimmed(url)) = Trimmed(url)
    BY UrlFacts DEF Bases
  <2>2. /\ config' \in Made /\ config'.base = Trimmed(url) /\ config'.token = config.token
        /\ config'.org = config.org /\ config'.rest = config.rest
    BY <1>2, <1>4, <2>1 DEF Made
  <2> QED
    BY <1>1, <1>2, <1>3, <1>4, <2>1, <2>2, ConfigFacts, MakingKeeps
<1>5. CASE Fail /\ refused' = url
  BY <1>1, <1>2, <1>3, <1>5, ConfigFacts, MakingKeeps DEF Fail
<1> QED
  BY <1>4, <1>5 DEF WithBasePath

LEMMA AssignKeeps ==
  ASSUME ConfigInv, NEW field, NEW value, Assign(field, value),
         \/ field = "token" /\ value \in Tokens
         \/ field = "base" /\ value \in Urls
         \/ field = "org" /\ value \in Orgs
         \/ field = "rest" /\ value \in Rests
  PROVE  ConfigInv'
<1>1. /\ Edit /\ asked' = [asked EXCEPT ![field] = value]
      /\ config' = [config EXCEPT ![field] = value] /\ UNCHANGED <<client, refused>>
  BY DEF Assign
<1>2. /\ config \in Made /\ edits' \in 0..MaxEdits
      /\ config.token = asked.token /\ config.org = asked.org /\ config.rest = asked.rest
      /\ Trimmed(config.base) = Trimmed(asked.base)
      /\ asked \in Askings /\ refused \in Urls \cup {NoUrl}
  BY <1>1, EditFacts
<1>3. /\ asked' \in Askings /\ config' \in Made
      /\ config'.token = asked'.token /\ config'.org = asked'.org /\ config'.rest = asked'.rest
      /\ Trimmed(config'.base) = Trimmed(asked'.base)
  <2>1. CASE field = "token" /\ value \in Tokens
    BY <1>1, <1>2, <2>1 DEF Made, Askings
  <2>2. CASE field = "base" /\ value \in Urls
    BY <1>1, <1>2, <2>2 DEF Made, Askings, Bases
  <2>3. CASE field = "org" /\ value \in Orgs
    BY <1>1, <1>2, <2>3 DEF Made, Askings
  <2>4. CASE field = "rest" /\ value \in Rests
    BY <1>1, <1>2, <2>4 DEF Made, Askings
  <2> QED
    BY <2>1, <2>2, <2>3, <2>4
<1> QED
  BY <1>1, <1>2, <1>3, ConfigFacts, MakingKeeps

LEMMA WithRetryKeeps ==
  ASSUME ConfigInv, NEW policy \in Policies, WithRetry(policy)
  PROVE  ConfigInv'
<1>1. Edit /\ config' = [config EXCEPT !.retry = policy] /\ UNCHANGED <<client, refused, asked>>
  BY DEF WithRetry
<1>2. /\ config \in Made /\ edits' \in 0..MaxEdits
      /\ config.token = asked.token /\ config.org = asked.org /\ config.rest = asked.rest
      /\ Trimmed(config.base) = Trimmed(asked.base)
      /\ asked \in Askings /\ refused \in Urls \cup {NoUrl}
  BY <1>1, EditFacts
<1>3. /\ config' \in Made /\ config'.token = config.token /\ config'.org = config.org
      /\ config'.rest = config.rest /\ config'.base = config.base
  BY <1>1, <1>2 DEF Made
<1> QED
  BY <1>1, <1>2, <1>3, ConfigFacts, MakingKeeps

(* The client that BoxApi::new makes.                                      *)
LEMMA NewClientMakes ==
  ASSUME ConfigInv, NewClient, client' # client
  PROVE  /\ client' \in Clients
         /\ ValidPolicy(client'.retry)
         /\ client' = Config([asked EXCEPT !.base = Trimmed(@)], client'.retry)
         /\ UNCHANGED config
<1>1. /\ config # Nothing /\ Admitted(config.retry) /\ UNCHANGED config
      /\ client' = [config EXCEPT !.base = Trimmed(config.base)]
  BY DEF NewClient
<1>2. /\ config \in Made /\ asked \in Askings
      /\ config.token = asked.token /\ config.org = asked.org /\ config.rest = asked.rest
      /\ Trimmed(config.base) = Trimmed(asked.base)
  BY <1>1, ConfigFacts DEF ConfigInv, TypeOK, AskedInv
<1>3. Trimmed(config.base) \in Bases /\ ~Trimmed(config.base).slashes
  BY <1>2, BaseFacts DEF Made
<1>4. /\ client' = [base |-> Trimmed(config.base), token |-> config.token, org |-> config.org,
                    rest |-> config.rest, retry |-> config.retry]
      /\ client' \in Made /\ client'.base = Trimmed(config.base)
      /\ client'.retry = config.retry
  BY <1>1, <1>2, <1>3 DEF Made
<1>5. client' \in Clients
  BY <1>3, <1>4, ConfigFacts DEF Clients
<1>6. client' = Config([asked EXCEPT !.base = Trimmed(@)], client'.retry)
  <2> DEFINE last == [asked EXCEPT !.base = Trimmed(@)]
  <2>1. /\ last.base = Trimmed(asked.base) /\ last.token = asked.token
        /\ last.org = asked.org /\ last.rest = asked.rest
    BY <1>2 DEF Askings
  <2> HIDE DEF last
  <2>2. client' = Config(last, client'.retry)
    BY <1>2, <1>4, <2>1 DEF Config
  <2> QED
    BY <2>2 DEF last
<1> QED
  BY <1>1, <1>4, <1>5, <1>6 DEF Admitted

LEMMA NewClientKeeps ==
  ASSUME ConfigInv, NewClient
  PROVE  ConfigInv'
<1>1. UNCHANGED <<edits, refused, asked>> /\ (UNCHANGED config \/ config' = Nothing)
  BY DEF NewClient, Fail
<1>2. CASE client' = client
  <2>1. config' \in Configs
    BY <1>1, ConfigFacts DEF ConfigInv, TypeOK
  <2> QED
    BY <1>1, <1>2, <2>1, MakingKeeps DEF ConfigInv, TypeOK, AskedInv
<1>3. CASE client' # client
  <2>1. client' \in Clients /\ ValidPolicy(client'.retry) /\ UNCHANGED config
    BY <1>3, NewClientMakes
  <2>2. ~client'.base.slashes
    BY <2>1 DEF Clients
  <2>3. TypeOK' /\ AskedInv'
    BY <1>1, <2>1 DEF ConfigInv, TypeOK, AskedInv
  <2> QED
    BY <2>1, <2>2, <2>3 DEF ConfigInv, ClientsCanRun
<1> QED
  BY <1>2, <1>3

LEMMA ConfigSteps ==
  ASSUME ConfigInv, [Next]_vars
  PROVE  ConfigInv'
<1>1. CASE \E token \in Tokens : New(token) \/ Assign("token", token)
  BY <1>1, NewKeeps, AssignKeeps
<1>2. CASE \E token \in Tokens \cup {NoToken}, url \in Urls \cup {NoUrl}, org \in Orgs \cup {NoOrg} :
             FromEnv(token, url, org)
  BY <1>2, FromEnvKeeps
<1>3. CASE \E url \in Urls : WithBasePath(url) \/ Assign("base", url)
  BY <1>3, WithBasePathKeeps, AssignKeeps
<1>4. CASE \E org \in Orgs : Assign("org", org)
  BY <1>4, AssignKeeps
<1>5. CASE \E rest \in Rests : Assign("rest", rest)
  BY <1>5, AssignKeeps
<1>6. CASE \E policy \in Policies : WithRetry(policy)
  BY <1>6, WithRetryKeeps
<1>7. CASE NewClient
  BY <1>7, NewClientKeeps
<1>8. CASE UNCHANGED vars
  BY <1>8 DEF vars, ConfigInv, TypeOK, AskedInv, ClientsCanRun
<1> QED
  BY <1>1, <1>2, <1>3, <1>4, <1>5, <1>6, <1>7, <1>8 DEF Next

THEOREM ConfigInvariant == Spec => []ConfigInv
BY ConfigBegins, ConfigSteps, PTL DEF Spec

(* TypeOK: configurations and clients are made of known values, and the    *)
(* base URL of a client does not end with a slash (BoxApi::new).           *)
THEOREM ConfigTypeCorrect == Spec => []TypeOK
<1>1. ConfigInv => TypeOK
  BY DEF ConfigInv
<1> QED
  BY <1>1, ConfigInvariant, PTL

(* Every client has a valid policy and a base URL that joins with a path,  *)
(* whatever was assigned to the configuration (BoxApi::new).               *)
THEOREM EveryClientCanRun == Spec => []ClientsCanRun
<1>1. ConfigInv => ClientsCanRun
  BY DEF ConfigInv
<1> QED
  BY <1>1, ConfigInvariant, PTL

(* Every client is made of what was last asked for (from_env,              *)
(* with_base_path).                                                        *)
THEOREM ClientsTalkToTheChosenService == Spec => TalksToTheChosenService
<1>1. ASSUME ConfigInv, [Next]_vars
      PROVE  [client' # client =>
                client' = Config([asked EXCEPT !.base = Trimmed(@)], client'.retry)]_vars
  <2>1. SUFFICES ASSUME client' # client
                 PROVE  client' = Config([asked EXCEPT !.base = Trimmed(@)], client'.retry)
    OBVIOUS
  <2>2. NewClient
    BY <1>1, <2>1 DEF Next, New, FromEnv, WithBasePath, Assign, WithRetry, vars
  <2> QED
    BY <1>1, <2>1, <2>2, NewClientMakes
<1> QED
  BY <1>1, ConfigInvariant, PTL DEF Spec, TalksToTheChosenService
=============================================================================
